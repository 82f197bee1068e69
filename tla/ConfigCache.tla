---------------------------- MODULE ConfigCache -----------------------------
(***************************************************************************)
(* A guild's configuration as the processes that share it see it           *)
(* (packages/guild-config/src/service.ts): each keeps a copy for a few     *)
(* seconds, drops it when it writes, and tells the others to drop theirs   *)
(* (RedisConfigBus in packages/redis/src/adapters.ts).                     *)
(*                                                                         *)
(* Abstractions.  One guild, whose row is reduced to how many writes it    *)
(* has seen.  Time passes in ticks, and a read takes less than one.        *)
(***************************************************************************)
EXTENDS Integers

CONSTANTS
    Process,     \* the bots and the panel
    Asker,       \* callers of get in each process
    Ttl,         \* ticks a copy is served for
    MaxSets,     \* bound: writes in all
    MaxBadReads  \* bound: reads the database fails

ASSUME ConfigCacheAssumption ==
    /\ Ttl \in Nat \ {0}
    /\ MaxSets \in Nat
    /\ MaxBadReads \in Nat

VARIABLES
    row,       \* writes the row has seen
    outdated,  \* ticks since the row moved on from what each write left, to Ttl + 1
    copy,      \* each process's copy: what it holds and its age in ticks
    asking,    \* each get under way or just answered
    setting,   \* the write each process is at
    hints,     \* processes a change has still to be announced to
    told,      \* the latest write each process knows was made
    crossed,   \* history: a process was told while it had a read under way
    badReads   \* reads that failed

configCacheVars == <<row, outdated, copy, asking, setting, hints, told, crossed, badReads>>

Sets == 0..MaxSets

Copy(value, ticks) == [value |-> value, age |-> ticks]

NoCopy == Copy(-1, 0)

\* had is the copy there was, too old to be served, when the read began.
Asking(at, owed, got, had) == [at |-> at, owed |-> owed, got |-> got, had |-> had]

NotAsking == Asking("idle", 0, 0, -1)

Reading(p) == \E a \in Asker : asking[p][a].at = "read"

----------------------------------------------------------------------------
(* get                                                                     *)

\* Slip: a copy as old as it may get is served once more.
FreshForOneMore(p) == copy[p] # NoCopy /\ copy[p].age <= Ttl

Fresh(p) == copy[p] # NoCopy /\ copy[p].age < Ttl

Ask(p, a) ==
    /\ asking[p][a] = NotAsking
    /\ asking' = [asking EXCEPT ![p][a] = IF Fresh(p)
                                          THEN Asking("answered", told[p], copy[p].value, -1)
                                          ELSE Asking("read", told[p], row, copy[p].value)]
    /\ UNCHANGED <<row, outdated, copy, setting, hints, told, crossed, badReads>>

\* The row was read when the database came to it, and is kept from now on.
ReadReturns(p, a) ==
    /\ asking[p][a].at = "read"
    /\ copy' = [copy EXCEPT ![p] = Copy(asking[p][a].got, 0)]
    /\ asking' = [asking EXCEPT ![p][a] = Asking("answered", @.owed, @.got, -1)]
    /\ UNCHANGED <<row, outdated, setting, hints, told, crossed, badReads>>

\* "A stale config is far better than a dead bridge": the value there was when
\* the read began, or an error.
ReadFails(p, a) ==
    /\ asking[p][a].at = "read"
    /\ badReads < MaxBadReads
    /\ badReads' = badReads + 1
    /\ asking' = [asking EXCEPT ![p][a] = IF @.had = -1
                                          THEN NotAsking
                                          ELSE Asking("answered", @.owed, @.had, -1)]
    /\ UNCHANGED <<row, outdated, copy, setting, hints, told, crossed>>

TakeAnswer(p, a) ==
    /\ asking[p][a].at = "answered"
    /\ asking' = [asking EXCEPT ![p][a] = NotAsking]
    /\ UNCHANGED <<row, outdated, copy, setting, hints, told, crossed, badReads>>

----------------------------------------------------------------------------
(* write, and the announcements                                            *)

SetRow(p) ==
    /\ setting[p] = 0
    /\ row < MaxSets
    /\ row' = row + 1
    /\ setting' = [setting EXCEPT ![p] = row + 1]
    /\ UNCHANGED <<outdated, copy, asking, hints, told, crossed, badReads>>

\* Slip: the process keeps the copy it has.
DroppedNever(p) == copy

Dropped(p) == [copy EXCEPT ![p] = NoCopy]

Learns(p, set) ==
    /\ told' = [told EXCEPT ![p] = IF set > @ THEN set ELSE @]
    /\ crossed' = [crossed EXCEPT ![p] = @ \/ Reading(p)]

\* The copy goes, and the others are told; a publish that fails is logged.
Announce(p) ==
    /\ setting[p] # 0
    /\ copy' = Dropped(p)
    /\ Learns(p, setting[p])
    /\ setting' = [setting EXCEPT ![p] = 0]
    /\ \E heard \in SUBSET (Process \ {p}) : hints' = hints \cup {<<q, setting[p]>> : q \in heard}
    /\ UNCHANGED <<row, outdated, asking, badReads>>

HearHint(p) ==
    \E set \in Sets :
        /\ <<p, set>> \in hints
        /\ hints' = hints \ {<<p, set>>}
        /\ copy' = Dropped(p)
        /\ Learns(p, set)
        /\ UNCHANGED <<row, outdated, asking, setting, badReads>>

----------------------------------------------------------------------------

Older(ticks) == IF ticks > Ttl THEN ticks ELSE ticks + 1

ConfigTick ==
    /\ \A p \in Process : ~Reading(p) /\ setting[p] = 0
    /\ outdated' = [s \in Sets |-> IF s < row THEN Older(outdated[s]) ELSE 0]
    /\ copy' = [p \in Process |-> IF copy[p] = NoCopy THEN NoCopy
                                  ELSE Copy(copy[p].value, Older(copy[p].age))]
    /\ UNCHANGED <<row, asking, setting, hints, told, crossed, badReads>>

ConfigCacheInit ==
    /\ row = 0
    /\ outdated = [s \in Sets |-> 0]
    /\ copy = [p \in Process |-> NoCopy]
    /\ asking = [p \in Process |-> [a \in Asker |-> NotAsking]]
    /\ setting = [p \in Process |-> 0]
    /\ hints = {}
    /\ told = [p \in Process |-> 0]
    /\ crossed = [p \in Process |-> FALSE]
    /\ badReads = 0

ConfigCacheNext ==
    \/ \E p \in Process, a \in Asker :
          Ask(p, a) \/ ReadReturns(p, a) \/ ReadFails(p, a) \/ TakeAnswer(p, a)
    \/ \E p \in Process : SetRow(p) \/ Announce(p) \/ HearHint(p)
    \/ ConfigTick

ConfigCacheSpec == ConfigCacheInit /\ [][ConfigCacheNext]_configCacheVars

----------------------------------------------------------------------------
(* Properties.                                                             *)

\* Every variable has its type.
ConfigCacheTypeOK ==
    /\ row \in Sets
    /\ outdated \in [Sets -> 0..(Ttl + 1)]
    /\ copy \in [Process -> [value : {-1} \cup Sets, age : 0..(Ttl + 1)]]
    /\ asking \in [Process -> [Asker -> [at : {"idle", "read", "answered"}, owed : Sets, got : Sets,
                                      had : {-1} \cup Sets]]]
    /\ setting \in [Process -> Sets]
    /\ hints \subseteq Process \X Sets
    /\ told \in [Process -> Sets]
    /\ crossed \in [Process -> BOOLEAN]
    /\ badReads \in 0..MaxBadReads

\* "Writes clear the entry so a staffer never has to wonder whether their
\* toggle took effect": a process that made a write, or heard of one, answers
\* no get begun after that from before the write - unless a read of its own
\* was under way at that moment (which puts the old row back for Ttl) or the
\* database fails it later.
ToldIsSeen ==
    \A p \in Process, a \in Asker :
        asking[p][a].at = "answered" /\ ~crossed[p] /\ badReads = 0
            => asking[p][a].got >= asking[p][a].owed

\* Even so, and with every announcement lost, no copy is served that the row
\* moved on from Ttl ticks ago or more, as long as the database answers.
StaleIsBrief ==
    [][\A p \in Process, a \in Asker :
          asking[p][a] = NotAsking /\ asking'[p][a].at = "answered"
              => outdated[asking'[p][a].got] < Ttl]_configCacheVars
=============================================================================
