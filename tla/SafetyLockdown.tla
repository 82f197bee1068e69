--------------------------- MODULE SafetyLockdown ---------------------------
(***************************************************************************)
(* Lockdowns (packages/moderation/src/safety.ts): a record in Redis of the *)
(* channels a lockdown closed, and the overwrites on Discord it is the     *)
(* record of.  Staff lock and lift, and the admin bot's sweep lifts what   *)
(* has run its time; every await between two calls is a place where the    *)
(* others run.                                                             *)
(*                                                                         *)
(* Abstractions.  One guild; the record's reason, actor and times are left *)
(* out but for whether it has elapsed.  Records of an older build without  *)
(* a list of channels, and the anti-raid posture, are not modelled.        *)
(***************************************************************************)
EXTENDS Integers, FiniteSets

CONSTANTS
    Channel,   \* the text channels of the guild
    Officer,   \* staff who call lockdown and liftLockdown
    Sweep,     \* the safety sweep
    MaxCalls   \* bound: calls in all

Task == Officer \cup {Sweep}

ASSUME SafetyAssumption ==
    /\ Sweep \notin Officer
    /\ MaxCalls \in Nat

VARIABLES
    shut,      \* the SendMessages overwrite of each channel, and who denied it
    posture,   \* the lockdown record in Redis
    task,      \* where each call is
    begun,     \* calls begun
    mishaps    \* history: what has happened that may cost a record

safetyVars == <<shut, posture, task, begun, mishaps>>

\* Two calls under way at once; a record that had elapsed replaced before the
\* sweep came to it; an overwrite that could not be removed; a record that
\* could not be written.
Mishap == {"overlap", "replaced", "unlock", "record"}

NoLockdown == [scope |-> "NONE", elapsed |-> FALSE, channels |-> {}]

Lockdown(scope, channels) == [scope |-> scope, elapsed |-> FALSE, channels |-> channels]

\* What a call carries from one await to the next: the channels it has still
\* to edit and those it will record.
Doing(at, scope, todo, listed) ==
    [at |-> at, scope |-> scope, todo |-> todo, listed |-> listed]

Free == Doing("free", "NONE", {}, {})

Becomes(a, doing) == task' = [task EXCEPT ![a] = doing]

Begins(a) ==
    /\ task[a] = Free
    /\ begun < MaxCalls
    /\ begun' = begun + 1

Overlaps == \E b \in Task : task[b] # Free

Suffers(things) == mishaps' = mishaps \cup things

----------------------------------------------------------------------------
(* lockdown                                                                *)

Live == posture.scope # "NONE" /\ ~posture.elapsed

Escalates(scope) == Live /\ posture.scope = "CHANNEL" /\ scope = "SERVER"

\* Slip: what the absorbed lockdown closed is not carried over.
InheritedNothing(scope) == {}

Inherited(scope) == IF Escalates(scope) THEN posture.channels ELSE {}

\* A lockdown is refused while one is on, unless it goes from a channel to
\* the server.  A guild that cannot be fetched ends the call with nothing
\* done.
Lock(a, scope, targets) ==
    /\ Begins(a)
    /\ ~Live \/ Escalates(scope)
    /\ Becomes(a, Doing("lock", scope, targets, Inherited(scope)))
    /\ Suffers({m \in {"overlap"} : Overlaps} \cup {m \in {"replaced"} : posture.elapsed})
    /\ UNCHANGED <<shut, posture>>

\* Slip: a channel that was shut already is listed with the others.
ListedAlways(a, c) == task[a].listed \cup {c}

ListedIfChanged(a, c) == IF shut[c] = "open" THEN task[a].listed \cup {c} ELSE task[a].listed

\* setLocked(true), one channel: the overwrite is edited unless it denies.
LockChannel(a, c) ==
    /\ task[a].at = "lock"
    /\ c \in task[a].todo
    /\ shut' = IF shut[c] = "open" THEN [shut EXCEPT ![c] = "bot"] ELSE shut
    /\ Becomes(a, [task[a] EXCEPT !.todo = @ \ {c}, !.listed = ListedIfChanged(a, c)])
    /\ UNCHANGED <<posture, begun, mishaps>>

\* "One un-editable channel must not abort the sweep": it is skipped.
LockChannelFails(a, c) ==
    /\ task[a].at = "lock"
    /\ c \in task[a].todo
    /\ shut[c] = "open"
    /\ Becomes(a, [task[a] EXCEPT !.todo = @ \ {c}])
    /\ UNCHANGED <<shut, posture, begun, mishaps>>

Locked(a) == task[a].at = "lock" /\ task[a].todo = {}

Record(a) ==
    /\ Locked(a)
    /\ posture' = Lockdown(task[a].scope, task[a].listed)
    /\ Becomes(a, Free)
    /\ UNCHANGED <<shut, begun, mishaps>>

\* The write is rejected: the channels are shut, and nothing says so.
RecordFails(a) ==
    /\ Locked(a)
    /\ Suffers({"record"})
    /\ Becomes(a, Free)
    /\ UNCHANGED <<shut, posture, begun>>

----------------------------------------------------------------------------
(* liftLockdown, and sweepExpired for the one record of the guild          *)

Lift(a) ==
    /\ Begins(a)
    /\ posture # NoLockdown
    /\ a = Sweep => posture.elapsed
    /\ Becomes(a, Doing("unlock", posture.scope, posture.channels, {}))
    /\ Suffers({m \in {"overlap"} : Overlaps})
    /\ UNCHANGED <<shut, posture>>

\* setLocked(false), one channel: the overwrite is removed if it denies,
\* whoever put it there.
UnlockChannel(a, c) ==
    /\ task[a].at = "unlock"
    /\ c \in task[a].todo
    /\ shut' = [shut EXCEPT ![c] = "open"]
    /\ Becomes(a, [task[a] EXCEPT !.todo = @ \ {c}])
    /\ UNCHANGED <<posture, begun, mishaps>>

\* The edit is rejected inside setLocked, which logs it and returns ok.
UnlockChannelFails(a, c) ==
    /\ task[a].at = "unlock"
    /\ c \in task[a].todo
    /\ shut[c] # "open"
    /\ Suffers({"unlock"})
    /\ Becomes(a, [task[a] EXCEPT !.todo = @ \ {c}])
    /\ UNCHANGED <<shut, posture, begun>>

\* The guild or the channel cannot be fetched: the lift ends, and the record
\* stays for another try.
UnlockAborts(a, c) ==
    /\ task[a].at = "unlock"
    /\ c \in task[a].todo
    /\ Becomes(a, Free)
    /\ UNCHANGED <<shut, posture, begun, mishaps>>

Unlocked(a) == task[a].at = "unlock" /\ task[a].todo = {}

\* The key is deleted, whichever record it holds by now.
Clear(a) ==
    /\ Unlocked(a)
    /\ posture' = NoLockdown
    /\ Becomes(a, Free)
    /\ UNCHANGED <<shut, begun, mishaps>>

----------------------------------------------------------------------------
(* The world.                                                              *)

Elapses ==
    /\ Live
    /\ posture' = [posture EXCEPT !.elapsed = TRUE]
    /\ UNCHANGED <<shut, task, begun, mishaps>>

\* Staff shut a channel by hand in quiet times, and may open one during a
\* lockdown.
HandShuts(c) ==
    /\ shut[c] = "open"
    /\ posture = NoLockdown
    /\ \A a \in Task : task[a] = Free
    /\ shut' = [shut EXCEPT ![c] = "hand"]
    /\ UNCHANGED <<posture, task, begun, mishaps>>

HandOpens(c) ==
    /\ shut[c] = "bot"
    /\ shut' = [shut EXCEPT ![c] = "open"]
    /\ UNCHANGED <<posture, task, begun, mishaps>>

----------------------------------------------------------------------------

SafetyInit ==
    /\ shut = [c \in Channel |-> "open"]
    /\ posture = NoLockdown
    /\ task = [a \in Task |-> Free]
    /\ begun = 0
    /\ mishaps = {}

LockStep(a) ==
    \/ Lock(a, "SERVER", Channel)
    \/ \E c \in Channel : Lock(a, "CHANNEL", {c}) \/ LockChannel(a, c) \/ LockChannelFails(a, c)
    \/ Record(a) \/ RecordFails(a)

LiftStep(a) ==
    \/ Lift(a)
    \/ \E c \in Channel : UnlockChannel(a, c) \/ UnlockChannelFails(a, c) \/ UnlockAborts(a, c)
    \/ Clear(a)

SafetyNext ==
    \/ \E a \in Officer : LockStep(a)
    \/ \E a \in Task : LiftStep(a)
    \/ Elapses
    \/ \E c \in Channel : HandShuts(c) \/ HandOpens(c)

SafetySpec == SafetyInit /\ [][SafetyNext]_safetyVars

----------------------------------------------------------------------------
(* Properties.                                                             *)

Scope == {"NONE", "CHANNEL", "SERVER"}

\* Every variable has its type.
SafetyTypeOK ==
    /\ shut \in [Channel -> {"open", "bot", "hand"}]
    /\ posture \in [scope : Scope, elapsed : BOOLEAN, channels : SUBSET Channel]
    /\ task \in [Task -> [at : {"free", "lock", "unlock"}, scope : Scope, todo : SUBSET Channel,
                          listed : SUBSET Channel]]
    /\ begun \in 0..MaxCalls
    /\ mishaps \in SUBSET Mishap

\* Calls made one at a time leave no orphan: a channel the bot shut is in the
\* record that will open it, or on the list of the call that is at it.  This
\* is so through any sequence of locks, escalations, lifts, sweeps, hands on
\* the channels, channels that cannot be shut and lifts that give up half way,
\* as long as every overwrite a lift removes is removed, every record is
\* written, and none is replaced that the sweep has still to lift.
EveryShutIsListed ==
    mishaps = {} =>
        \A c \in Channel :
            shut[c] = "bot" => c \in posture.channels \/ \E a \in Task : c \in task[a].listed

\* ... and a lift opens exactly what its lockdown closed: a channel staff had
\* shut by hand before it stays shut, whatever fails.
HandShutStaysShut ==
    [][\A c \in Channel : shut[c] = "hand" => shut'[c] = "hand"]_safetyVars

\* A lockdown forgets no channel an earlier one shut (safety.ts:66: "a second
\* channel lock would silently drop the first channel's record while leaving
\* the channel itself locked").
NothingIsForgotten ==
    mishaps \subseteq {"replaced"} =>
        \A c \in Channel :
            shut[c] = "bot" => c \in posture.channels \/ \E a \in Task : c \in task[a].listed
=============================================================================
