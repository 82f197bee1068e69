---------------------------- MODULE CommandQueue ----------------------------
(***************************************************************************)
(* The bridge's outbound queue of guild commands                           *)
(* (apps/bridge-bot/src/command-queue.ts): push, which may start the       *)
(* drainer, and drain, an async loop of which at most one runs.            *)
(*                                                                         *)
(* JavaScript runs a stretch of code between two awaits to its end.  The   *)
(* drainer is at "loop" or "head" inside such a stretch, and no other      *)
(* action is taken then; at "asleep" it awaits a timer, and everything     *)
(* else may happen before it wakes, however late.                          *)
(*                                                                         *)
(* Abstractions.  A command is one call of push.  Ages, the time since the *)
(* last send and a sleep are counted from the event on, and only up to the *)
(* limit they are compared with.  Counters of stats() are left out.        *)
(***************************************************************************)
EXTENDS Integers, Sequences, FiniteSets, SequencesExt

CONSTANTS
    Command,    \* calls of push
    Urgent,     \* those with the urgent option: answers to a join request
    MaxAge,     \* per command, its age limit
    Spacing,    \* spacingMs
    MaxBacklog  \* maxBacklog

ASSUME QueueAssumption ==
    /\ IsFiniteSet(Command)
    /\ Urgent \subseteq Command
    /\ MaxAge \in [Command -> Nat]
    /\ Spacing \in Nat \ {0}
    /\ MaxBacklog \in Nat \ {0}

VARIABLES
    pending,   \* the array of waiting commands
    drainer,   \* "off" when draining is false
    sleep,     \* what is left of the drainer's sleep
    session,   \* whether deliver finds a live, spawned session
    age,       \* now() - at of each waiting command
    gap,       \* now() - lastSentAt
    fate,      \* the hook each command ended in
    arrival,   \* the place of each accepted command in the order of arrival
    accepted   \* how many pushes returned true

vars == <<pending, drainer, sleep, session, age, gap, fate, arrival, accepted>>

----------------------------------------------------------------------------
(* push                                                                    *)

\* The synchronous stretch under way, if any, has ended.
Yielded == drainer \in {"off", "asleep"}

Full == Len(pending) >= MaxBacklog

OrdinaryAt == {i \in 1..Len(pending) : pending[i] \notin Urgent}

\* Slip: an urgent command jumps the urgent ones too.
IsPlaceFirst(queue, c, p) == p = IF c \in Urgent THEN 1 ELSE Len(queue) + 1

\* Behind the urgent commands at the front, or at the back.
IsPlace(queue, c, p) ==
    IF c \in Urgent
    THEN /\ \A i \in 1..(p - 1) : queue[i] \in Urgent
         /\ p <= Len(queue) => queue[p] \notin Urgent
    ELSE p = Len(queue) + 1

Place(queue, c) ==
    \E p \in 1..(Len(queue) + 1) :
        IsPlace(queue, c, p) /\ pending' = InsertAt(queue, p, c)

\* push returns true, and drain() is called: it returns if draining.
Taken(c) ==
    /\ arrival' = [arrival EXCEPT ![c] = accepted + 1]
    /\ accepted' = accepted + 1
    /\ drainer' = IF drainer = "off" THEN "loop" ELSE drainer
    /\ UNCHANGED <<sleep, session, age, gap>>

Push(c) ==
    /\ Yielded
    /\ fate[c] = "new"
    /\ ~Full
    /\ Place(pending, c)
    /\ fate' = [fate EXCEPT ![c] = "waiting"]
    /\ Taken(c)

\* displaceOrdinary: the newest ordinary command makes room.
PushDisplacing(c) ==
    /\ Yielded
    /\ fate[c] = "new"
    /\ Full
    /\ c \in Urgent
    /\ \E i \in OrdinaryAt :
          /\ \A j \in OrdinaryAt : j <= i
          /\ Place(RemoveAt(pending, i), c)
          /\ fate' = [fate EXCEPT ![c] = "waiting", ![pending[i]] = "discarded"]
    /\ Taken(c)

PushRefused(c) ==
    /\ Yielded
    /\ fate[c] = "new"
    /\ Full
    /\ c \in Urgent => OrdinaryAt = {}
    /\ fate' = [fate EXCEPT ![c] = "refused"]
    /\ UNCHANGED <<pending, drainer, sleep, session, age, gap, arrival, accepted>>

----------------------------------------------------------------------------
(* drain                                                                   *)

Asleep(ms) == drainer' = "asleep" /\ sleep' = ms

\* The while condition: nothing is left.
Stop ==
    /\ drainer = "loop"
    /\ pending = <<>>
    /\ drainer' = "off"
    /\ UNCHANGED <<pending, sleep, session, age, gap, fate, arrival, accepted>>

\* What is left of the gap since the last send is slept through.
Pace ==
    /\ drainer = "loop"
    /\ pending # <<>>
    /\ IF gap < Spacing THEN Asleep(Spacing - gap) ELSE drainer' = "head" /\ UNCHANGED sleep
    /\ UNCHANGED <<pending, session, age, gap, fate, arrival, accepted>>

\* The sleep is over, and the head is read again: it may be another command.
\* A drainer that held a command goes round the loop instead, which for it
\* ends at the head as well, since nothing was sent meanwhile.
Wake ==
    /\ drainer = "asleep"
    /\ sleep = 0
    /\ drainer' = IF pending = <<>> THEN "off" ELSE "head"
    /\ UNCHANGED <<pending, sleep, session, age, gap, fate, arrival, accepted>>

\* Slip: the age is looked at only when there is a session.
OverdueIfLive(c) == session /\ age[c] >= MaxAge[c]

Overdue(c) == age[c] >= MaxAge[c]

\* Slip: the drainer leaves when it has discarded a command.
AfterDiscardStop == "off"

AfterDiscard == "loop"

Expire ==
    /\ drainer = "head"
    /\ Overdue(Head(pending))
    /\ pending' = Tail(pending)
    /\ fate' = [fate EXCEPT ![Head(pending)] = "discarded"]
    /\ drainer' = AfterDiscard
    /\ UNCHANGED <<sleep, session, age, gap, arrival, accepted>>

\* deliver returned false: the command stays, for another try.
Hold ==
    /\ drainer = "head"
    /\ ~Overdue(Head(pending))
    /\ ~session
    /\ Asleep(Spacing)
    /\ UNCHANGED <<pending, session, age, gap, fate, arrival, accepted>>

Deliver ==
    /\ drainer = "head"
    /\ ~Overdue(Head(pending))
    /\ session
    /\ pending' = Tail(pending)
    /\ fate' = [fate EXCEPT ![Head(pending)] = "sent"]
    /\ gap' = 0
    /\ drainer' = "loop"
    /\ UNCHANGED <<sleep, session, age, arrival, accepted>>

----------------------------------------------------------------------------
(* The world.                                                              *)

\* The Mineflayer session spawns, or ends.
SessionChanges ==
    /\ Yielded
    /\ session' = ~session
    /\ UNCHANGED <<pending, drainer, sleep, age, gap, fate, arrival, accepted>>

Tick ==
    /\ Yielded
    /\ age' = [c \in Command |->
                  IF fate[c] = "waiting" /\ age[c] < MaxAge[c] THEN age[c] + 1 ELSE age[c]]
    /\ gap' = IF gap < Spacing THEN gap + 1 ELSE gap
    /\ sleep' = IF sleep > 0 THEN sleep - 1 ELSE sleep
    /\ UNCHANGED <<pending, drainer, session, fate, arrival, accepted>>

----------------------------------------------------------------------------

\* lastSentAt starts at the epoch, so the first command waits for no gap.
Init ==
    /\ pending = <<>>
    /\ drainer = "off"
    /\ sleep = 0
    /\ session \in BOOLEAN
    /\ age = [c \in Command |-> 0]
    /\ gap = Spacing
    /\ fate = [c \in Command |-> "new"]
    /\ arrival = [c \in Command |-> 0]
    /\ accepted = 0

DrainStep == Stop \/ Pace \/ Wake \/ Expire \/ Hold \/ Deliver

Next ==
    \/ \E c \in Command : Push(c) \/ PushDisplacing(c) \/ PushRefused(c)
    \/ DrainStep
    \/ SessionChanges
    \/ Tick

Spec == Init /\ [][Next]_vars

\* The event loop runs what is due, and time passes.  A session is never
\* owed to anybody.
FairSpec == Spec /\ WF_vars(DrainStep) /\ WF_vars(Tick)

----------------------------------------------------------------------------
(* Properties.                                                             *)

Fate == {"new", "refused", "waiting", "sent", "discarded"}

\* Every variable has its type, and the backlog its bound.
TypeOK ==
    /\ pending \in Seq(Command) /\ Len(pending) <= MaxBacklog
    /\ drainer \in {"off", "loop", "head", "asleep"}
    /\ sleep \in 0..Spacing
    /\ session \in BOOLEAN
    /\ age \in [Command -> Nat] /\ \A c \in Command : age[c] <= MaxAge[c]
    /\ gap \in 0..Spacing
    /\ fate \in [Command -> Fate]
    /\ arrival \in [Command -> Nat]
    /\ accepted \in Nat

\* No lost wake-up: while a command waits, a drainer is there to take it, or
\* nobody would look at the queue until the next push.
WaitingIsDrained == pending # <<>> => drainer # "off"

\* The queue keeps the promise of PacedDelivery: every accepted command ends
\* in one hook, once; urgent first, then by arrival; spaced; never late; the
\* newest ordinary command is the one displaced.
Promise == INSTANCE PacedDelivery WITH
    Command <- Command, Urgent <- Urgent, MaxAge <- MaxAge, Spacing <- Spacing,
    MaxBacklog <- MaxBacklog,
    fate <- fate, arrival <- arrival, accepted <- accepted, age <- age, gap <- gap
PromiseKept == Promise!Spec

\* Every accepted command ends, with a session or without one.
AcceptedIsSettled ==
    \A c \in Command : fate[c] = "waiting" ~> fate[c] \in {"sent", "discarded"}

----------------------------------------------------------------------------
(* The strengthening under which the invariants are inductive.             *)

\* A drainer at the head finds a command there and the gap gone by, although
\* it looked at both before its sleep; the sleep it is in is long enough.
DrainerInv ==
    /\ drainer \in {"head", "asleep"} => pending # <<>>
    /\ drainer = "head" => gap = Spacing
    /\ drainer = "asleep" => gap + sleep >= Spacing

\* The order of departure, on arrival numbers.
Precedes(c, d) ==
    \/ c \in Urgent /\ d \notin Urgent
    \/ (c \in Urgent <=> d \in Urgent) /\ arrival[c] < arrival[d]

\* The array holds the waiting commands, each once, in that order.
QueueInv ==
    /\ \A c \in Command : fate[c] = "waiting" <=> \E i \in 1..Len(pending) : pending[i] = c
    /\ \A i, j \in 1..Len(pending) : i < j => Precedes(pending[i], pending[j])
    /\ \A c \in Command : arrival[c] <= accepted

IInv == TypeOK /\ WaitingIsDrained /\ DrainerInv /\ QueueInv
=============================================================================
