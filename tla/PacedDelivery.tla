--------------------------- MODULE PacedDelivery ---------------------------
(***************************************************************************)
(* What the bridge promises whoever hands it a guild command, with neither *)
(* a queue nor a drainer in sight: a command is refused at once or ends in *)
(* exactly one of onSent and onExpired; urgent commands go first, and each *)
(* kind in order of arrival; two sends are Spacing apart; nothing is sent  *)
(* after its age limit; a full backlog gives up its newest ordinary        *)
(* command to an urgent one and refuses everything else.                   *)
(***************************************************************************)
EXTENDS Integers, FiniteSets

CONSTANTS
    Command,    \* calls of push
    Urgent,     \* those with the urgent option: answers to a join request
    MaxAge,     \* per command, its age limit
    Spacing,    \* the gap between two sends
    MaxBacklog  \* commands that may wait

VARIABLES
    fate,      \* what has become of each command
    arrival,   \* the place of each accepted command in the order of arrival
    accepted,  \* how many were accepted so far
    age,       \* how long each waiting command has waited, up to its limit
    gap        \* time since the last send, up to Spacing

vars == <<fate, arrival, accepted, age, gap>>

Waiting == {c \in Command : fate[c] = "waiting"}

\* The order commands leave in.
Precedes(c, d) ==
    \/ c \in Urgent /\ d \notin Urgent
    \/ (c \in Urgent <=> d \in Urgent) /\ arrival[c] < arrival[d]

IsFirst(c) == c \in Waiting /\ \A d \in Waiting \ {c} : Precedes(c, d)

Full == Cardinality(Waiting) >= MaxBacklog

Arrives(c) ==
    /\ accepted' = accepted + 1
    /\ arrival' = [arrival EXCEPT ![c] = accepted + 1]
    /\ UNCHANGED <<age, gap>>

Accept(c) ==
    /\ fate[c] = "new"
    /\ ~Full
    /\ fate' = [fate EXCEPT ![c] = "waiting"]
    /\ Arrives(c)

\* The victim is the newest of the ordinary commands.
AcceptInstead(c, victim) ==
    /\ fate[c] = "new"
    /\ Full
    /\ c \in Urgent
    /\ victim \in Waiting \ Urgent
    /\ \A d \in Waiting \ (Urgent \cup {victim}) : arrival[d] < arrival[victim]
    /\ fate' = [fate EXCEPT ![c] = "waiting", ![victim] = "discarded"]
    /\ Arrives(c)

Refuse(c) ==
    /\ fate[c] = "new"
    /\ Full
    /\ c \in Urgent => Waiting \subseteq Urgent
    /\ fate' = [fate EXCEPT ![c] = "refused"]
    /\ UNCHANGED <<arrival, accepted, age, gap>>

Send(c) ==
    /\ IsFirst(c)
    /\ age[c] < MaxAge[c]
    /\ gap = Spacing
    /\ fate' = [fate EXCEPT ![c] = "sent"]
    /\ gap' = 0
    /\ UNCHANGED <<arrival, accepted, age>>

Abandon(c) ==
    /\ c \in Waiting
    /\ age[c] = MaxAge[c]
    /\ fate' = [fate EXCEPT ![c] = "discarded"]
    /\ UNCHANGED <<arrival, accepted, age, gap>>

\* A unit of time.  Ages and the gap matter up to their limits only.
Tick ==
    /\ age' = [c \in Command |->
                  IF c \in Waiting /\ age[c] < MaxAge[c] THEN age[c] + 1 ELSE age[c]]
    /\ gap' = IF gap < Spacing THEN gap + 1 ELSE gap
    /\ UNCHANGED <<fate, arrival, accepted>>

Init ==
    /\ fate = [c \in Command |-> "new"]
    /\ arrival = [c \in Command |-> 0]
    /\ accepted = 0
    /\ age = [c \in Command |-> 0]
    /\ gap = Spacing

Next ==
    \/ \E c \in Command : Accept(c) \/ Refuse(c) \/ Send(c) \/ Abandon(c)
    \/ \E c, victim \in Command : AcceptInstead(c, victim)
    \/ Tick

Spec == Init /\ [][Next]_vars
=============================================================================
