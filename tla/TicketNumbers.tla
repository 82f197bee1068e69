--------------------------- MODULE TicketNumbers ---------------------------
(***************************************************************************)
(* How a ticket gets the number staff call it by                           *)
(* (packages/db/src/repositories/tickets.ts, create): the highest number   *)
(* of the guild is read, the next one is inserted under a unique index,    *)
(* and a collision tries again, a bounded number of times.                 *)
(***************************************************************************)
EXTENDS Naturals, FiniteSets

CONSTANTS
    Opener,   \* presses of an open button
    Tries     \* NUMBER_ATTEMPTS

ASSUME NumbersAssumption == IsFiniteSet(Opener) /\ Tries \in Nat \ {0}

VARIABLES
    numbers,   \* the number of each press's ticket; 0 when it has none
    create,    \* where each call of create is, with the number it is to take
    outrun     \* how often another ticket was inserted while it ran

ticketNumberVars == <<numbers, create, outrun>>

Numbers == {numbers[o] : o \in Opener} \ {0}

FreeNumber(n) == n \notin Numbers

CreateAt(at, attempt, number) == [at |-> at, attempt |-> attempt, number |-> number]

Creates(o, at, attempt, number) == create' = [create EXCEPT ![o] = CreateAt(at, attempt, number)]

\* The highest number, or 0 in a guild without tickets.
IsHighest(n) == n \in Numbers \cup {0} /\ \A m \in Numbers : m <= n

ReadHighest(o) ==
    /\ create[o].at = "read"
    /\ \E n \in Numbers \cup {0} : IsHighest(n) /\ Creates(o, "insert", create[o].attempt, n + 1)
    /\ UNCHANGED <<numbers, outrun>>

Insert(o) ==
    /\ create[o].at = "insert"
    /\ FreeNumber(create[o].number)
    /\ numbers' = [numbers EXCEPT ![o] = create[o].number]
    /\ Creates(o, "done", 0, 0)
    /\ outrun' = [p \in Opener |-> IF p = o \/ create[p].at \notin {"read", "insert"} THEN outrun[p] ELSE outrun[p] + 1]

\* Slip: the highest number is read once, before the loop.
RetryFromInsert == "insert"

RetryFrom == "read"

\* The unique index refuses the number: try again, or throw.
Collide(o) ==
    /\ create[o].at = "insert"
    /\ ~FreeNumber(create[o].number)
    /\ IF create[o].attempt < Tries
       THEN Creates(o, RetryFrom, create[o].attempt + 1, create[o].number)
       ELSE Creates(o, "exhausted", 0, 0)
    /\ UNCHANGED <<numbers, outrun>>

\* Any other error is thrown at once.
CreateFails(o) ==
    /\ create[o].at \in {"read", "insert"}
    /\ Creates(o, "failed", 0, 0)
    /\ UNCHANGED <<numbers, outrun>>

NumbersInit ==
    /\ numbers = [o \in Opener |-> 0]
    /\ create = [o \in Opener |-> CreateAt("idle", 0, 0)]
    /\ outrun = [o \in Opener |-> 0]

OpenTicket(o) ==
    /\ create[o].at = "idle"
    /\ Creates(o, "read", 1, 0)
    /\ UNCHANGED <<numbers, outrun>>

NumbersNext ==
    \E o \in Opener : OpenTicket(o) \/ ReadHighest(o) \/ Insert(o) \/ Collide(o) \/ CreateFails(o)

NumbersSpec == NumbersInit /\ [][NumbersNext]_ticketNumberVars

----------------------------------------------------------------------------
(* Properties.                                                             *)

\* Every variable has its type.
NumbersTypeOK ==
    /\ numbers \in [Opener -> Nat]
    /\ create \in [Opener ->
          [at : {"idle", "read", "insert", "done", "exhausted", "failed"}, attempt : 0..Tries, number : Nat]]
    /\ outrun \in [Opener -> Nat]

\* Nobody is refused a ticket for want of a number unless that many other
\* tickets were opened under their feet (tickets.ts:9: reading the maximum and
\* retrying "is the correct behaviour under concurrency and needs no advisory
\* lock").
ExhaustedWasOutrun == \A o \in Opener : create[o].at = "exhausted" => outrun[o] >= Tries
=============================================================================
