---------------------------- MODULE EventSignup -----------------------------
(***************************************************************************)
(* The seats of an event: the Register button and /rsvp (rsvpReply and     *)
(* toggleTarget, packages/commands-bridge/src/handlers-community.ts),      *)
(* EventService.rsvp (packages/community/src/service.ts) and the rows it   *)
(* counts and writes (packages/db/src/repositories/community.ts).          *)
(*                                                                         *)
(* Nothing holds the seats between the count and the write: members who    *)
(* press together count the same free seat.                                *)
(*                                                                         *)
(* Abstractions.  MAYBE stands for nothing the count tells apart from      *)
(* NOT_GOING, but the button takes it for registered.  An event without a  *)
(* capacity has nothing to guard and is left out.                          *)
(***************************************************************************)
EXTENDS Naturals, FiniteSets

CONSTANTS
    Press,    \* answers being dealt with together
    Guest,    \* members
    Seats,    \* the capacities the staff give the event
    MaxPresses \* bound: answers

ASSUME EventSignupAssumption ==
    /\ IsFiniteSet(Press) /\ Press # {} /\ IsFiniteSet(Guest)
    /\ Seats # {} /\ IsFiniteSet(Seats) /\ Seats \subseteq Nat \ {0}
    /\ MaxPresses \in Nat

VARIABLES
    rsvp,      \* each member's row; "none" for no row
    capacity, closed,
    press,     \* where each answer stands
    presses,
    widest     \* the largest capacity the event has had

eventSignupVars == <<rsvp, capacity, closed, press, presses, widest>>

States == {"GOING", "MAYBE", "NOT_GOING", "WAITLIST"}

NoPress == [at |-> "idle", who |-> "nobody", state |-> "TOGGLE", seats |-> 0]

Going == {m \in Guest : rsvp[m] = "GOING"}

Follow(k, from, answer) ==
    /\ press[k].at = from
    /\ press' = [press EXCEPT ![k] = answer]

----------------------------------------------------------------------------

\* The button says TOGGLE, the command what the member chose.
Answer(k, m, state) ==
    /\ presses < MaxPresses
    /\ presses' = presses + 1
    /\ Follow(k, "idle", [at |-> IF state = "TOGGLE" THEN "toggle" ELSE "event",
                          who |-> m, state |-> state, seats |-> 0])
    /\ UNCHANGED <<rsvp, capacity, closed, widest>>

\* toggleTarget: on the roster in any form, the press takes them off.
Registered(m) == rsvp[m] \in {"GOING", "MAYBE", "WAITLIST"}

ToggleTarget(k) ==
    /\ Follow(k, "toggle",
              [press[k] EXCEPT !.at = "event",
                  !.state = IF Registered(press[k].who) THEN "NOT_GOING" ELSE "GOING"])
    /\ UNCHANGED <<rsvp, capacity, closed, presses, widest>>

\* getEventForRsvp reads the event first; one that is over takes no answer.
ReadEventForRsvp(k) ==
    /\ Follow(k, "event", IF closed THEN NoPress
                          ELSE [press[k] EXCEPT !.at = "count", !.seats = capacity])
    /\ UNCHANGED <<rsvp, capacity, closed, presses, widest>>

\* Slip: the comparison lets one more in.
AtCapacityPast(seats) == Cardinality(Going) > seats

AtCapacity(seats) == Cardinality(Going) >= seats

\* The count, and what it makes of the answer.
CountGoing(k) ==
    LET full == press[k].state = "GOING" /\ AtCapacity(press[k].seats) IN
    /\ Follow(k, "count", [press[k] EXCEPT !.at = "upsert",
                               !.state = IF full THEN "WAITLIST" ELSE @])
    /\ UNCHANGED <<rsvp, capacity, closed, presses, widest>>

UpsertRsvp(k) ==
    /\ Follow(k, "upsert", NoPress)
    /\ rsvp' = [rsvp EXCEPT ![press[k].who] = press[k].state]
    /\ UNCHANGED <<capacity, closed, presses, widest>>

\* updateEvent: whether the event is over was asked before, of an older row.
Resize(seats) ==
    /\ seats # capacity
    /\ capacity' = seats
    /\ widest' = IF seats > widest THEN seats ELSE widest
    /\ UNCHANGED <<rsvp, closed, press, presses>>

\* The event is finished or called off.
CloseEvent ==
    /\ ~closed
    /\ closed' = TRUE
    /\ UNCHANGED <<rsvp, capacity, press, presses, widest>>

----------------------------------------------------------------------------

SignupInit ==
    /\ rsvp = [m \in Guest |-> "none"]
    /\ capacity \in Seats /\ widest = capacity /\ closed = FALSE
    /\ press = [k \in Press |-> NoPress]
    /\ presses = 0

SignupNext ==
    \/ \E k \in Press :
          \/ \E m \in Guest, state \in {"TOGGLE", "GOING", "MAYBE", "NOT_GOING"} : Answer(k, m, state)
          \/ ToggleTarget(k) \/ ReadEventForRsvp(k) \/ CountGoing(k) \/ UpsertRsvp(k)
    \/ \E seats \in Seats : Resize(seats)
    \/ CloseEvent

SignupSpec == SignupInit /\ [][SignupNext]_eventSignupVars

----------------------------------------------------------------------------
(* Properties.                                                             *)

\* Every variable has its type.
SignupTypeOK ==
    /\ rsvp \in [Guest -> States \cup {"none"}]
    /\ capacity \in Seats /\ widest \in Seats /\ closed \in BOOLEAN
    /\ press \in [Press -> [at : {"idle", "toggle", "event", "count", "upsert"},
                            who : Guest \cup {"nobody"}, state : States \cup {"TOGGLE"},
                            seats : Nat]]
    /\ \A k \in Press : press[k].at \in {"event", "count", "upsert"} => press[k].state \in States
    /\ presses \in Nat

\* The capacity is counted and not locked, so it can be overshot, but only by
\* those who press together: the event never has more members going than its
\* largest capacity so far and the presses there can be, less one.
SeatsAreBounded ==
    Cardinality(Going) < widest + Cardinality(Press)
=============================================================================
