------------------------------ MODULE Tickets ------------------------------
(***************************************************************************)
(* One ticket's life: the row, the Discord channel made for it, the staff  *)
(* and the opener who act on it from the channel, from the admin bot and   *)
(* from the panel, and the worker's sweep that warns and closes            *)
(* (apps/bridge-bot/src/tickets.ts, packages/tickets/src/lifecycle.ts,     *)
(* packages/community/src/service.ts, packages/jobs/src/tickets.ts).       *)
(*                                                                         *)
(* Abstractions.  Time is ticks.  Topics, answers, notices and the         *)
(* contents of messages are left out; a refused press changes nothing and  *)
(* is left out.  The sweep reads the row and the count of messages in one  *)
(* step.  A transcript whose DM bounces counts as one: staff are pointed   *)
(* at the panel.                                                           *)
(***************************************************************************)
EXTENDS Integers

CONSTANTS
    TicketStaff,  \* those whom isStaff admits
    TicketOpener, \* the member whose ticket it is
    Janitor,      \* the sweep, which acts as SYSTEM
    StaleAfter,   \* silence after which a ticket is going quiet
    CloseAfter,   \* autoCloseAfterMinutes
    ResumeCount   \* messages that withdraw a close request

Actor == TicketStaff \cup {TicketOpener, Janitor}

ASSUME TicketsAssumption ==
    /\ TicketOpener \notin TicketStaff
    /\ Janitor \notin TicketStaff \cup {TicketOpener}
    /\ StaleAfter \in Nat /\ CloseAfter \in Nat \ {0} /\ ResumeCount \in Nat \ {0}

VARIABLES
    \* the row
    status, claimant,
    asked,     \* ticks since a close was asked for; NotAsked when it was not
    silence,   \* ticks since the last message
    talked,    \* messages since the request
    bound,     \* the row knows its channel
    \* Discord
    room,      \* the channel
    informed,  \* the opener has been sent the transcript
    \* those at work
    opened,    \* how far open() is
    acting,    \* what everybody is doing to the ticket
    warned,    \* the worker remembers having warned
    changed    \* since the sweep looked: a message, or a close request

ticketRowVars == <<status, claimant, asked, silence, talked, bound>>
ticketVars == <<ticketRowVars, room, informed, opened, acting, warned, changed>>

NotAsked == -1

Nobody == {}

Idle == [at |-> "idle", how |-> "none", room |-> FALSE]

Acts(who, at) == acting' = [acting EXCEPT ![who].at = at]

EndsAct(who) == acting' = [acting EXCEPT ![who] = Idle]

----------------------------------------------------------------------------
(* open, in the bridge.                                                    *)

OpenRow ==
    /\ opened = "new"
    /\ status' = "OPEN"
    /\ opened' = "row"
    /\ UNCHANGED <<claimant, asked, silence, talked, bound, room, informed, acting, warned, changed>>

MakeChannel ==
    /\ opened = "row"
    /\ room' = "open"
    /\ opened' = "made"
    /\ UNCHANGED <<ticketRowVars, informed, acting, warned, changed>>

\* The row stays, and staff can see it.
NoChannel ==
    /\ opened = "row"
    /\ opened' = "done"
    /\ UNCHANGED <<ticketRowVars, room, informed, acting, warned, changed>>

\* A binding that fails is swallowed; the greeting follows all the same.
BindChannel ==
    /\ opened = "made"
    /\ bound' \in BOOLEAN
    /\ opened' = "done"
    /\ UNCHANGED <<status, claimant, asked, silence, talked, room, informed, acting, warned, changed>>

----------------------------------------------------------------------------
(* The transitions: the row is read, the lifecycle decides, the row is     *)
(* patched.                                                                *)

IsStaff(who) == who \in TicketStaff \cup {Janitor}

CanAct(who) == IsStaff(who) \/ who = TicketOpener

\* What the lifecycle allows; claim takes it that the category does too.
Allowed(who, how) ==
    /\ status = "OPEN"
    /\ CASE how = "claim" -> IsStaff(who) /\ claimant = Nobody
         [] how = "release" -> IsStaff(who) /\ claimant # Nobody
         [] how = "transfer" -> IsStaff(who)
         [] OTHER -> CanAct(who)

\* The controls in the channel: getTicketByChannel finds the bound row.
PressInChannel(who, how) ==
    /\ how \in {"claim", "release", "ask", "close"}
    /\ room = "open"
    /\ bound

\* The panel's buttons, and the admin bot's close by id.
PressElsewhere(who, how) ==
    /\ how \in {"claim", "transfer", "closeById", "closeOnPanel"}
    /\ who \in TicketStaff

ReadTicket(who, how) ==
    /\ acting[who].at = "idle"
    /\ who # Janitor
    /\ PressInChannel(who, how) \/ PressElsewhere(who, how)
    /\ Allowed(who, how)
    /\ acting' = [acting EXCEPT ![who] = [at |-> "patch", how |-> how, room |-> how = "close"]]
    /\ UNCHANGED <<ticketRowVars, room, informed, opened, warned, changed>>

\* transfer hands the ticket to whoever the presser names.
PatchClaim(who) ==
    /\ acting[who].at = "patch"
    /\ acting[who].how \in {"claim", "release", "transfer"}
    /\ CASE acting[who].how = "claim" -> claimant' = {who}
         [] acting[who].how = "release" -> claimant' = Nobody
         [] OTHER -> claimant' \in {{s} : s \in TicketStaff}
    /\ EndsAct(who)
    /\ UNCHANGED <<status, asked, silence, talked, bound, room, informed, opened, warned, changed>>

PatchRequest(who) ==
    /\ acting[who].at = "patch"
    /\ acting[who].how = "ask"
    /\ asked' = 0
    /\ talked' = 0
    /\ changed' = TRUE
    /\ EndsAct(who)
    /\ UNCHANGED <<status, claimant, silence, bound, room, informed, opened, warned>>

\* Only the bridge's own closes go on to the farewell.
AfterPatch(who) ==
    IF acting[who].how = "closeOnPanel"
    THEN EndsAct(who)
    ELSE acting' = [acting EXCEPT ![who] = [at |-> "transcript", how |-> @.how, room |-> @.room \/ bound]]

PatchClose(who) ==
    /\ acting[who].at = "patch"
    /\ acting[who].how \in {"close", "closeById", "closeOnPanel", "sweep"}
    /\ status' = "CLOSED"
    /\ AfterPatch(who)
    /\ UNCHANGED <<claimant, asked, silence, talked, bound, room, informed, opened, warned, changed>>

\* Slip: afterClose runs whatever the outcome.
AfterFailureAnyway(who) == Acts(who, "transcript")

AfterFailure(who) == EndsAct(who)

\* The update fails: patch answers null, and the presser hears so.
PatchFails(who) ==
    /\ acting[who].at = "patch"
    /\ AfterFailure(who)
    /\ UNCHANGED <<ticketRowVars, room, informed, opened, warned, changed>>

----------------------------------------------------------------------------
(* afterClose.                                                             *)

DeliverTranscript(who) ==
    /\ acting[who].at = "transcript"
    /\ informed' = TRUE
    /\ Acts(who, "dispose")
    /\ UNCHANGED <<ticketRowVars, room, opened, warned, changed>>

\* Archived or deleted; Discord may refuse, which is only logged.
DisposeChannel(who) ==
    /\ acting[who].at = "dispose"
    /\ room' \in IF acting[who].room /\ room = "open" THEN {"gone", "open"} ELSE {room}
    /\ EndsAct(who)
    /\ UNCHANGED <<ticketRowVars, informed, opened, warned, changed>>

----------------------------------------------------------------------------
(* The sweep.                                                              *)

\* Slip: a close request counts for as long as the ticket is open.
StandsForever == asked # NotAsked

\* The close request has not been talked over.
Stands == asked # NotAsked /\ talked < ResumeCount

IsPendingClosure == Stands \/ silence >= StaleAfter

SweepAction ==
    IF ~IsPendingClosure THEN "NONE"
    ELSE IF (IF Stands THEN asked ELSE silence) >= CloseAfter THEN "AUTO_CLOSE"
    ELSE IF warned THEN "NONE" ELSE "WARN_STALE"

\* The worker's call is answered, or times out and nothing is remembered.
SweepWarns ==
    /\ acting[Janitor].at = "idle"
    /\ status = "OPEN"
    /\ SweepAction = "WARN_STALE"
    /\ warned' = TRUE
    /\ UNCHANGED <<ticketRowVars, room, informed, opened, acting, changed>>

\* A ticket without a channel is reported closed, and is not: the worker
\* forgets it, and finds it again.
SweepPassesOver ==
    /\ acting[Janitor].at = "idle"
    /\ status = "OPEN"
    /\ SweepAction = "AUTO_CLOSE"
    /\ ~bound
    /\ warned' = FALSE
    /\ UNCHANGED <<ticketRowVars, room, informed, opened, acting, changed>>

SweepDecides ==
    /\ acting[Janitor].at = "idle"
    /\ status = "OPEN"
    /\ SweepAction = "AUTO_CLOSE"
    /\ bound
    /\ acting' = [acting EXCEPT ![Janitor] = [at |-> "check", how |-> "sweep", room |-> TRUE]]
    /\ changed' = FALSE
    /\ UNCHANGED <<ticketRowVars, room, informed, opened, warned>>

\* closeTicket reads the row again, but not why it was to be closed.
SweepChecks ==
    /\ acting[Janitor].at = "check"
    /\ IF Allowed(Janitor, "close") THEN Acts(Janitor, "patch") ELSE EndsAct(Janitor)
    /\ warned' \in {warned, FALSE}
    /\ UNCHANGED <<ticketRowVars, room, informed, opened, changed>>

\* The memory in Redis runs out.
WarningForgotten ==
    /\ warned
    /\ warned' = FALSE
    /\ UNCHANGED <<ticketRowVars, room, informed, opened, acting, changed>>

----------------------------------------------------------------------------

\* capture: somebody writes in the channel, and the bridge knows it.
Message ==
    /\ room = "open"
    /\ bound
    /\ silence' = 0
    /\ talked' = IF asked # NotAsked /\ talked < ResumeCount THEN talked + 1 ELSE talked
    /\ changed' = TRUE
    /\ UNCHANGED <<status, claimant, asked, bound, room, informed, opened, acting, warned>>

Later(t) == IF t \in 0..(CloseAfter - 1) THEN t + 1 ELSE t

TicketTick ==
    /\ status # "none"
    /\ silence' = Later(silence)
    /\ asked' = Later(asked)
    /\ UNCHANGED <<status, claimant, talked, bound, room, informed, opened, acting, warned, changed>>

\* The bridge restarts: what it was doing is forgotten, but not what the
\* panel was.
BridgeRestarts ==
    /\ opened' = IF opened = "new" THEN opened ELSE "done"
    /\ acting' = [who \in Actor |-> IF acting[who].how \in {"closeOnPanel", "transfer"} THEN acting[who] ELSE Idle]
    /\ UNCHANGED <<ticketRowVars, room, informed, warned, changed>>

TicketsInit ==
    /\ status = "none" /\ claimant = Nobody
    /\ asked = NotAsked /\ silence = 0 /\ talked = 0
    /\ bound = FALSE /\ room = "none" /\ informed = FALSE
    /\ opened = "new"
    /\ acting = [who \in Actor |-> Idle]
    /\ warned = FALSE /\ changed = FALSE

TicketHow == {"claim", "release", "transfer", "ask", "close", "closeById", "closeOnPanel"}

ActsOnTicket(who) ==
    \/ \E how \in TicketHow : ReadTicket(who, how)
    \/ PatchClaim(who) \/ PatchRequest(who) \/ PatchClose(who) \/ PatchFails(who)
    \/ DeliverTranscript(who) \/ DisposeChannel(who)

TicketsNext ==
    \/ OpenRow \/ MakeChannel \/ NoChannel \/ BindChannel
    \/ \E who \in Actor : ActsOnTicket(who)
    \/ SweepWarns \/ SweepPassesOver \/ SweepDecides \/ SweepChecks \/ WarningForgotten
    \/ Message \/ TicketTick \/ BridgeRestarts

TicketsSpec == TicketsInit /\ [][TicketsNext]_ticketVars

----------------------------------------------------------------------------
(* Properties.                                                             *)

\* Every variable has its type.
TicketsTypeOK ==
    /\ status \in {"none", "OPEN", "CLOSED"}
    /\ claimant \in {{s} : s \in TicketStaff} \cup {Nobody}
    /\ asked \in {NotAsked} \cup 0..CloseAfter /\ silence \in 0..CloseAfter
    /\ talked \in 0..ResumeCount
    /\ bound \in BOOLEAN /\ informed \in BOOLEAN /\ warned \in BOOLEAN /\ changed \in BOOLEAN
    /\ room \in {"none", "open", "gone"}
    /\ opened \in {"new", "row", "made", "done"}
    /\ acting \in [Actor -> [at : {"idle", "check", "patch", "transcript", "dispose"},
                             how : TicketHow \cup {"none", "sweep"}, room : BOOLEAN]]

\* A channel is archived or deleted only when its ticket is closed and the
\* opener has been sent what was said in it, whoever closes it along with
\* whom, whatever fails, and whenever the bridge restarts
\* (tickets.ts:515: the transcript goes first, "because disposal may delete it").
GoneWasClosed == room = "gone" => status = "CLOSED" /\ informed

\* The sweep closes a ticket only after the silence it is set to, or on a
\* request nobody has talked over, unless somebody wrote, or asked, after it
\* had looked: closeTicket reads the row again, but not for that.
AutoCloseIsDue ==
    [][(status = "OPEN" /\ status' = "CLOSED" /\ acting[Janitor].at = "patch" /\ acting'[Janitor].at = "transcript")
          => \/ changed
             \/ silence >= CloseAfter
             \/ asked >= CloseAfter /\ talked < ResumeCount]_ticketVars
=============================================================================
