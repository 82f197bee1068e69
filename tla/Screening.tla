----------------------------- MODULE Screening -----------------------------
(***************************************************************************)
(* One applicant's join requests: the bridge that screens each one as it   *)
(* appears in guild chat (apps/bridge-bot/src/transport.ts, handleJoin),   *)
(* the staff who answer from buttons or commands                           *)
(* (packages/screening/src/queue.ts), and the rows they all write to       *)
(* (packages/screening/src/service.ts, packages/db repositories).          *)
(*                                                                         *)
(* Abstractions.  Requests are numbered in the order of requestedAt.  What *)
(* the third parties say is the verdict; ACCEPT stands for shouldAccept.   *)
(* Whether a command is taken (the queue has room, the bus a listener) is  *)
(* a choice, and so is what becomes of it then: the queue types it, or     *)
(* gives it up, and tells neither the bridge nor the staff which           *)
(* (sendGameCommand is given no hooks).  Reads and writes of rows are      *)
(* guarded: one that fails reads nothing, or writes nothing and says so.   *)
(***************************************************************************)
EXTENDS Integers, FiniteSets

CONSTANTS
    LastJoin,   \* join events in guild chat
    Press       \* staff answers

JoinEvent == 1..LastJoin

ASSUME ScreeningAssumption ==
    /\ LastJoin \in Nat
    /\ Press \cap JoinEvent = {}

VARIABLES
    requests,   \* the row of each join event: its outcome, or "none"
    decider,    \* who decided it: a join event's handler, a press, or neither
    elapsed,    \* the requests whose five minutes are over
    screens,    \* where the handler of each join event is
    presses,    \* where each press is
    handed,     \* who had which command taken by the queue, or the bus
    heard,      \* the commands of these that were typed
    unheard,    \* the commands of these that never will be
    before      \* the rows already decided when a press began

rowVars == <<requests, decider>>
commandVars == <<handed, heard, unheard>>
screeningVars == <<rowVars, elapsed, screens, presses, commandVars, before>>

Pending(e) == requests[e] = "PENDING"

Decided == {e \in JoinEvent : requests[e] \notin {"none", "PENDING"}}

\* decide: an unconditional update; on a row that was never made, nothing.
Decide(e, outcome, who) ==
    \/ UNCHANGED rowVars
    \/ /\ requests[e] # "none"
       /\ requests' = [requests EXCEPT ![e] = outcome]
       /\ decider' = [decider EXCEPT ![e] = who]

HandsOver(who, verb) ==
    /\ handed' = handed \cup {<<who, verb>>}
    /\ UNCHANGED <<heard, unheard>>

----------------------------------------------------------------------------
(* handleJoin, from guild chat to the staff notice.                        *)

NewScreen == [at |-> "new", verdict |-> "none"]

Screens(e, to) == screens' = [screens EXCEPT ![e].at = to]

\* The guild is unknown, or the name does not resolve.
NotScreened(e) ==
    /\ screens[e].at = "new"
    /\ Screens(e, "done")
    /\ UNCHANGED <<rowVars, elapsed, presses, commandVars, before>>

\* requestedAt is taken before the reading starts.
ScreenBegins(e) ==
    /\ screens[e].at = "new"
    /\ \A d \in 1..(e - 1) : screens[d].at # "new"
    /\ Screens(e, "screening")
    /\ UNCHANGED <<rowVars, elapsed, presses, commandVars, before>>

\* screen: judge, and record.  Those who are in already are screened too.
Screen(e) ==
    /\ screens[e].at = "screening"
    /\ \E ruling \in {"ACCEPT", "DENY", "REVIEW", "JOINED"} :
          screens' = [screens EXCEPT ![e] =
              [at |-> CASE ruling = "JOINED" -> "mark"
                        [] ruling = "REVIEW" -> "notify"
                        [] OTHER -> "answer",
               verdict |-> ruling]]
    /\ \/ requests' = [requests EXCEPT ![e] = "PENDING"]
       \/ UNCHANGED requests
    /\ UNCHANGED <<decider, elapsed, presses, commandVars, before>>

NextAfterAnswer(sent) == IF sent THEN "mark" ELSE "notify"

\* sendGameCommand takes the command, or refuses it: another guild's, or a
\* backlog that is full.
Answer(e) ==
    /\ screens[e].at = "answer"
    /\ \E sent \in BOOLEAN :
          /\ screens' = [screens EXCEPT ![e].at = NextAfterAnswer(sent)]
          /\ IF sent THEN HandsOver(e, screens[e].verdict) ELSE UNCHANGED commandVars
    /\ UNCHANGED <<rowVars, elapsed, presses, before>>

OutcomeOf(ruling) ==
    CASE ruling = "ACCEPT" -> "ACCEPTED"
      [] ruling = "DENY" -> "DENIED"
      [] OTHER -> ruling

Mark(e) ==
    /\ screens[e].at = "mark"
    /\ Decide(e, OutcomeOf(screens[e].verdict), {e})
    /\ Screens(e, "notify")
    /\ UNCHANGED <<elapsed, presses, commandVars, before>>

Notify(e) ==
    /\ screens[e].at = "notify"
    /\ Screens(e, "done")
    /\ UNCHANGED <<rowVars, elapsed, presses, commandVars, before>>

----------------------------------------------------------------------------
(* The staff: admit and deny.                                              *)

NewPress == [at |-> "new", verb |-> "none", row |-> 0]

PressGoes(p, to) == presses' = [presses EXCEPT ![p].at = to]

ActsWith(p, verb) == presses' = [presses EXCEPT ![p] = [at |-> "send", verb |-> verb, row |-> 0]]

Admit(p) ==
    /\ presses[p].at = "new"
    /\ before' = [before EXCEPT ![p] = Decided]
    /\ PressGoes(p, "look")
    /\ UNCHANGED <<rowVars, elapsed, screens, commandVars>>

DenyRequest(p) ==
    /\ presses[p].at = "new"
    /\ before' = [before EXCEPT ![p] = Decided]
    /\ ActsWith(p, "DENY")
    /\ UNCHANGED <<rowVars, elapsed, screens, commandVars>>

IsNewest(e, rows) == e \in rows /\ \A d \in rows : d <= e

\* The request has lapsed: by our clock, or by a row already retired.
Lapsed(e) == requests[e] = "EXPIRED" \/ (Pending(e) /\ e \in elapsed)

\* latestRequest finds nothing, fails, or finds one that can be accepted, or
\* was decided already: accept.
LookAndAccept(p) ==
    /\ presses[p].at = "look"
    /\ ActsWith(p, "ACCEPT")
    /\ UNCHANGED <<rowVars, elapsed, screens, commandVars, before>>

\* The newest has lapsed: it is retired, if that is still to do, and the
\* applicant is invited.
LookAndInvite(p) ==
    /\ presses[p].at = "look"
    /\ \E e \in JoinEvent :
          /\ IsNewest(e, {d \in JoinEvent : requests[d] # "none"})
          /\ Lapsed(e)
          /\ IF Pending(e)
             THEN presses' = [presses EXCEPT ![p] = [at |-> "retire", verb |-> "none", row |-> e]]
             ELSE ActsWith(p, "INVITE")
    /\ UNCHANGED <<rowVars, elapsed, screens, commandVars, before>>

Retire(p) ==
    /\ presses[p].at = "retire"
    /\ Decide(presses[p].row, "EXPIRED", {p})
    /\ ActsWith(p, "INVITE")
    /\ UNCHANGED <<elapsed, screens, commandVars, before>>

\* An invite answers no request, and a name that does not resolve has no row.
SendPress(p) ==
    /\ presses[p].at = "send"
    /\ HandsOver(p, presses[p].verb)
    /\ \/ presses[p].verb # "INVITE" /\ PressGoes(p, "find")
       \/ PressGoes(p, "done")
    /\ UNCHANGED <<rowVars, elapsed, screens, before>>

NotSent(p) ==
    /\ presses[p].at = "send"
    /\ PressGoes(p, "done")
    /\ UNCHANGED <<rowVars, elapsed, screens, commandVars, before>>

\* Slip: the applicant's newest row, whatever became of it.
AnswerableAny == {e \in JoinEvent : requests[e] # "none"}

Answerable == {e \in JoinEvent : Pending(e)}

\* findPending: the newest request without an answer.
FindPending(p) ==
    /\ presses[p].at = "find"
    /\ \/ \E e \in JoinEvent :
             /\ IsNewest(e, Answerable)
             /\ presses' = [presses EXCEPT ![p].at = "decide", ![p].row = e]
       \/ PressGoes(p, "done")
    /\ UNCHANGED <<rowVars, elapsed, screens, commandVars, before>>

DecidePress(p) ==
    /\ presses[p].at = "decide"
    /\ Decide(presses[p].row, OutcomeOf(presses[p].verb), {p})
    /\ presses' = [presses EXCEPT ![p] = [NewPress EXCEPT !.at = "done", !.verb = @]]
    /\ UNCHANGED <<elapsed, screens, commandVars, before>>

----------------------------------------------------------------------------

\* Five minutes have passed since the request.
WindowCloses(e) ==
    /\ screens[e].at # "new"
    /\ e \notin elapsed
    /\ 1..(e - 1) \subseteq elapsed
    /\ elapsed' = elapsed \cup {e}
    /\ UNCHANGED <<rowVars, screens, presses, commandVars, before>>

\* What was taken and is still to be typed.
Untyped == handed \ (heard \cup unheard)

\* The session is up and the command's turn has come.
TypedInGame(c) ==
    /\ c \in Untyped
    /\ heard' = heard \cup {c}
    /\ UNCHANGED <<rowVars, elapsed, screens, presses, handed, unheard, before>>

\* It is given up: five minutes old while no session came, or, sent over the
\* bus, refused by a full backlog, displaced, or gone with the bridge.  The
\* bridge's own is never younger than the request it answers.
GivenUpUntyped(c) ==
    /\ c \in Untyped
    /\ c[1] \in JoinEvent => c[1] \in elapsed
    /\ unheard' = unheard \cup {c}
    /\ UNCHANGED <<rowVars, elapsed, screens, presses, handed, heard, before>>

\* expireStale, whenever somebody opens the queue.
ExpireStale ==
    /\ \E e \in elapsed : Pending(e)
    /\ requests' = [e \in JoinEvent |-> IF e \in elapsed /\ Pending(e) THEN "EXPIRED" ELSE requests[e]]
    /\ decider' = [e \in JoinEvent |-> IF e \in elapsed /\ Pending(e) THEN {} ELSE decider[e]]
    /\ UNCHANGED <<elapsed, screens, presses, commandVars, before>>

ScreeningInit ==
    /\ requests = [e \in JoinEvent |-> "none"]
    /\ decider = [e \in JoinEvent |-> {}]
    /\ elapsed = {}
    /\ screens = [e \in JoinEvent |-> NewScreen]
    /\ presses = [p \in Press |-> NewPress]
    /\ handed = {} /\ heard = {} /\ unheard = {}
    /\ before = [p \in Press |-> {}]

HandleJoin(e) ==
    \/ NotScreened(e) \/ ScreenBegins(e) \/ Screen(e)
    \/ Answer(e) \/ Mark(e) \/ Notify(e)

StaffPress(p) ==
    \/ Admit(p) \/ DenyRequest(p) \/ LookAndAccept(p) \/ LookAndInvite(p) \/ Retire(p)
    \/ SendPress(p) \/ NotSent(p) \/ FindPending(p) \/ DecidePress(p)

ScreeningNext ==
    \/ \E e \in JoinEvent : HandleJoin(e) \/ WindowCloses(e)
    \/ \E p \in Press : StaffPress(p)
    \/ \E c \in Untyped : TypedInGame(c) \/ GivenUpUntyped(c)
    \/ ExpireStale

ScreeningSpec == ScreeningInit /\ [][ScreeningNext]_screeningVars

----------------------------------------------------------------------------
(* Properties.                                                             *)

Outcomes == {"PENDING", "ACCEPTED", "DENIED", "JOINED", "EXPIRED"}

\* Every variable has its type.
ScreeningTypeOK ==
    /\ requests \in [JoinEvent -> Outcomes \cup {"none"}]
    /\ decider \in [JoinEvent -> SUBSET (JoinEvent \cup Press)]
    /\ elapsed \subseteq JoinEvent
    /\ screens \in [JoinEvent ->
          [at : {"new", "screening", "answer", "mark", "notify", "done"},
           verdict : {"none", "ACCEPT", "DENY", "REVIEW", "JOINED"}]]
    /\ presses \in [Press ->
          [at : {"new", "look", "retire", "send", "find", "decide", "done"},
           verb : {"none", "ACCEPT", "DENY", "INVITE"}, row : JoinEvent \cup {0}]]
    /\ handed \subseteq (JoinEvent \cup Press) \X {"ACCEPT", "DENY", "INVITE"}
    /\ heard \subseteq handed
    /\ unheard \subseteq handed \ heard
    /\ before \in [Press -> SUBSET JoinEvent]

\* A request that had its answer, or had expired, when staff pressed a button
\* is not given another outcome by that press: the press marks a request that
\* still waits, or none.  (Two presses that both find it waiting do overwrite
\* each other: decide does not look at what it replaces.)
SettledIsKept ==
    [][\A p \in Press : \A e \in before[p] :
          decider'[e] = {p} => decider[e] = {p}]_screeningVars

----------------------------------------------------------------------------
(* What the comments say, and the code does not do.                        *)

\* The record does not say accepted, or denied, about somebody Hypixel will
\* never hear it about from whoever the record names (transport.ts:2099-2105:
\* a record that "said 'accepted' about somebody Hypixel had never heard us
\* accept" is what the queue is there to prevent).
OutcomeIsHeard ==
    \A e \in JoinEvent : \A who \in decider[e] :
        /\ requests[e] = "ACCEPTED" => <<who, "ACCEPT">> \notin unheard
        /\ requests[e] = "DENIED" => <<who, "DENY">> \notin unheard
=============================================================================
