---------------------------- MODULE Enforcement ----------------------------
(***************************************************************************)
(* Moderation cases against one member of one guild, as                    *)
(* ModerationServiceImpl carries them out: the audit rows in Postgres, the *)
(* Redis mirror, what Discord holds against the member, and the tasks      *)
(* (staff commands, panel requests, the punishment sweep) that are between *)
(* two awaits.  Every await of the service is a step boundary.             *)
(*                                                                         *)
(* Abstractions.  One member.  A row's expiresAt is a clock that is        *)
(* "none", "running" or "out"; "a grace period has gone by since the last  *)
(* attempt" is the flag quiet.  What guild chat answers is one of four     *)
(* receipts.  WARN and NOTE, which enforce nothing, are left out (with the *)
(* escalation ladder a WARN triggers), and so are log lines, metrics, the  *)
(* role-dirty hint and the mod-log cards.                                  *)
(***************************************************************************)
EXTENDS Integers, Sequences, FiniteSets, FiniteSetsExt

CONSTANTS
    Staff,          \* tasks of the admin bot, the web panel and the bridge
    Sweeper,        \* the task that runs the punishment sweep
    StaffTypes,     \* the action types staff issue
    StaffClocks,    \* whether what staff issue expires
    DiscordAnswers, \* what the Discord API may answer
    GuildAnswers,   \* the receipts guild chat may give
    Requests,       \* what the panel may do to an issued case
    SweepLimit,     \* rows one sweep reads (50 in the code)
    MaxAttempts,    \* MAX_ENFORCEMENT_ATTEMPTS
    MaxIssued,      \* bound: staff issue while the log has fewer rows
    MaxCases,       \* bound: rows in the log, reversals included
    MaxAsked,       \* bound: the panel retries a case asked fewer times
    MaxFaults       \* bound: crashes and failed store writes

Holding == {"BAN", "MUTE"}
Lifting == {"UNBAN", "UNMUTE"}
ModActionType == Holding \cup Lifting \cup {"KICK"}
EnforcementStatus == {"PENDING", "CONFIRMED", "FAILED", "NOT_REQUIRED"}
Clock == {"none", "running", "out"}
CaseId == 1..MaxCases

ASSUME EnforcementAssumption ==
    /\ Sweeper \notin Staff
    /\ StaffTypes \subseteq ModActionType
    /\ StaffClocks \subseteq {"none", "running"}
    /\ DiscordAnswers \subseteq {"ok", "refused", "lost"}
    /\ GuildAnswers \subseteq {"confirmed", "refused", "pending", "skipped"}
    /\ Requests \subseteq {"retry", "void", "edit", "hand", "adopt"}
    /\ SweepLimit \in Nat \ {0}
    /\ MaxAttempts \in Nat \ {0}
    /\ MaxIssued \in Nat
    /\ MaxCases \in Nat \ {0}
    /\ MaxAsked \in Nat
    /\ MaxFaults \in Nat

REVERSALS == [BAN |-> "UNBAN", MUTE |-> "UNMUTE"]
Undoes == [UNBAN |-> "BAN", UNMUTE |-> "MUTE"]

VARIABLES
    cases,     \* the moderation_action table, in order of creation
    discord,   \* for BAN and MUTE, the case whose call put it there, or 0
    present,   \* whether the member is in the Discord server
    mirror,    \* for BAN and MUTE, the case whose key is in Redis, or 0
    task,      \* what every task is doing
    raised,    \* FAILED cases staff were told of, or marked FAILED themselves
    grounds,   \* cases with grounds for CONFIRMED: both surfaces, or a person
    asked,     \* per case, attempts that got past both surfaces
    effort,    \* per case, attempts the sweep began
    lifted,    \* cases the expiry sweep wrote a reversal for
    edited,    \* cases whose duration was changed after they were issued
    later,     \* cases that expire after the now of the reversing sweep
    faults     \* crashes and failed writes so far

vars == <<cases, discord, present, mirror, task, raised, grounds, asked,
          effort, lifted, edited, later, faults>>

Task == Staff \cup {Sweeper}

Idle == [op |-> "none", pc |-> "idle", case |-> 0, subject |-> 0, base |-> 0,
         d |-> "none", g |-> "none", todo |-> {}]

----------------------------------------------------------------------------
(* The rows.                                                               *)

Cases == 1..Len(cases)

holdsEnforcement(type) == type \in Holding
isActiveState(type) == type \notin Lifting

\* Slip: a punishment without an expiry is not seen to be in force.
isInForceTimed(row) ==
    /\ ~row.voided
    /\ holdsEnforcement(row.type)
    /\ row.clock = "running"
    /\ row.active

\* isInForce(action, now): ACTIVE in punishmentState's order of tests.
isInForce(row) ==
    /\ ~row.voided
    /\ holdsEnforcement(row.type)
    /\ row.clock # "out"
    /\ row.active

NewRow(type, clock) ==
    [type |-> type, clock |-> clock, active |-> isActiveState(type),
     enforcement |-> "PENDING", attempts |-> 0, voided |-> FALSE,
     quiet |-> FALSE]

createAction(type, clock) ==
    /\ Len(cases) < MaxCases
    /\ cases' = Append(cases, NewRow(type, clock))

NextId == Len(cases) + 1

\* Slip: rows that used up their attempts are filtered out of the list.
listStaleRetryable ==
    LET stale == {c \in Cases : cases[c].enforcement = "PENDING" /\ cases[c].quiet
                                /\ cases[c].attempts < MaxAttempts}
    IN  {c \in stale : Cardinality({b \in stale : b < c}) < SweepLimit}

\* listStalePending: PENDING and unanswered for a grace period, oldest first.
listStalePending ==
    LET stale == {c \in Cases : cases[c].enforcement = "PENDING" /\ cases[c].quiet}
    IN  {c \in stale : Cardinality({b \in stale : b < c}) < SweepLimit}

\* The rows deactivateExpired clears and listExpiredActive reads a page of.
ExpiredActive ==
    {c \in Cases : cases[c].active /\ holdsEnforcement(cases[c].type)
                   /\ cases[c].clock = "out"}

----------------------------------------------------------------------------
(* Requests: what staff and the panel ask for.                             *)

\* Slip: the attempt is counted on reading the row and again on stamping it.
EnforcingOneAhead(k, op, c, base) ==
    [k EXCEPT !.op = op, !.pc = "mirror", !.case = c, !.base = base + 1,
              !.d = "none", !.g = "none"]

\* Enforcement of case c begins on task t; base is the attempt count on the
\* row as it was read, which later writers of the row do not change.
Enforcing(k, op, c, base) ==
    [k EXCEPT !.op = op, !.pc = "mirror", !.case = c, !.base = base,
              !.d = "none", !.g = "none"]

applyAction(t, type, clock) ==
    /\ task[t].pc = "idle"
    /\ Len(cases) < MaxIssued
    /\ type = "MUTE" => clock = "running"
    /\ ~holdsEnforcement(type) => clock = "none"
    /\ createAction(type, clock)
    /\ task' = [task EXCEPT ![t] = Enforcing(Idle, "apply", NextId, 0)]
    /\ UNCHANGED <<discord, present, mirror, raised, grounds, asked, effort,
                   lifted, edited, later, faults>>

\* A ban, unban or kick done in Discord's own interface, and the case the
\* observer opens for it: the Discord leg is already carried out.
recordDiscordAction(t, type) ==
    /\ task[t].pc = "idle"
    /\ Len(cases) < MaxIssued
    /\ type \in {"BAN", "UNBAN", "KICK"}
    /\ type = "UNBAN" <=> discord["BAN"] # 0
    /\ type = "KICK" => present
    /\ createAction(type, "none")
    /\ discord' = [discord EXCEPT !["BAN"] =
                      CASE type = "BAN" -> NextId [] type = "UNBAN" -> 0
                        [] OTHER -> @]
    /\ present' = (present /\ type = "UNBAN")
    /\ task' = [task EXCEPT ![t] = Enforcing(Idle, "adopt", NextId, 0)]
    /\ UNCHANGED <<mirror, raised, grounds, asked, effort, lifted, edited,
                   later, faults>>

retryEnforcement(t, c) ==
    /\ "retry" \in Requests
    /\ task[t].pc = "idle"
    /\ asked[c] < MaxAsked
    /\ task' = [task EXCEPT ![t] =
                   Enforcing(Idle, "retry", c, cases[c].attempts)]
    /\ UNCHANGED <<cases, discord, present, mirror, raised, grounds, asked,
                   effort, lifted, edited, later, faults>>

\* voidAction up to its first write: the row is read, and what it still
\* holds decides whether a reversal comes first.
voidAction(t, c) ==
    /\ "void" \in Requests
    /\ task[t].pc = "idle"
    /\ ~cases[c].voided
    /\ task' = [task EXCEPT ![t] =
                   [Idle EXCEPT !.op = "void", !.subject = c,
                                !.pc = IF isInForce(cases[c]) THEN "lift" ELSE "mark"]]
    /\ UNCHANGED <<cases, discord, present, mirror, raised, grounds, asked,
                   effort, lifted, edited, later, faults>>

\* The sweep is between its now and the clearing.
Reversing == task[Sweeper].op = "reverse"

\* updateAction with a duration: expiresAt counts from createdAt, so the new
\* clock may already be out, even by the now of a sweep that is reversing; the
\* mirror is written next.
updateAction(t, c, clock) ==
    /\ "edit" \in Requests
    /\ task[t].pc = "idle"
    /\ holdsEnforcement(cases[c].type)
    /\ cases' = [cases EXCEPT ![c].clock = clock]
    /\ edited' = edited \cup {c}
    /\ \/ later' = later \ {c}
       \/ clock = "out" /\ Reversing /\ later' = later \cup {c}
    /\ task' = [task EXCEPT ![t] =
                   [Idle EXCEPT !.op = "edit", !.subject = c, !.pc = "remirror"]]
    /\ UNCHANGED <<discord, present, mirror, raised, grounds, asked, effort,
                   lifted, faults>>

setEnforcementManually(c, status) ==
    /\ "hand" \in Requests
    /\ cases' = [cases EXCEPT ![c].enforcement = status]
    /\ grounds' = grounds \cup {c}
    /\ raised' = IF status = "FAILED" THEN raised \cup {c} ELSE raised \ {c}
    /\ UNCHANGED <<discord, present, mirror, task, asked, effort, lifted,
                   edited, later, faults>>

----------------------------------------------------------------------------
(* enforce: mirror, Discord, guild chat, stamp, alert.                     *)

\* RedisEnforcementMirror.apply for a row of this type.
Mirrored(type, c) ==
    CASE type \in Holding -> [mirror EXCEPT ![type] = c]
      [] type \in Lifting -> [mirror EXCEPT ![Undoes[type]] = 0]
      [] OTHER            -> mirror

\* A store write lands, or throws and is caught and logged.
LandsOrNot(landed, missed) ==
    \/ landed /\ UNCHANGED faults
    \/ faults < MaxFaults /\ missed /\ faults' = faults + 1

\* An adopted case skips the Discord leg.
Mirror(t) ==
    LET c == task[t].case IN
    /\ task[t].pc = "mirror"
    /\ LandsOrNot(mirror' = Mirrored(cases[c].type, c), UNCHANGED mirror)
    /\ task' = [task EXCEPT ![t].pc = IF task[t].op = "adopt" THEN "game" ELSE "discord",
                            ![t].d = IF task[t].op = "adopt" THEN "ok" ELSE "none"]
    /\ UNCHANGED <<cases, discord, present, raised, grounds, asked, effort,
                   lifted, edited, later>>

\* What the call changes on Discord when Discord carries it out.
DiscordDoes(type, c) ==
    /\ discord' = CASE type \in Holding -> [discord EXCEPT ![type] = c]
                    [] type \in Lifting -> [discord EXCEPT ![Undoes[type]] = 0]
                    [] OTHER            -> discord
    /\ present' = (present /\ type \notin {"BAN", "KICK"})

\* A kick and a timeout need the member; lifting what is not there succeeds.
DiscordCan(type) == type \in {"KICK", "MUTE"} => present

\* discordLeg: "lost" is a call that landed and whose answer did not.
Discord(t) ==
    LET c == task[t].case
        type == cases[c].type IN
    /\ task[t].pc = "discord"
    /\ \/ /\ DiscordCan(type)
          /\ \E answer \in DiscordAnswers \cap {"ok", "lost"} :
                /\ DiscordDoes(type, c)
                /\ task' = [task EXCEPT ![t].pc = "game",
                                ![t].d = IF answer = "ok" THEN "ok" ELSE "failed"]
       \/ /\ ~DiscordCan(type) \/ "refused" \in DiscordAnswers
          /\ task' = [task EXCEPT ![t].pc = "game", ![t].d = "failed"]
          /\ UNCHANGED <<discord, present>>
    /\ UNCHANGED <<cases, mirror, raised, grounds, asked, effort, lifted,
                   edited, later, faults>>

\* gameLeg: the receipt, read three ways.
Game(t) ==
    LET c == task[t].case IN
    /\ task[t].pc = "game"
    /\ \E receipt \in GuildAnswers :
          /\ task' = [task EXCEPT ![t].pc = "stamp", ![t].g = receipt]
          /\ grounds' = IF task[t].d = "ok" /\ receipt \in {"confirmed", "skipped"}
                        THEN grounds \cup {c} ELSE grounds
    /\ asked' = [asked EXCEPT ![c] = @ + 1]
    /\ UNCHANGED <<cases, discord, present, mirror, raised, effort, lifted,
                   edited, later, faults>>

\* Slip: one surface saying yes is enough.
VerdictEither(d, g) ==
    CASE d = "failed" /\ g = "refused" -> "FAILED"
      [] g = "pending"                 -> "PENDING"
      [] OTHER                         -> "CONFIRMED"

\* What the two answers make of the case.
Verdict(d, g) ==
    CASE d = "failed" \/ g = "refused" -> "FAILED"
      [] g = "pending"                 -> "PENDING"
      [] OTHER                         -> "CONFIRMED"

\* Where a task goes when its enforcement is over.
Resume(k) ==
    CASE k.op = "void" -> [k EXCEPT !.pc = "mark"]
      [] k.op \in {"settle", "reverse"} ->
            [k EXCEPT !.pc = "next", !.case = 0, !.base = 0, !.d = "none", !.g = "none"]
      [] OTHER -> Idle

\* Slip: only the first attempt tells staff.
AfterStampOnce(k, status) ==
    IF status = "FAILED" /\ k.op = "apply" THEN [k EXCEPT !.pc = "alert"] ELSE Resume(k)

\* A failed attempt alerts staff, whoever made it.
AfterStamp(k, status) ==
    IF status = "FAILED" THEN [k EXCEPT !.pc = "alert"] ELSE Resume(k)

\* setEnforcement(id, status, detail, attempt): the attempt number comes from
\* the row as the task read it.
Stamp(t) ==
    LET k == task[t]
        status == Verdict(k.d, k.g) IN
    /\ k.pc = "stamp"
    /\ LandsOrNot(/\ cases' = [cases EXCEPT ![k.case] =
                                [@ EXCEPT !.enforcement = status,
                                          !.attempts = k.base + 1,
                                          !.quiet = FALSE]]
                  /\ raised' = raised \ {k.case},
                  UNCHANGED <<cases, raised>>)
    /\ task' = [task EXCEPT ![t] = AfterStamp(k, status)]
    /\ UNCHANGED <<discord, present, mirror, grounds, asked, effort, lifted,
                   edited, later>>

alertStaff(t) ==
    /\ task[t].pc = "alert"
    /\ raised' = raised \cup {task[t].case}
    /\ task' = [task EXCEPT ![t] = Resume(task[t])]
    /\ UNCHANGED <<cases, discord, present, mirror, grounds, asked, effort,
                   lifted, edited, later, faults>>

----------------------------------------------------------------------------
(* voidAction after its read, and the mirror write of an edit.             *)

\* The compensating UNBAN or UNMUTE, a case of its own.
VoidLift(t) ==
    LET c == task[t].subject IN
    /\ task[t].pc = "lift"
    /\ createAction(REVERSALS[cases[c].type], "none")
    /\ task' = [task EXCEPT ![t] = Enforcing(task[t], "void", NextId, 0)]
    /\ UNCHANGED <<discord, present, mirror, raised, grounds, asked, effort,
                   lifted, edited, later, faults>>

Withdrawn(row) == [row EXCEPT !.voided = TRUE, !.active = FALSE]

VoidMark(t) ==
    /\ task[t].pc = "mark"
    /\ cases' = [cases EXCEPT ![task[t].subject] = Withdrawn(@)]
    /\ task' = [task EXCEPT ![t].pc = "remirror"]
    /\ UNCHANGED <<discord, present, mirror, raised, grounds, asked, effort,
                   lifted, edited, later, faults>>

\* mirror(updated): the updated row keeps its type.
Remirror(t) ==
    LET c == task[t].subject IN
    /\ task[t].pc = "remirror"
    /\ LandsOrNot(mirror' = Mirrored(cases[c].type, c), UNCHANGED mirror)
    /\ task' = [task EXCEPT ![t] = Idle]
    /\ UNCHANGED <<cases, discord, present, raised, grounds, asked, effort,
                   lifted, edited, later>>

----------------------------------------------------------------------------
(* sweepPunishments: settleStalePending, then reverseExpired.              *)

Page(ids) == {[id |-> c, attempts |-> cases[c].attempts] : c \in ids}

\* Slips: one attempt too many, one too few.
outOfAttemptsLate(row) == row.attempts > MaxAttempts
outOfAttemptsEarly(row) == row.attempts + 1 >= MaxAttempts

outOfAttempts(row) == row.attempts >= MaxAttempts

settleStalePending ==
    /\ task[Sweeper].pc = "idle"
    /\ listStalePending \cup ExpiredActive # {}
    /\ task' = [task EXCEPT ![Sweeper] =
                   [Idle EXCEPT !.op = "settle", !.pc = "next",
                                !.todo = Page(listStalePending)]]
    /\ UNCHANGED <<cases, discord, present, mirror, raised, grounds, asked,
                   effort, lifted, edited, later, faults>>

\* One row of the page: retried while it has attempts left, else called failed.
SettleNext ==
    LET k == task[Sweeper] IN
    /\ k.op = "settle" /\ k.pc = "next"
    /\ \E row \in k.todo :
          LET rest == [k EXCEPT !.todo = @ \ {row}] IN
          /\ \A other \in k.todo : row.id <= other.id
          /\ \/ /\ ~outOfAttempts(row)
                /\ task' = [task EXCEPT ![Sweeper] =
                               Enforcing(rest, "settle", row.id, row.attempts)]
                /\ effort' = [effort EXCEPT ![row.id] = @ + 1]
                /\ UNCHANGED <<cases, raised, faults>>
             \/ /\ outOfAttempts(row)
                /\ LandsOrNot(/\ cases' = [cases EXCEPT ![row.id].enforcement = "FAILED"]
                              /\ raised' = raised \ {row.id},
                              UNCHANGED <<cases, raised>>)
                /\ task' = [task EXCEPT ![Sweeper] =
                               [rest EXCEPT !.pc = "alert", !.case = row.id]]
                /\ UNCHANGED effort
    /\ UNCHANGED <<discord, present, mirror, grounds, asked, lifted, edited,
                   later>>

\* reverseExpired begins: it takes its now, and a page of the rows whose clock
\* had run out by then.
reverseExpired ==
    /\ task[Sweeper].op = "settle" /\ task[Sweeper].pc = "next"
    /\ task[Sweeper].todo = {}
    /\ \E page \in kSubset(Min({SweepLimit, Cardinality(ExpiredActive)}), ExpiredActive) :
          task' = [task EXCEPT ![Sweeper] =
                      [Idle EXCEPT !.op = "reverse", !.pc = "next",
                                   !.todo = Page(page)]]
    /\ later' = {}
    /\ UNCHANGED <<cases, discord, present, mirror, raised, grounds, asked,
                   effort, lifted, edited, faults>>

\* applyAction(UNBAN or UNMUTE) by EXPIRY_ACTOR for one row of the page.  Rows
\* without a Discord id are skipped, but no row of the page is without one: a BAN
\* or MUTE that is active was opened by applyAction with the member's id
\* (recordExternalAction, whose target may be null, writes active FALSE).
ReverseNext ==
    LET k == task[Sweeper] IN
    /\ k.op = "reverse" /\ k.pc = "next"
    /\ \E row \in k.todo :
          /\ createAction(REVERSALS[cases[row.id].type], "none")
          /\ task' = [task EXCEPT ![Sweeper] =
                         Enforcing([k EXCEPT !.todo = @ \ {row}], "reverse", NextId, 0)]
          /\ lifted' = lifted \cup {row.id}
    /\ UNCHANGED <<discord, present, mirror, raised, grounds, asked, effort,
                   edited, later, faults>>

\* Slips: what expired since is cleared too; what failed is left.
OverdueNow(since) == ExpiredActive
OverdueConfirmed(since) ==
    {c \in ExpiredActive \ since : cases[c].enforcement = "CONFIRMED"}

\* deactivateExpired's rows: those whose expiresAt, as it stands when they are
\* cleared, is not after the now the sweep began with.
Overdue(since) == ExpiredActive \ since

deactivateExpired ==
    LET k == task[Sweeper] IN
    /\ k.op = "reverse" /\ k.pc = "next" /\ k.todo = {}
    /\ cases' = [c \in Cases |->
                    IF c \in Overdue(later)
                    THEN [cases[c] EXCEPT !.active = FALSE] ELSE cases[c]]
    /\ task' = [task EXCEPT ![Sweeper] = Idle]
    /\ later' = {}
    /\ UNCHANGED <<discord, present, mirror, raised, grounds, asked, effort,
                   lifted, edited, faults>>

----------------------------------------------------------------------------
(* The environment.                                                        *)

ClockRunsOut(c) ==
    /\ cases[c].clock = "running"
    /\ cases' = [cases EXCEPT ![c].clock = "out"]
    /\ later' = IF Reversing THEN later \cup {c} ELSE later
    /\ UNCHANGED <<discord, present, mirror, task, raised, grounds, asked,
                   effort, lifted, edited, faults>>

InFlight(c) ==
    \E t \in Task : task[t].case = c /\ task[t].pc \in {"mirror", "discord", "game", "stamp"}

\* STALE_GRACE_MS goes by.  It is sixty times the longest wait inside an
\* attempt, so no attempt on the case is still in flight by then.
GraceElapses(c) ==
    /\ cases[c].enforcement = "PENDING"
    /\ ~cases[c].quiet
    /\ ~InFlight(c)
    /\ cases' = [cases EXCEPT ![c].quiet = TRUE]
    /\ UNCHANGED <<discord, present, mirror, task, raised, grounds, asked,
                   effort, lifted, edited, later, faults>>

\* The TTL on a mirror key counts from when it was set, never before the row.
\* (A key an edit failed to rewrite, which keeps its old TTL, is not told apart.)
MirrorLapses(h) ==
    /\ mirror[h] # 0
    /\ cases[mirror[h]].clock = "out"
    /\ mirror' = [mirror EXCEPT ![h] = 0]
    /\ UNCHANGED <<cases, discord, present, task, raised, grounds, asked,
                   effort, lifted, edited, later, faults>>

\* Discord ends a timeout by itself, at the latest after MAX_TIMEOUT_MS and
\* without asking what became of the case's clock; it never ends a ban.
TimeoutLapses ==
    /\ discord["MUTE"] # 0
    /\ discord' = [discord EXCEPT !["MUTE"] = 0]
    /\ UNCHANGED <<cases, present, mirror, task, raised, grounds, asked, effort,
                   lifted, edited, later, faults>>

Rejoin ==
    /\ ~present
    /\ discord["BAN"] = 0
    /\ present' = TRUE
    /\ UNCHANGED <<cases, discord, mirror, task, raised, grounds, asked, effort,
                   lifted, edited, later, faults>>

\* The process a task runs in dies.
Crash(t) ==
    /\ task[t].pc # "idle"
    /\ faults < MaxFaults
    /\ faults' = faults + 1
    /\ task' = [task EXCEPT ![t] = Idle]
    /\ UNCHANGED <<cases, discord, present, mirror, raised, grounds, asked,
                   effort, lifted, edited, later>>

----------------------------------------------------------------------------

Init ==
    /\ cases = <<>>
    /\ discord = [h \in Holding |-> 0]
    /\ present = TRUE
    /\ mirror = [h \in Holding |-> 0]
    /\ task = [t \in Task |-> Idle]
    /\ raised = {}
    /\ grounds = {}
    /\ asked = [c \in CaseId |-> 0]
    /\ effort = [c \in CaseId |-> 0]
    /\ lifted = {}
    /\ edited = {}
    /\ later = {}
    /\ faults = 0

Request(t) ==
    \/ \E type \in StaffTypes, clock \in StaffClocks : applyAction(t, type, clock)
    \/ \E type \in StaffTypes : "adopt" \in Requests /\ recordDiscordAction(t, type)
    \/ \E c \in Cases :
          \/ retryEnforcement(t, c)
          \/ voidAction(t, c)
          \/ \E clock \in Clock : updateAction(t, c, clock)

EnforceStep(t) == Mirror(t) \/ Discord(t) \/ Game(t) \/ Stamp(t) \/ alertStaff(t)

VoidStep(t) == VoidLift(t) \/ VoidMark(t) \/ Remirror(t)

SweepStep ==
    \/ settleStalePending
    \/ SettleNext
    \/ reverseExpired
    \/ ReverseNext
    \/ deactivateExpired

Environment ==
    \/ \E c \in Cases : ClockRunsOut(c) \/ GraceElapses(c)
    \/ \E h \in Holding : MirrorLapses(h)
    \/ TimeoutLapses
    \/ Rejoin

Next ==
    \/ \E t \in Staff : Request(t)
    \/ \E c \in Cases, status \in EnforcementStatus \ {"PENDING"} :
          setEnforcementManually(c, status)
    \/ \E t \in Task : EnforceStep(t)
    \/ \E t \in Staff : VoidStep(t)
    \/ SweepStep
    \/ Environment
    \/ \E t \in Task : Crash(t)

Spec == Init /\ [][Next]_vars

\* A started call goes on, the five-minute timer keeps sweeping, and time
\* passes.  Nothing obliges staff to act, a member to rejoin or a process to
\* die.
Fairness ==
    /\ \A t \in Task : WF_vars(EnforceStep(t))
    /\ \A t \in Staff : WF_vars(VoidStep(t))
    /\ WF_vars(SweepStep)
    /\ \A c \in CaseId : WF_vars(c \in Cases /\ GraceElapses(c))

FairSpec == Spec /\ Fairness

----------------------------------------------------------------------------
(* Properties.                                                             *)

Row == [type : ModActionType, clock : Clock, active : BOOLEAN,
        enforcement : EnforcementStatus, attempts : Nat, voided : BOOLEAN,
        quiet : BOOLEAN]

TaskOps == {"none", "apply", "adopt", "retry", "void", "edit", "settle", "reverse"}

TaskState ==
    [op : TaskOps,
     pc : {"idle", "mirror", "discord", "game", "stamp", "alert", "lift",
           "mark", "remirror", "next"},
     case : Nat, subject : Nat, base : Nat,
     d : {"none", "ok", "failed"},
     g : {"none", "confirmed", "refused", "pending", "skipped"},
     todo : SUBSET [id : Nat, attempts : Nat]]

\* Every variable has its type, and every case id in use names a row.
TypeOK ==
    /\ cases \in Seq(Row) /\ Len(cases) <= MaxCases
    /\ discord \in [Holding -> {0} \cup Cases]
    /\ present \in BOOLEAN
    /\ mirror \in [Holding -> {0} \cup Cases]
    /\ task \in [Task -> TaskState]
    /\ raised \subseteq Cases
    /\ grounds \subseteq Cases
    /\ asked \in [CaseId -> Nat]
    /\ effort \in [CaseId -> Nat]
    /\ lifted \subseteq Cases
    /\ edited \subseteq Cases
    /\ later \subseteq Cases
    /\ faults \in 0..MaxFaults

\* A case reads CONFIRMED only if one attempt had both Discord and guild chat
\* answer yes (or nothing to say), or a person vouched for it, whatever other
\* attempts on the row were racing it.
ConfirmedHasGrounds ==
    \A c \in Cases : cases[c].enforcement = "CONFIRMED" => c \in grounds

\* The attempts counted on a row were all made: lost updates between a sweep
\* and a panel retry may undercount them and never invent one.
AttemptsAreReal ==
    \A c \in Cases : cases[c].attempts <= asked[c]

\* A case's own first attempt counts, so the sweep adds MaxAttempts - 1 tries
\* and no more; each crash or lost write, which forgets an attempt, buys at
\* most one further try, whatever panel retries race the sweep.
SweepEffortIsBounded ==
    \A c \in Cases : effort[c] <= MaxAttempts - 1 + faults

\* With no fault, a case that reads FAILED has been put in front of staff, or
\* the task that failed it is about to: the verdict of a retry is announced
\* as the first one was.
FailureIsRaised ==
    \A c \in Cases :
        cases[c].enforcement = "FAILED" /\ faults = 0 =>
            \/ c \in raised
            \/ \E t \in Task : task[t].pc = "alert" /\ task[t].case = c

\* The flag of c was cleared because its time was up.
Lapsed(c) ==
    holdsEnforcement(cases[c].type) /\ ~cases[c].active /\ ~cases[c].voided

\* A ban or mute whose duration nobody changed loses its flag to the sweep only
\* after its reversal was written, whatever runs out while the sweep reverses.
\* (With edits, or more of them than a page, it may not: see the last section.)
UneditedWasReversed ==
    \A c \in Cases : Lapsed(c) /\ c \notin edited => c \in lifted

\* The reversal of c came after it, as a case of its own, and was put to both
\* surfaces.
Reversed(c) ==
    \E u \in Cases : /\ u > c
                     /\ cases[u].type = REVERSALS[cases[c].type]
                     /\ asked[u] > 0

\* voidAction's compensating action comes first: a ban or mute that is void
\* before its time, and whose duration nobody changed, has a reversal that was
\* put to both surfaces, whichever void, sweep, attempt or death raced this one.
VoidedWasReversed ==
    \A c \in Cases :
        /\ cases[c].voided /\ holdsEnforcement(cases[c].type)
        /\ cases[c].clock # "out" /\ c \notin edited
        => Reversed(c)

\* settleStalePending calls a case failed only after MaxAttempts attempts
\* really got past both surfaces.
CondemnedWasTried ==
    [][\A c \in Cases :
          task[Sweeper].pc = "next" /\ task'[Sweeper].pc = "alert"
          /\ task'[Sweeper].case = c => asked[c] >= MaxAttempts]_vars

\* An unanswered case does not stay unanswered: the sweep settles it.
PendingIsSettled ==
    \A c \in CaseId :
        (c \in Cases /\ cases[c].enforcement = "PENDING")
            ~> (c \in Cases /\ cases[c].enforcement # "PENDING")

\* A ban or mute whose clock has run out leaves the active list.
ExpiredIsCleared ==
    \A c \in CaseId : (c \in ExpiredActive) ~> (c \notin ExpiredActive)

----------------------------------------------------------------------------
(* The strengthening under which the invariants are inductive.             *)

Enforced == {"mirror", "discord", "game", "stamp", "alert"}

\* What a task refers to is in the log, and is of a kind it can act on.
Refers(k, log) ==
    /\ k.pc \in Enforced => k.case \in 1..Len(log)
    /\ k.pc \in {"lift", "mark", "remirror"} => k.subject \in 1..Len(log)
    /\ k.op = "void" => k.subject \in 1..Len(log)
    /\ k.pc = "lift" => holdsEnforcement(log[k.subject].type)
    /\ \A row \in k.todo :
          /\ row.id \in 1..Len(log)
          /\ k.op = "reverse" => holdsEnforcement(log[row.id].type)

TaskInv == \A t \in Task : Refers(task[t], cases)

\* A count a task carries was true when it was read, and attempts only grow;
\* past guild chat the attempt under way is one of those asked.
Counts(k, tried) ==
    /\ k.pc \in {"mirror", "discord", "game"} => k.base <= tried[k.case]
    /\ k.pc = "stamp" => k.base < tried[k.case]
    /\ \A row \in k.todo : row.attempts <= tried[row.id]

CountsInv == AttemptsAreReal /\ \A t \in Task : Counts(task[t], asked)

\* The grounds are in before the verdict that rests on them is stamped.
Grounded(k, known) ==
    /\ k.pc \in {"game", "stamp"} => k.d \in {"ok", "failed"}
    /\ k.pc = "stamp" /\ Verdict(k.d, k.g) = "CONFIRMED" => k.case \in known

GroundsInv == ConfirmedHasGrounds /\ \A t \in Task : Grounded(task[t], grounds)

IInv == TypeOK /\ TaskInv /\ CountsInv /\ GroundsInv

----------------------------------------------------------------------------
(* What the comments and docs say of this code, and it does not do.  Each  *)
(* is the property of a run that TLC must find violated.                   *)

Quiescent == \A t \in Task : task[t].pc = "idle"

\* docs/MODERATION_AUDIT_LOG.md, Part 5 on voidAction: no log reading
\* "withdrawn" about somebody still banned.
VoidedIsLifted ==
    Quiescent => \A c \in Cases, h \in Holding :
                    cases[c].voided => discord[h] # c

\* service.ts on reverseExpired: punishments whose clock has run out are lifted
\* on Discord and in guild chat, not merely in the database.
ClearedWasReversed ==
    \A c \in Cases : Lapsed(c) => c \in lifted
=============================================================================
