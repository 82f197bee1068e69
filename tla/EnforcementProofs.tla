-------------------------- MODULE EnforcementProofs --------------------------
(***************************************************************************)
(* Proofs about Enforcement, for every number of staff tasks, every page   *)
(* size, every attempt limit and every bound.  IInv is inductive; from it  *)
(* follow the type invariant, that every counted attempt was made, that a  *)
(* CONFIRMED case has its grounds, and that the sweep condemns no case it  *)
(* did not try.  The bound on what the sweep tries, the raising of         *)
(* failures, and the reversal of what is void or cleared have inductive    *)
(* invariants of their own, at the end.                                    *)
(***************************************************************************)
EXTENDS Enforcement, SequenceTheorems, FiniteSetTheorems, TLAPS

USE DEF Task

----------------------------------------------------------------------------
(* How the table of cases may change.                                      *)

\* Rows are added and rewritten; none is removed and none changes its type.
Extends(new) ==
    /\ new \in Seq(Row)
    /\ Len(new) \in Len(cases)..MaxCases
    /\ \A c \in Cases : new[c].type = cases[c].type

\* A created row comes last and leaves the others as they were.
LEMMA Creation ==
    ASSUME TypeOK, NEW type \in ModActionType, NEW clock \in Clock,
           createAction(type, clock)
    PROVE  /\ Extends(cases')
           /\ NextId \in Cases' /\ NextId \in CaseId
           /\ Len(cases') = Len(cases) + 1
           /\ cases'[NextId] = NewRow(type, clock)
           /\ \A c \in Cases : cases'[c] = cases[c]
<1>1. NewRow(type, clock) \in Row
  BY DEF NewRow, Row, isActiveState, EnforcementStatus
<1>2. cases \in Seq(Row) /\ Len(cases) \in Nat /\ Len(cases) < MaxCases
  BY DEF TypeOK, createAction
<1>3. cases' = Append(cases, NewRow(type, clock))
  BY DEF createAction
<1>4. /\ cases' \in Seq(Row)
      /\ Len(cases') = Len(cases) + 1
      /\ \A c \in 1..Len(cases) : cases'[c] = cases[c]
      /\ cases'[Len(cases) + 1] = NewRow(type, clock)
  BY <1>1, <1>2, <1>3, AppendProperties
<1> QED
  BY <1>2, <1>4, EnforcementAssumption DEF Extends, Cases, CaseId, NextId

\* A rewritten row leaves the others as they were.
LEMMA Rewriting ==
    ASSUME TypeOK, NEW c \in Cases, NEW row \in Row, row.type = cases[c].type,
           cases' = [cases EXCEPT ![c] = row]
    PROVE  /\ Extends(cases')
           /\ Cases' = Cases
           /\ \A b \in Cases : cases'[b] = IF b = c THEN row ELSE cases[b]
<1>1. cases \in Seq(Row) /\ c \in 1..Len(cases) /\ Len(cases) \in Nat
      /\ Len(cases) <= MaxCases
  BY DEF TypeOK, Cases
<1>2. /\ cases' \in Seq(Row)
      /\ Len(cases') = Len(cases)
      /\ \A b \in 1..Len(cases) : cases'[b] = IF b = c THEN row ELSE cases[b]
  BY <1>1, ExceptSeq
<1> QED
  BY <1>1, <1>2, EnforcementAssumption DEF Extends, Cases

LEMMA Untouched ==
    ASSUME TypeOK, UNCHANGED cases
    PROVE  Extends(cases') /\ Cases' = Cases
  BY EnforcementAssumption DEF TypeOK, Extends, Cases

\* Every case has counters of its own.
LEMMA CasesCount ==
    ASSUME TypeOK
    PROVE  /\ Cases \subseteq CaseId
           /\ \A c \in CaseId : asked[c] \in Nat /\ effort[c] \in Nat
<1>1. Len(cases) \in Nat /\ Len(cases) <= MaxCases /\ MaxCases \in Nat
  BY EnforcementAssumption DEF TypeOK
<1>2. Cases \subseteq CaseId
  BY <1>1 DEF Cases, CaseId
<1>3. \A c \in CaseId : asked[c] \in Nat /\ effort[c] \in Nat
  BY DEF TypeOK
<1> QED
  BY <1>2, <1>3

\* A log that grew still has every case it had.
LEMMA Growth ==
    ASSUME TypeOK, Extends(cases')
    PROVE  /\ Cases \subseteq Cases'
           /\ Cases' \subseteq CaseId
           /\ cases' \in Seq(Row) /\ Len(cases') <= MaxCases
  BY EnforcementAssumption DEF TypeOK, Extends, Cases, CaseId

LEMMA RowsAreRows ==
    ASSUME TypeOK, NEW c \in Cases
    PROVE  cases[c] \in Row
  BY DEF TypeOK, Cases

----------------------------------------------------------------------------
(* What tasks refer to.                                                    *)

LEMMA IdleIsFine == Idle \in TaskState /\ Refers(Idle, cases) /\ Refers(Idle, cases')
  BY DEF Idle, TaskState, TaskOps, Refers, Enforced

LEMMA EnforcingIsTyped ==
    ASSUME NEW k \in TaskState, NEW op \in TaskOps, NEW c \in Nat, NEW base \in Nat
    PROVE  Enforcing(k, op, c, base) \in TaskState
  BY DEF Enforcing, TaskState, TaskOps

LEMMA ResumeIsTyped ==
    ASSUME NEW k \in TaskState
    PROVE  Resume(k) \in TaskState
<1>1. [k EXCEPT !.pc = "mark"] \in TaskState
  BY DEF TaskState
<1>2. [k EXCEPT !.pc = "next", !.case = 0, !.base = 0, !.d = "none", !.g = "none"]
         \in TaskState
  BY DEF TaskState
<1> QED
  BY <1>1, <1>2, IdleIsFine DEF Resume

\* One task moves: the references of the others survive a longer log.
LEMMA OneTaskMoves ==
    ASSUME TypeOK, TaskInv, Extends(cases'),
           NEW t \in Task, NEW k \in TaskState, Refers(k, cases'),
           task' = [task EXCEPT ![t] = k]
    PROVE  task' \in [Task -> TaskState] /\ TaskInv'
<1>1. Cases \subseteq Cases' /\ \A c \in Cases : cases'[c].type = cases[c].type
  BY Growth DEF Extends
<1>2. task \in [Task -> TaskState]
  BY DEF TypeOK
<1>3. ASSUME NEW u \in Task, u # t PROVE Refers(task[u], cases')
  BY <1>1, <1>2, <1>3 DEF TaskInv, Refers, Cases
<1> QED
  BY <1>2, <1>3 DEF TaskInv

LEMMA NoTaskMoves ==
    ASSUME TypeOK, TaskInv, Extends(cases'), UNCHANGED task
    PROVE  task' \in [Task -> TaskState] /\ TaskInv'
<1>1. Cases \subseteq Cases' /\ \A c \in Cases : cases'[c].type = cases[c].type
  BY Growth DEF Extends
<1> QED
  BY <1>1 DEF TypeOK, TaskInv, Refers, Cases

LEMMA EnforcingRefers ==
    ASSUME NEW k \in TaskState, NEW op \in TaskOps, NEW c \in Cases', NEW base \in Nat,
           \A row \in k.todo : row.id \in Cases'
                               /\ (op = "reverse" => holdsEnforcement(cases'[row.id].type)),
           op = "void" => k.subject \in Cases'
    PROVE  Refers(Enforcing(k, op, c, base), cases')
  BY DEF Refers, Enforcing, Enforced, TaskState, holdsEnforcement, Cases

\* When an enforcement ends the task goes back to what it was doing.
LEMMA AfterStampIsFine ==
    ASSUME NEW k \in TaskState, NEW status, Refers(k, cases), k.pc \in Enforced,
           \A c \in Cases : c \in Cases' /\ cases'[c].type = cases[c].type
    PROVE  /\ Resume(k) \in TaskState /\ Refers(Resume(k), cases')
           /\ AfterStamp(k, status) \in TaskState /\ Refers(AfterStamp(k, status), cases')
<1>1. [k EXCEPT !.pc = "mark"] \in TaskState
  BY DEF TaskState
<1>2. [k EXCEPT !.pc = "next", !.case = 0, !.base = 0, !.d = "none", !.g = "none"]
         \in TaskState
  BY DEF TaskState
<1>3. [k EXCEPT !.pc = "alert"] \in TaskState /\ Refers([k EXCEPT !.pc = "alert"], cases')
  BY DEF TaskState, Refers, Enforced, Cases
<1>4. CASE k.op = "void"
  <2>1. Resume(k) = [k EXCEPT !.pc = "mark"]
    BY <1>4 DEF Resume
  <2>2. Refers([k EXCEPT !.pc = "mark"], cases')
    BY <1>4 DEF Refers, Enforced, TaskState, Cases
  <2> QED
    BY <1>1, <1>3, <2>1, <2>2 DEF AfterStamp
<1>5. CASE k.op \in {"settle", "reverse"}
  <2> DEFINE n == [k EXCEPT !.pc = "next", !.case = 0, !.base = 0, !.d = "none", !.g = "none"]
  <2>1. Resume(k) = n
    BY <1>5 DEF Resume
  <2>2. Refers(n, cases')
    BY <1>5 DEF Refers, Enforced, TaskState, Cases
  <2> QED
    BY <1>2, <1>3, <2>1, <2>2 DEF AfterStamp
<1>6. CASE k.op \notin {"void", "settle", "reverse"}
  <2>1. Resume(k) = Idle
    BY <1>6 DEF Resume
  <2> QED
    BY <1>3, <2>1, IdleIsFine DEF AfterStamp
<1> QED
  BY <1>4, <1>5, <1>6

----------------------------------------------------------------------------
(* Every step keeps types and references.                                  *)

Typed == TypeOK /\ TaskInv

LEMMA applyActionTyped ==
    ASSUME Typed, NEW t \in Staff, NEW type \in StaffTypes, NEW clock \in StaffClocks,
           applyAction(t, type, clock)
    PROVE  Typed'
<1>1. TypeOK /\ TaskInv /\ createAction(type, clock)
      /\ type \in ModActionType /\ clock \in Clock
  BY EnforcementAssumption DEF Typed, applyAction, Clock
<1>2. Extends(cases') /\ NextId \in Cases'
  BY <1>1, Creation
<1>3. NextId \in Nat
  BY <1>1 DEF NextId, TypeOK
<1>4. Enforcing(Idle, "apply", NextId, 0) \in TaskState
  BY <1>3, IdleIsFine, EnforcingIsTyped DEF TaskOps
<1>5. Refers(Enforcing(Idle, "apply", NextId, 0), cases')
  BY <1>2, IdleIsFine, EnforcingRefers DEF TaskOps, Idle
<1>6. task' \in [Task -> TaskState] /\ TaskInv'
  BY <1>1, <1>2, <1>4, <1>5, OneTaskMoves DEF applyAction
<1> QED
  BY <1>1, <1>2, <1>6, Growth DEF Typed, TypeOK, applyAction

LEMMA recordDiscordActionTyped ==
    ASSUME Typed, NEW t \in Staff, NEW type \in StaffTypes, recordDiscordAction(t, type)
    PROVE  Typed'
<1>1. TypeOK /\ TaskInv /\ createAction(type, "none")
      /\ type \in ModActionType /\ "none" \in Clock
  BY EnforcementAssumption DEF Typed, recordDiscordAction, Clock
<1>2. Extends(cases') /\ NextId \in Cases'
  BY <1>1, Creation
<1>3. NextId \in Nat
  BY <1>1 DEF NextId, TypeOK
<1>4. Enforcing(Idle, "adopt", NextId, 0) \in TaskState
  BY <1>3, IdleIsFine, EnforcingIsTyped DEF TaskOps
<1>5. Refers(Enforcing(Idle, "adopt", NextId, 0), cases')
  BY <1>2, IdleIsFine, EnforcingRefers DEF TaskOps, Idle
<1>6. task' \in [Task -> TaskState] /\ TaskInv'
  BY <1>1, <1>2, <1>4, <1>5, OneTaskMoves DEF recordDiscordAction
<1>7. discord' \in [Holding -> {0} \cup Cases']
  BY <1>1, <1>2, Growth DEF recordDiscordAction, TypeOK, Holding
<1>8. present' \in BOOLEAN
  BY <1>1 DEF recordDiscordAction, TypeOK
<1> QED
  BY <1>1, <1>2, <1>6, <1>7, <1>8, Growth DEF Typed, TypeOK, recordDiscordAction

\* Steps that write no row and change nothing but tasks, the mirror and tallies.
LEMMA QuietStepTyped ==
    ASSUME Typed, UNCHANGED cases,
           NEW t \in Task, NEW k \in TaskState, Refers(k, cases),
           task' = [task EXCEPT ![t] = k]
    PROVE  task' \in [Task -> TaskState] /\ TaskInv' /\ Cases' = Cases
  BY OneTaskMoves, Untouched DEF Typed

LEMMA TaskHere ==
    ASSUME Typed, NEW t \in Task
    PROVE  task[t] \in TaskState /\ Refers(task[t], cases)
  BY DEF Typed, TypeOK, TaskInv

LEMMA retryEnforcementTyped ==
    ASSUME Typed, NEW t \in Staff, NEW c \in Cases, retryEnforcement(t, c)
    PROVE  Typed'
<1>1. cases[c].attempts \in Nat /\ c \in Nat /\ UNCHANGED cases
  BY RowsAreRows DEF Typed, Row, Cases, TypeOK, retryEnforcement
<1>2. Enforcing(Idle, "retry", c, cases[c].attempts) \in TaskState
  BY <1>1, IdleIsFine, EnforcingIsTyped DEF TaskOps
<1>3. Refers(Enforcing(Idle, "retry", c, cases[c].attempts), cases)
  BY <1>1 DEF Refers, Enforcing, Idle, Cases, Enforced
<1> QED
  BY <1>1, <1>2, <1>3, QuietStepTyped DEF Typed, TypeOK, retryEnforcement

LEMMA voidActionTyped ==
    ASSUME Typed, NEW t \in Staff, NEW c \in Cases, voidAction(t, c)
    PROVE  Typed'
<1> DEFINE k == [Idle EXCEPT !.op = "void", !.subject = c,
                             !.pc = IF isInForce(cases[c]) THEN "lift" ELSE "mark"]
<1>1. k \in TaskState
  <2>1. c \in Nat /\ Idle \in TaskState
    BY IdleIsFine DEF Cases, Typed, TypeOK
  <2> QED
    BY <2>1 DEF TaskState, TaskOps
<1>2. Refers(k, cases)
  BY DEF Refers, Idle, Cases, Enforced, isInForce
<1>3. UNCHANGED cases /\ task' = [task EXCEPT ![t] = k]
  BY DEF voidAction
<1> QED
  BY <1>1, <1>2, <1>3, QuietStepTyped DEF Typed, TypeOK, voidAction

LEMMA updateActionTyped ==
    ASSUME Typed, NEW t \in Staff, NEW c \in Cases, NEW clock \in Clock,
           updateAction(t, c, clock)
    PROVE  Typed'
<1> DEFINE row == [cases[c] EXCEPT !.clock = clock]
           k == [Idle EXCEPT !.op = "edit", !.subject = c, !.pc = "remirror"]
<1>1. TypeOK /\ TaskInv
  BY DEF Typed
<1>2. row \in Row /\ row.type = cases[c].type
  BY <1>1, RowsAreRows DEF Row
<1>3. cases' = [cases EXCEPT ![c] = row] /\ task' = [task EXCEPT ![t] = k]
  BY DEF updateAction
<1>4. Extends(cases') /\ Cases' = Cases
  BY <1>1, <1>2, <1>3, Rewriting
<1>5. k \in TaskState
  <2>1. c \in Nat /\ Idle \in TaskState
    BY <1>1, IdleIsFine DEF Cases, TypeOK
  <2> QED
    BY <2>1 DEF TaskState, TaskOps
<1>6. Refers(k, cases')
  BY <1>4 DEF Refers, Idle, Cases, Enforced
<1>7. task' \in [Task -> TaskState] /\ TaskInv'
  BY <1>1, <1>3, <1>4, <1>5, <1>6, OneTaskMoves
<1> QED
  BY <1>1, <1>4, <1>7, Growth DEF Typed, TypeOK, updateAction

LEMMA setEnforcementManuallyTyped ==
    ASSUME Typed, NEW c \in Cases, NEW status \in EnforcementStatus,
           setEnforcementManually(c, status)
    PROVE  Typed'
<1> DEFINE row == [cases[c] EXCEPT !.enforcement = status]
<1>1. TypeOK /\ TaskInv
  BY DEF Typed
<1>2. row \in Row /\ row.type = cases[c].type
  BY <1>1, RowsAreRows DEF Row
<1>3. cases' = [cases EXCEPT ![c] = row]
  BY DEF setEnforcementManually
<1>4. Extends(cases') /\ Cases' = Cases
  BY <1>1, <1>2, <1>3, Rewriting
<1>5. task' \in [Task -> TaskState] /\ TaskInv'
  BY <1>1, <1>4, NoTaskMoves DEF setEnforcementManually
<1> QED
  BY <1>1, <1>4, <1>5, Growth DEF Typed, TypeOK, setEnforcementManually

LEMMA MirrorTyped ==
    ASSUME Typed, NEW t \in Task, Mirror(t)
    PROVE  Typed'
<1>1. TypeOK /\ task[t] \in TaskState /\ Refers(task[t], cases)
  BY TaskHere DEF Typed
<1>2. PICK p \in {"game", "discord"}, d \in {"ok", "none"} :
         task' = [task EXCEPT ![t].pc = p, ![t].d = d]
  BY DEF Mirror
<1> DEFINE k == [task[t] EXCEPT !.pc = p, !.d = d]
<1>3. task[t].pc = "mirror" /\ UNCHANGED cases
  BY DEF Mirror
<1>4. task' = [task EXCEPT ![t] = k]
  BY <1>1, <1>2 DEF TypeOK
<1>5. k \in TaskState
  BY <1>1 DEF TaskState
<1>6. Refers(k, cases)
  BY <1>1, <1>3 DEF Refers, Enforced, TaskState
<1>7. mirror' \in [Holding -> {0} \cup Cases] /\ faults' \in 0..MaxFaults
  <2>1. task[t].case \in Cases
    BY <1>1, <1>3 DEF Refers, Enforced, Cases
  <2>2. mirror' = Mirrored(cases[task[t].case].type, task[t].case) \/ mirror' = mirror
    BY DEF Mirror, LandsOrNot
  <2>3. mirror \in [Holding -> {0} \cup Cases]
    BY <1>1 DEF TypeOK
  <2>4. mirror' \in [Holding -> {0} \cup Cases]
    BY <2>1, <2>2, <2>3 DEF Mirrored, Holding, Lifting, Undoes
  <2>5. faults' = faults \/ (faults < MaxFaults /\ faults' = faults + 1)
    BY DEF Mirror, LandsOrNot
  <2>6. faults \in 0..MaxFaults /\ MaxFaults \in Nat
    BY <1>1, EnforcementAssumption DEF TypeOK
  <2> QED
    BY <2>4, <2>5, <2>6
<1>8. task' \in [Task -> TaskState] /\ TaskInv' /\ Cases' = Cases
  <2> HIDE DEF k
  <2> QED
    BY <1>3, <1>4, <1>5, <1>6, QuietStepTyped
<1>9. UNCHANGED <<cases, discord, present, raised, grounds, asked, effort, lifted, edited,
                  later>>
  BY DEF Mirror
<1> QED
  BY <1>1, <1>7, <1>8, <1>9 DEF Typed, TypeOK

LEMMA DiscordTyped ==
    ASSUME Typed, NEW t \in Task, Discord(t)
    PROVE  Typed'
<1>1. TypeOK /\ task[t] \in TaskState /\ Refers(task[t], cases)
  BY TaskHere DEF Typed
<1>2. task[t].pc = "discord" /\ UNCHANGED cases
  BY DEF Discord
<1>3. PICK d \in {"ok", "failed"} : task' = [task EXCEPT ![t].pc = "game", ![t].d = d]
  BY DEF Discord
<1> DEFINE k == [task[t] EXCEPT !.pc = "game", !.d = d]
<1>4. k \in TaskState /\ task' = [task EXCEPT ![t] = k]
  BY <1>1, <1>3 DEF TaskState, TypeOK
<1>5. Refers(k, cases)
  BY <1>1, <1>2 DEF Refers, Enforced, TaskState
<1>6. task[t].case \in Cases
  BY <1>1, <1>2 DEF Refers, Enforced, Cases
<1>7. discord' \in [Holding -> {0} \cup Cases]
  <2>1. DiscordDoes(cases[task[t].case].type, task[t].case) \/ UNCHANGED discord
    BY DEF Discord
  <2> QED
    BY <1>1, <1>6, <2>1 DEF DiscordDoes, TypeOK, Holding, Lifting, Undoes
<1>8. present' \in BOOLEAN
  <2>1. DiscordDoes(cases[task[t].case].type, task[t].case) \/ UNCHANGED present
    BY DEF Discord
  <2> QED
    BY <1>1, <2>1 DEF DiscordDoes, TypeOK
<1> QED
  BY <1>1, <1>2, <1>4, <1>5, <1>7, <1>8, QuietStepTyped DEF Typed, TypeOK, Discord

LEMMA GameTyped ==
    ASSUME Typed, NEW t \in Task, Game(t)
    PROVE  Typed'
<1>1. TypeOK /\ task[t] \in TaskState /\ Refers(task[t], cases)
  BY TaskHere DEF Typed
<1>2. task[t].pc = "game" /\ UNCHANGED cases
  BY DEF Game
<1>3. task[t].case \in Cases /\ task[t].case \in CaseId
  BY <1>1, <1>2, EnforcementAssumption DEF Refers, Enforced, Cases, CaseId, TypeOK
<1>4. PICK receipt \in GuildAnswers :
         /\ task' = [task EXCEPT ![t].pc = "stamp", ![t].g = receipt]
         /\ grounds' \in {grounds, grounds \cup {task[t].case}}
  BY DEF Game
<1> DEFINE k == [task[t] EXCEPT !.pc = "stamp", !.g = receipt]
<1>5. receipt \in {"confirmed", "refused", "pending", "skipped"}
  BY EnforcementAssumption
<1>6. k \in TaskState /\ task' = [task EXCEPT ![t] = k]
  BY <1>1, <1>4, <1>5 DEF TaskState, TypeOK
<1>7. Refers(k, cases)
  BY <1>1, <1>2 DEF Refers, Enforced, TaskState
<1>8. asked' \in [CaseId -> Nat]
  BY <1>1, <1>3 DEF Game, TypeOK
<1>9. grounds' \subseteq Cases
  BY <1>1, <1>3, <1>4 DEF TypeOK
<1> QED
  BY <1>1, <1>2, <1>6, <1>7, <1>8, <1>9, QuietStepTyped DEF Typed, TypeOK, Game

\* What a stamp writes.
LEMMA StampedRow ==
    ASSUME Typed, NEW t \in Task, Stamp(t)
    PROVE  LET k == task[t]
               status == Verdict(k.d, k.g)
               row == [cases[k.case] EXCEPT !.enforcement = status,
                                            !.attempts = k.base + 1, !.quiet = FALSE]
           IN  /\ k.case \in Cases
               /\ row \in Row /\ row.type = cases[k.case].type
               /\ \/ /\ UNCHANGED <<cases, raised>>
                     /\ faults' = faults + 1 /\ faults' \in 0..MaxFaults
                  \/ /\ cases' = [cases EXCEPT ![k.case] = row]
                     /\ raised' = raised \ {k.case}
                     /\ faults' = faults
               /\ task' = [task EXCEPT ![t] = AfterStamp(k, status)]
<1> DEFINE k == task[t]
           status == Verdict(k.d, k.g)
           row == [cases[k.case] EXCEPT !.enforcement = status,
                                        !.attempts = k.base + 1, !.quiet = FALSE]
<1>1. TypeOK /\ k \in TaskState /\ Refers(k, cases) /\ k.pc = "stamp"
  BY TaskHere DEF Typed, Stamp
<1>2. k.case \in Cases
  BY <1>1 DEF Refers, Enforced, Cases
<1>3. status \in EnforcementStatus
  BY DEF Verdict, EnforcementStatus
<1>4. cases[k.case] \in Row /\ k.base + 1 \in Nat
  BY <1>1, <1>2, RowsAreRows DEF TaskState
<1>5. row \in Row /\ row.type = cases[k.case].type
  <2>1. ASSUME NEW r \in Row, NEW s \in EnforcementStatus, NEW m \in Nat
        PROVE  /\ [r EXCEPT !.enforcement = s, !.attempts = m, !.quiet = FALSE] \in Row
               /\ [r EXCEPT !.enforcement = s, !.attempts = m, !.quiet = FALSE].type = r.type
    BY DEF Row
  <2> QED
    BY <1>3, <1>4, <2>1
<1>6. \/ UNCHANGED <<cases, raised>> /\ faults < MaxFaults /\ faults' = faults + 1
      \/ /\ cases' = [cases EXCEPT ![k.case] = row]
         /\ raised' = raised \ {k.case}
         /\ faults' = faults
  BY DEF Stamp, LandsOrNot
<1>7. task' = [task EXCEPT ![t] = AfterStamp(k, status)]
  BY DEF Stamp
<1> QED
  BY <1>1, <1>2, <1>5, <1>6, <1>7, EnforcementAssumption DEF TypeOK

LEMMA StampTyped ==
    ASSUME Typed, NEW t \in Task, Stamp(t)
    PROVE  Typed'
<1> DEFINE k == task[t]
           status == Verdict(k.d, k.g)
           row == [cases[k.case] EXCEPT !.enforcement = status,
                                        !.attempts = k.base + 1, !.quiet = FALSE]
<1>1. TypeOK /\ TaskInv /\ k \in TaskState /\ Refers(k, cases) /\ k.pc \in Enforced
  BY TaskHere DEF Typed, Stamp, Enforced
<1>2. /\ k.case \in Cases
      /\ \/ cases' = cases /\ raised' = raised
         \/ row \in Row /\ row.type = cases[k.case].type
            /\ cases' = [cases EXCEPT ![k.case] = row] /\ raised' = raised \ {k.case}
      /\ faults' \in 0..MaxFaults
      /\ task' = [task EXCEPT ![t] = AfterStamp(k, status)]
  BY <1>1, StampedRow DEF TypeOK
<1>3. Extends(cases') /\ Cases' = Cases
  BY <1>1, <1>2, Rewriting, Untouched
<1>4. AfterStamp(k, status) \in TaskState /\ Refers(AfterStamp(k, status), cases')
  BY <1>1, <1>3, AfterStampIsFine DEF Extends
<1>5. task' \in [Task -> TaskState] /\ TaskInv'
  BY <1>1, <1>2, <1>3, <1>4, OneTaskMoves
<1> QED
  BY <1>1, <1>2, <1>3, <1>5, Growth DEF Typed, TypeOK, Stamp

LEMMA alertStaffTyped ==
    ASSUME Typed, NEW t \in Task, alertStaff(t)
    PROVE  Typed'
<1>1. TypeOK /\ task[t] \in TaskState /\ Refers(task[t], cases) /\ task[t].pc \in Enforced
      /\ UNCHANGED cases /\ task' = [task EXCEPT ![t] = Resume(task[t])]
  BY TaskHere DEF Typed, alertStaff, Enforced
<1>2. Resume(task[t]) \in TaskState /\ Refers(Resume(task[t]), cases)
  BY <1>1, AfterStampIsFine, Untouched DEF Extends
<1>3. raised' \subseteq Cases
  BY <1>1 DEF alertStaff, TypeOK, Refers, Enforced, Cases
<1> QED
  BY <1>1, <1>2, <1>3, QuietStepTyped DEF Typed, TypeOK, alertStaff

LEMMA VoidLiftTyped ==
    ASSUME Typed, NEW t \in Staff, VoidLift(t)
    PROVE  Typed'
<1> DEFINE c == task[t].subject
           type == REVERSALS[cases[c].type]
<1>1. TypeOK /\ TaskInv /\ task[t] \in TaskState /\ Refers(task[t], cases)
  BY TaskHere DEF Typed
<1>2. task[t].pc = "lift" /\ c \in Cases /\ holdsEnforcement(cases[c].type)
  BY <1>1 DEF VoidLift, Refers, Cases
<1>3. createAction(type, "none") /\ type \in ModActionType /\ "none" \in Clock
  BY <1>2 DEF VoidLift, REVERSALS, holdsEnforcement, ModActionType, Holding, Lifting, Clock
<1>4. Extends(cases') /\ NextId \in Cases' /\ NextId \in Nat /\ c \in Cases'
  BY <1>1, <1>2, <1>3, Creation, Growth DEF NextId, TypeOK
<1>5. Enforcing(task[t], "void", NextId, 0) \in TaskState
  BY <1>1, <1>4, EnforcingIsTyped DEF TaskOps
<1>6. Refers(Enforcing(task[t], "void", NextId, 0), cases')
  <2>1. "void" \in TaskOps /\ 0 \in Nat
    BY DEF TaskOps
  <2>2. \A row \in task[t].todo : row.id \in Cases'
    BY <1>1, <1>4 DEF Refers, Extends, Cases
  <2>3. QED
    BY <1>1, <1>4, <2>1, <2>2, EnforcingRefers
<1>7. task' \in [Task -> TaskState] /\ TaskInv'
  BY <1>1, <1>4, <1>5, <1>6, OneTaskMoves DEF VoidLift
<1> QED
  BY <1>1, <1>4, <1>7, Growth DEF Typed, TypeOK, VoidLift

LEMMA VoidMarkTyped ==
    ASSUME Typed, NEW t \in Staff, VoidMark(t)
    PROVE  Typed'
<1> DEFINE c == task[t].subject
           k == [task[t] EXCEPT !.pc = "remirror"]
<1>1. TypeOK /\ TaskInv /\ task[t] \in TaskState /\ Refers(task[t], cases)
  BY TaskHere DEF Typed
<1>2. task[t].pc = "mark" /\ c \in Cases
  BY <1>1 DEF VoidMark, Refers, Cases
<1>3. Withdrawn(cases[c]) \in Row /\ Withdrawn(cases[c]).type = cases[c].type
  BY <1>1, <1>2, RowsAreRows DEF Row, Withdrawn
<1>4. /\ cases' = [cases EXCEPT ![c] = Withdrawn(cases[c])]
      /\ task' = [task EXCEPT ![t] = k]
  BY <1>1 DEF VoidMark, TypeOK
<1>5. Extends(cases') /\ Cases' = Cases
  BY <1>1, <1>2, <1>3, <1>4, Rewriting
<1>6. k \in TaskState
  BY <1>1 DEF TaskState
<1>7. Refers(k, cases')
  BY <1>1, <1>2, <1>5 DEF Refers, Enforced, Cases, TaskState, Extends
<1>8. task' \in [Task -> TaskState] /\ TaskInv'
  BY <1>1, <1>4, <1>5, <1>6, <1>7, OneTaskMoves
<1> QED
  BY <1>1, <1>5, <1>8, Growth DEF Typed, TypeOK, VoidMark

LEMMA RemirrorTyped ==
    ASSUME Typed, NEW t \in Staff, Remirror(t)
    PROVE  Typed'
<1>1. TypeOK /\ task[t] \in TaskState /\ Refers(task[t], cases)
  BY TaskHere DEF Typed
<1>2. task[t].subject \in Cases /\ UNCHANGED cases
  BY <1>1 DEF Remirror, Refers, Cases
<1>3. mirror' \in [Holding -> {0} \cup Cases]
  <2>1. mirror' \in {mirror, Mirrored(cases[task[t].subject].type, task[t].subject)}
    BY DEF Remirror, LandsOrNot
  <2> QED
    BY <1>1, <1>2, <2>1 DEF Mirrored, TypeOK, Holding, Lifting, Undoes
<1>4. faults' \in 0..MaxFaults
  BY <1>1, EnforcementAssumption DEF Remirror, LandsOrNot, TypeOK
<1> QED
  BY <1>1, <1>3, <1>4, IdleIsFine, QuietStepTyped DEF Typed, TypeOK, Remirror

LEMMA PageIsTyped ==
    ASSUME Typed, NEW ids \in SUBSET Cases
    PROVE  /\ Page(ids) \subseteq [id : Nat, attempts : Nat]
           /\ \A row \in Page(ids) : row.id \in ids /\ row.attempts = cases[row.id].attempts
<1>1. \A c \in ids : c \in Nat /\ cases[c].attempts \in Nat
  <2> TAKE c \in ids
  <2>1. cases[c] \in Row
    BY RowsAreRows DEF Typed
  <2> QED
    BY <2>1 DEF Row, Cases, Typed, TypeOK
<1> QED
  BY <1>1 DEF Page

LEMMA settleStalePendingTyped ==
    ASSUME Typed, settleStalePending
    PROVE  Typed'
<1> DEFINE k == [Idle EXCEPT !.op = "settle", !.pc = "next",
                             !.todo = Page(listStalePending)]
<1>1. listStalePending \subseteq Cases
  BY DEF listStalePending
<1>2. Page(listStalePending) \subseteq [id : Nat, attempts : Nat]
      /\ \A row \in Page(listStalePending) : row.id \in Cases
  BY <1>1, PageIsTyped
<1>3. k \in TaskState
  BY <1>2, IdleIsFine DEF TaskState, TaskOps
<1>4. Refers(k, cases)
  BY <1>2 DEF Refers, Idle, Enforced, Cases
<1> QED
  BY <1>3, <1>4, QuietStepTyped DEF Typed, TypeOK, settleStalePending

LEMMA reverseExpiredTyped ==
    ASSUME Typed, reverseExpired
    PROVE  Typed'
<1>1. PICK page \in kSubset(Min({SweepLimit, Cardinality(ExpiredActive)}), ExpiredActive) :
         task' = [task EXCEPT ![Sweeper] =
                     [Idle EXCEPT !.op = "reverse", !.pc = "next",
                                  !.todo = Page(page)]]
  BY DEF reverseExpired
<1> DEFINE k == [Idle EXCEPT !.op = "reverse", !.pc = "next",
                             !.todo = Page(page)]
<1>2. page \subseteq ExpiredActive /\ ExpiredActive \subseteq Cases
      /\ \A c \in ExpiredActive : holdsEnforcement(cases[c].type)
  BY DEF kSubset, ExpiredActive
<1>3. /\ Page(page) \subseteq [id : Nat, attempts : Nat]
      /\ \A row \in Page(page) : row.id \in Cases /\ holdsEnforcement(cases[row.id].type)
  BY <1>2, PageIsTyped
<1>4. ExpiredActive \subseteq Nat
  BY <1>2 DEF Cases, Typed, TypeOK
<1>5. k \in TaskState
  BY <1>3, <1>4, IdleIsFine DEF TaskState, TaskOps
<1>6. Refers(k, cases)
  BY <1>3 DEF Refers, Idle, Enforced, Cases
<1> QED
  BY <1>1, <1>5, <1>6, QuietStepTyped DEF Typed, TypeOK, reverseExpired

LEMMA ReverseNextTyped ==
    ASSUME Typed, ReverseNext
    PROVE  Typed'
<1>1. TypeOK /\ TaskInv /\ task[Sweeper] \in TaskState /\ Refers(task[Sweeper], cases)
      /\ task[Sweeper].op = "reverse"
  BY TaskHere DEF Typed, ReverseNext
<1>2. PICK row \in task[Sweeper].todo :
         /\ createAction(REVERSALS[cases[row.id].type], "none")
         /\ task' = [task EXCEPT ![Sweeper] =
               Enforcing([task[Sweeper] EXCEPT !.todo = @ \ {row}], "reverse", NextId, 0)]
         /\ lifted' = lifted \cup {row.id}
  BY DEF ReverseNext
<1> DEFINE type == REVERSALS[cases[row.id].type]
           k == [task[Sweeper] EXCEPT !.todo = @ \ {row}]
<1>3. row.id \in Cases /\ holdsEnforcement(cases[row.id].type)
  BY <1>1 DEF Refers, Cases
<1>4. type \in ModActionType /\ "none" \in Clock
  BY <1>3 DEF REVERSALS, holdsEnforcement, ModActionType, Holding, Lifting, Clock
<1>5. Extends(cases') /\ NextId \in Cases' /\ NextId \in Nat /\ Cases \subseteq Cases'
  BY <1>1, <1>2, <1>4, Creation, Growth DEF NextId, TypeOK
<1>6. k \in TaskState /\ k.todo \subseteq task[Sweeper].todo
  BY <1>1 DEF TaskState
<1>7. Enforcing(k, "reverse", NextId, 0) \in TaskState
  BY <1>5, <1>6, EnforcingIsTyped DEF TaskOps
<1>8. \A r \in k.todo : r.id \in Cases' /\ holdsEnforcement(cases'[r.id].type)
  BY <1>1, <1>5, <1>6 DEF Refers, Extends, Cases
<1>9. Refers(Enforcing(k, "reverse", NextId, 0), cases')
  BY <1>5, <1>6, <1>8, EnforcingRefers DEF TaskOps
<1>10. task' \in [Task -> TaskState] /\ TaskInv'
  BY <1>1, <1>2, <1>5, <1>7, <1>9, OneTaskMoves
<1> QED
  BY <1>1, <1>2, <1>3, <1>5, <1>10, Growth DEF Typed, TypeOK, ReverseNext

\* What settling one row of the page does.
LEMMA SettledRow ==
    ASSUME Typed, SettleNext
    PROVE  LET k == task[Sweeper] IN
           \E row \in k.todo :
              LET rest == [k EXCEPT !.todo = @ \ {row}] IN
              /\ row.id \in Cases
              /\ rest \in TaskState /\ rest.todo = k.todo \ {row}
              /\ rest.op = "settle" /\ rest.pc = "next"
              /\ \/ /\ ~outOfAttempts(row)
                    /\ task' = [task EXCEPT ![Sweeper] =
                                   Enforcing(rest, "settle", row.id, row.attempts)]
                    /\ effort' = [effort EXCEPT ![row.id] = @ + 1]
                    /\ UNCHANGED <<cases, raised, faults>>
                 \/ /\ outOfAttempts(row)
                    /\ task' = [task EXCEPT ![Sweeper] =
                                   [rest EXCEPT !.pc = "alert", !.case = row.id]]
                    /\ \/ UNCHANGED <<cases, raised>> /\ faults' = faults + 1
                       \/ /\ cases' = [cases EXCEPT ![row.id] =
                                          [cases[row.id] EXCEPT !.enforcement = "FAILED"]]
                          /\ raised' = raised \ {row.id} /\ faults' = faults
                    /\ faults' \in 0..MaxFaults
                    /\ UNCHANGED effort
<1> DEFINE k == task[Sweeper]
<1>1. TypeOK /\ k \in TaskState /\ Refers(k, cases)
  BY TaskHere DEF Typed
<1>2. PICK row \in k.todo :
         LET rest == [k EXCEPT !.todo = @ \ {row}] IN
         \/ /\ ~outOfAttempts(row)
            /\ task' = [task EXCEPT ![Sweeper] =
                           Enforcing(rest, "settle", row.id, row.attempts)]
            /\ effort' = [effort EXCEPT ![row.id] = @ + 1]
            /\ UNCHANGED <<cases, raised, faults>>
         \/ /\ outOfAttempts(row)
            /\ LandsOrNot(/\ cases' = [cases EXCEPT ![row.id].enforcement = "FAILED"]
                          /\ raised' = raised \ {row.id},
                          UNCHANGED <<cases, raised>>)
            /\ task' = [task EXCEPT ![Sweeper] =
                           [rest EXCEPT !.pc = "alert", !.case = row.id]]
            /\ UNCHANGED effort
  BY DEF SettleNext
<1> DEFINE rest == [k EXCEPT !.todo = @ \ {row}]
<1>3. row.id \in Cases
  BY <1>1 DEF Refers, Cases
<1>4. rest \in TaskState /\ rest.todo = k.todo \ {row}
      /\ rest.op = k.op /\ rest.pc = k.pc
  BY <1>1 DEF TaskState
<1>5. k.op = "settle" /\ k.pc = "next"
  BY DEF SettleNext
<1>6. [cases EXCEPT ![row.id].enforcement = "FAILED"]
         = [cases EXCEPT ![row.id] = [cases[row.id] EXCEPT !.enforcement = "FAILED"]]
  OBVIOUS
<1>7. CASE outOfAttempts(row)
  <2>1. \/ UNCHANGED <<cases, raised>> /\ faults < MaxFaults /\ faults' = faults + 1
        \/ /\ cases' = [cases EXCEPT ![row.id].enforcement = "FAILED"]
           /\ raised' = raised \ {row.id} /\ faults' = faults
    BY <1>2, <1>7 DEF LandsOrNot
  <2>2. faults' \in 0..MaxFaults
    BY <1>1, <2>1, EnforcementAssumption DEF TypeOK
  <2> QED
    BY <1>2, <1>3, <1>4, <1>5, <1>6, <1>7, <2>1, <2>2
<1>8. CASE ~outOfAttempts(row)
  BY <1>2, <1>3, <1>4, <1>5, <1>8
<1> QED
  BY <1>7, <1>8

LEMMA FailedRow ==
    ASSUME TypeOK, NEW c \in Cases
    PROVE  LET row == [cases[c] EXCEPT !.enforcement = "FAILED"]
           IN  row \in Row /\ row.type = cases[c].type
  BY RowsAreRows DEF Row, EnforcementStatus

LEMMA SettleNextTyped ==
    ASSUME Typed, SettleNext
    PROVE  Typed'
<1> DEFINE k == task[Sweeper]
<1>1. TypeOK /\ TaskInv /\ k \in TaskState /\ Refers(k, cases)
  BY TaskHere DEF Typed
<1>2. PICK row \in k.todo :
         LET rest == [k EXCEPT !.todo = @ \ {row}] IN
         /\ row.id \in Cases
         /\ rest \in TaskState /\ rest.todo \subseteq k.todo
         /\ rest.op = "settle" /\ rest.pc = "next"
         /\ \/ /\ ~outOfAttempts(row)
               /\ task' = [task EXCEPT ![Sweeper] =
                              Enforcing(rest, "settle", row.id, row.attempts)]
               /\ effort' = [effort EXCEPT ![row.id] = @ + 1]
               /\ UNCHANGED <<cases, raised, faults>>
            \/ /\ outOfAttempts(row)
               /\ task' = [task EXCEPT ![Sweeper] =
                              [rest EXCEPT !.pc = "alert", !.case = row.id]]
               /\ \/ UNCHANGED <<cases, raised>>
                  \/ /\ cases' = [cases EXCEPT ![row.id] =
                                     [cases[row.id] EXCEPT !.enforcement = "FAILED"]]
                     /\ raised' = raised \ {row.id}
               /\ faults' \in 0..MaxFaults
               /\ UNCHANGED effort
  BY SettledRow
<1> DEFINE rest == [k EXCEPT !.todo = @ \ {row}]
<1>3. row \in [id : Nat, attempts : Nat] /\ row.id \in CaseId
  <2>1. row.id \in CaseId
    BY <1>1, <1>2, CasesCount
  <2>2. k.todo \subseteq [id : Nat, attempts : Nat]
    BY <1>1 DEF TaskState
  <2> QED
    BY <1>2, <2>1, <2>2
<1>4. CASE ~outOfAttempts(row)
  <2>1. Enforcing(rest, "settle", row.id, row.attempts) \in TaskState
    BY <1>2, <1>3, EnforcingIsTyped DEF TaskOps
  <2>2. UNCHANGED cases
    BY <1>2, <1>4
  <2>3. Refers(Enforcing(rest, "settle", row.id, row.attempts), cases)
    BY <1>1, <1>2 DEF Refers, Enforcing, Enforced, TaskState, Cases
  <2>4. effort' \in [CaseId -> Nat]
    <3>1. effort' = [effort EXCEPT ![row.id] = effort[row.id] + 1]
      BY <1>2, <1>4
    <3> QED
      BY <1>1, <1>3, <3>1 DEF TypeOK
  <2> QED
    BY <1>2, <1>4, <2>1, <2>2, <2>3, <2>4, QuietStepTyped DEF Typed, TypeOK, SettleNext
<1>5. CASE outOfAttempts(row)
  <2> DEFINE n == [rest EXCEPT !.pc = "alert", !.case = row.id]
  <2>1. Extends(cases') /\ Cases' = Cases
    BY <1>1, <1>2, <1>5, FailedRow, Rewriting, Untouched
  <2>2. n \in TaskState
    BY <1>2, <1>3 DEF TaskState
  <2>3. n.op = "settle" /\ n.pc = "alert" /\ n.case = row.id /\ n.todo \subseteq k.todo
    BY <1>2 DEF TaskState
  <2>4. Refers(n, cases')
    BY <1>1, <1>2, <2>1, <2>3 DEF Refers, Enforced, Cases
  <2>5. task' \in [Task -> TaskState] /\ TaskInv'
    BY <1>1, <1>2, <1>5, <2>1, <2>2, <2>4, OneTaskMoves
  <2>6. raised' \subseteq Cases
    BY <1>1, <1>2, <1>5 DEF TypeOK
  <2> QED
    BY <1>1, <1>2, <1>5, <2>1, <2>5, <2>6, Growth DEF Typed, TypeOK, SettleNext
<1> QED
  BY <1>4, <1>5

\* Clearing flags touches nothing else of a row.
LEMMA DeactivatedRows ==
    ASSUME TypeOK, deactivateExpired
    PROVE  /\ Extends(cases') /\ Cases' = Cases
           /\ \A c \in Cases : \/ cases'[c] = cases[c]
                               \/ cases'[c] = [cases[c] EXCEPT !.active = FALSE]
<1> DEFINE old == Overdue(later)
<1>1. cases' = [c \in Cases |-> IF c \in old THEN [cases[c] EXCEPT !.active = FALSE]
                                             ELSE cases[c]]
  BY DEF deactivateExpired
<1>2. \A c \in Cases : cases'[c] \in Row /\ cases'[c].type = cases[c].type
  <2> TAKE c \in Cases
  <2>1. cases[c] \in Row
    BY RowsAreRows
  <2> QED
    BY <1>1, <2>1 DEF Row
<1>3. Len(cases) \in Nat /\ Cases = 1..Len(cases) /\ Len(cases) <= MaxCases
  BY DEF TypeOK, Cases
<1>4. cases' \in [1..Len(cases) -> Row]
  BY <1>1, <1>2, <1>3
<1>5. cases' \in Seq(Row) /\ Len(cases') = Len(cases)
  BY <1>3, <1>4, SeqDef
<1> QED
  BY <1>1, <1>2, <1>3, <1>5, EnforcementAssumption DEF Extends, Cases

LEMMA deactivateExpiredTyped ==
    ASSUME Typed, deactivateExpired
    PROVE  Typed'
<1>1. TypeOK /\ TaskInv /\ Extends(cases') /\ Cases' = Cases
  BY DeactivatedRows DEF Typed
<1>2. task' \in [Task -> TaskState] /\ TaskInv'
  BY <1>1, IdleIsFine, OneTaskMoves DEF deactivateExpired
<1> QED
  BY <1>1, <1>2, Growth DEF Typed, TypeOK, deactivateExpired

\* A row's clock or its grace flag moves on.
LEMMA TimedRowTyped ==
    ASSUME Typed, NEW c \in Cases, NEW row \in Row, row.type = cases[c].type,
           cases' = [cases EXCEPT ![c] = row],
           UNCHANGED <<discord, present, mirror, task, raised, grounds, asked, effort,
                       lifted, edited, faults>>,
           later' \in {later, later \cup {c}}
    PROVE  Typed'
<1>1. TypeOK /\ TaskInv /\ Extends(cases') /\ Cases' = Cases
  BY Rewriting DEF Typed
<1>2. task' \in [Task -> TaskState] /\ TaskInv'
  BY <1>1, NoTaskMoves
<1> QED
  BY <1>1, <1>2, Growth DEF Typed, TypeOK

LEMMA EnvironmentTyped ==
    ASSUME Typed, Environment
    PROVE  Typed'
<1>1. ASSUME NEW c \in Cases, ClockRunsOut(c) PROVE Typed'
  <2> DEFINE row == [cases[c] EXCEPT !.clock = "out"]
  <2>1. row \in Row /\ row.type = cases[c].type
    BY RowsAreRows DEF Typed, Row, Clock
  <2>2. cases' = [cases EXCEPT ![c] = row]
    BY <1>1 DEF ClockRunsOut
  <2> QED
    BY <1>1, <2>1, <2>2, TimedRowTyped DEF ClockRunsOut
<1>2. ASSUME NEW c \in Cases, GraceElapses(c) PROVE Typed'
  <2> DEFINE row == [cases[c] EXCEPT !.quiet = TRUE]
  <2>1. row \in Row /\ row.type = cases[c].type
    <3>1. cases[c] \in Row
      BY RowsAreRows DEF Typed
    <3> QED
      BY <3>1 DEF Row
  <2>2. cases' = [cases EXCEPT ![c] = row]
    BY <1>2 DEF GraceElapses
  <2> QED
    BY <1>2, <2>1, <2>2, TimedRowTyped DEF GraceElapses
<1>3. ASSUME UNCHANGED <<cases, task, raised, grounds, asked, effort, lifted, edited,
                         later, faults>>,
             mirror' \in [Holding -> {0} \cup Cases],
             discord' \in [Holding -> {0} \cup Cases], present' \in BOOLEAN
      PROVE  Typed'
  <2>1. Extends(cases') /\ Cases' = Cases
    BY <1>3, Untouched DEF Typed
  <2> QED
    BY <1>3, <2>1, NoTaskMoves DEF Typed, TypeOK
<1>4. ASSUME NEW h \in Holding, MirrorLapses(h) PROVE Typed'
  BY <1>3, <1>4 DEF MirrorLapses, Typed, TypeOK
<1>5. CASE TimeoutLapses
  BY <1>3, <1>5 DEF TimeoutLapses, Typed, TypeOK
<1>6. CASE Rejoin
  BY <1>3, <1>6 DEF Rejoin, Typed, TypeOK
<1> QED
  BY <1>1, <1>2, <1>4, <1>5, <1>6 DEF Environment

LEMMA CrashTyped ==
    ASSUME Typed, NEW t \in Task, Crash(t)
    PROVE  Typed'
<1>1. faults' \in 0..MaxFaults
  BY EnforcementAssumption DEF Crash, Typed, TypeOK
<1> QED
  BY <1>1, IdleIsFine, QuietStepTyped DEF Typed, TypeOK, Crash

LEMMA InitTyped == Init => Typed
<1> SUFFICES ASSUME Init PROVE Typed
  OBVIOUS
<1>1. cases = <<>> /\ Cases = {}
  BY EmptySeq DEF Init, Cases
<1>2. cases \in Seq(Row) /\ Len(cases) = 0
  BY <1>1
<1>3. TypeOK
  BY <1>1, <1>2, IdleIsFine, EnforcementAssumption DEF Init, TypeOK
<1>4. TaskInv
  BY IdleIsFine DEF Init, TaskInv
<1> QED
  BY <1>3, <1>4 DEF Typed

LEMMA NextTyped == Typed /\ [Next]_vars => Typed'
<1> SUFFICES ASSUME Typed, [Next]_vars PROVE Typed'
  OBVIOUS
<1>1. ASSUME NEW t \in Staff, Request(t) PROVE Typed'
  BY <1>1, applyActionTyped, recordDiscordActionTyped, retryEnforcementTyped,
     voidActionTyped, updateActionTyped DEF Request
<1>2. ASSUME NEW c \in Cases, NEW status \in EnforcementStatus \ {"PENDING"},
             setEnforcementManually(c, status)
      PROVE  Typed'
  BY <1>2, setEnforcementManuallyTyped
<1>3. ASSUME NEW t \in Task, EnforceStep(t) PROVE Typed'
  BY <1>3, MirrorTyped, DiscordTyped, GameTyped, StampTyped, alertStaffTyped DEF EnforceStep
<1>4. ASSUME NEW t \in Staff, VoidStep(t) PROVE Typed'
  BY <1>4, VoidLiftTyped, VoidMarkTyped, RemirrorTyped DEF VoidStep
<1>5. CASE SweepStep
  BY <1>5, settleStalePendingTyped, SettleNextTyped, reverseExpiredTyped, ReverseNextTyped,
     deactivateExpiredTyped DEF SweepStep
<1>6. CASE Environment
  BY <1>6, EnvironmentTyped
<1>7. ASSUME NEW t \in Task, Crash(t) PROVE Typed'
  BY <1>7, CrashTyped
<1>8. CASE UNCHANGED vars
  <2>1. Extends(cases') /\ Cases' = Cases
    BY <1>8, Untouched DEF Typed, vars
  <2> QED
    BY <1>8, <2>1, NoTaskMoves DEF Typed, TypeOK, vars
<1> QED
  BY <1>1, <1>2, <1>3, <1>4, <1>5, <1>6, <1>7, <1>8 DEF Next

\* Every variable keeps its type, and no task, mirror key or Discord hold ever
\* names a case that is not in the log, whatever staff, the sweep, crashes and
\* failed writes do to the service in service.ts.
THEOREM TypeCorrectness == Spec => []TypeOK
<1>1. Typed => TypeOK
  BY DEF Typed
<1> QED
  BY InitTyped, NextTyped, <1>1, PTL DEF Spec

----------------------------------------------------------------------------
(* Counts and grounds: what is kept when most steps run.                   *)

Sound == CountsInv /\ GroundsInv

\* Old rows keep what the invariants speak of, and new rows are fresh.
Kept ==
    /\ Cases \subseteq Cases'
    /\ \A c \in Cases : /\ cases'[c].attempts = cases[c].attempts
                        /\ cases'[c].enforcement = cases[c].enforcement
    /\ \A c \in Cases' \ Cases : /\ cases'[c].attempts = 0
                                 /\ cases'[c].enforcement = "PENDING"

Growing ==
    /\ \A c \in CaseId : asked[c] <= asked'[c]
    /\ grounds \subseteq grounds'

LEMMA RowsStaySound ==
    ASSUME Typed, Typed', Sound, Kept, Growing
    PROVE  AttemptsAreReal' /\ ConfirmedHasGrounds'
<1>1. \A c \in Cases' : c \in CaseId /\ asked'[c] \in Nat /\ asked[c] \in Nat
  <2>1. Cases' \subseteq CaseId /\ \A c \in CaseId : asked'[c] \in Nat
    <3>1. Len(cases') \in Nat /\ Len(cases') <= MaxCases /\ MaxCases \in Nat
      BY EnforcementAssumption DEF Typed, TypeOK
    <3>2. Cases' \subseteq CaseId
      BY <3>1 DEF Cases, CaseId
    <3>3. asked' \in [CaseId -> Nat]
      BY DEF Typed, TypeOK
    <3> QED
      BY <3>2, <3>3
  <2>2. \A c \in CaseId : asked[c] \in Nat
    BY CasesCount DEF Typed
  <2> QED
    BY <2>1, <2>2
<1>2. AttemptsAreReal'
  <2> SUFFICES ASSUME NEW c \in Cases' PROVE cases'[c].attempts <= asked'[c]
    BY DEF AttemptsAreReal
  <2>1. CASE c \in Cases
    <3>1. cases[c] \in Row
      BY <2>1, RowsAreRows DEF Typed
    <3>2. cases[c].attempts <= asked[c] /\ asked[c] <= asked'[c] /\ cases[c].attempts \in Nat
      BY <1>1, <2>1, <3>1 DEF Sound, CountsInv, AttemptsAreReal, Growing, Row
    <3> QED
      BY <1>1, <2>1, <3>2 DEF Kept
  <2>2. CASE c \notin Cases
    BY <1>1, <2>2 DEF Kept
  <2> QED
    BY <2>1, <2>2
<1>3. ConfirmedHasGrounds'
  BY DEF Sound, GroundsInv, ConfirmedHasGrounds, Kept, Growing
<1> QED
  BY <1>2, <1>3

LEMMA IdleIsSound == ASSUME NEW a, NEW g PROVE Counts(Idle, a) /\ Grounded(Idle, g)
  BY DEF Counts, Grounded, Idle

\* What a task carries stays true while counts and grounds grow.
LEMMA OtherTasksStaySound ==
    ASSUME Typed, Typed', Sound, Growing, NEW u \in Task
    PROVE  Counts(task[u], asked') /\ Grounded(task[u], grounds')
<1>1. task[u] \in TaskState /\ Refers(task[u], cases)
  BY TaskHere
<1>2. \A c \in Cases : c \in CaseId /\ asked'[c] \in Nat /\ asked[c] \in Nat
                       /\ asked[c] <= asked'[c]
  <2>1. Cases \subseteq CaseId /\ \A c \in CaseId : asked[c] \in Nat
    BY CasesCount DEF Typed
  <2>2. asked' \in [CaseId -> Nat]
    BY DEF Typed, TypeOK
  <2> QED
    BY <2>1, <2>2 DEF Growing
<1>3. Counts(task[u], asked) /\ Grounded(task[u], grounds)
  BY DEF Sound, CountsInv, GroundsInv
<1>4. Counts(task[u], asked')
  <2>1. task[u].base \in Nat
    BY <1>1 DEF TaskState
  <2>2. task[u].pc \in Enforced => task[u].case \in Cases
    BY <1>1 DEF Refers, Cases
  <2>3. \A row \in task[u].todo : row.id \in Cases /\ row.attempts \in Nat
    BY <1>1 DEF Refers, TaskState, Cases
  <2> QED
    BY <1>2, <1>3, <2>1, <2>2, <2>3 DEF Counts, Enforced
<1> QED
  BY <1>3, <1>4 DEF Grounded, Growing

LEMMA OneTaskSound ==
    ASSUME Typed, Typed', Sound, Growing, NEW t \in Task, NEW k,
           task' = [task EXCEPT ![t] = k],
           Counts(k, asked'), Grounded(k, grounds')
    PROVE  \A u \in Task : Counts(task'[u], asked') /\ Grounded(task'[u], grounds')
<1> TAKE u \in Task
<1>1. CASE u = t
  BY <1>1 DEF Typed, TypeOK
<1>2. CASE u # t
  <2>1. task'[u] = task[u]
    BY <1>2 DEF Typed, TypeOK
  <2> QED
    BY <2>1, OtherTasksStaySound
<1> QED
  BY <1>1, <1>2

\* A step that keeps the rows and moves one task.
LEMMA OrdinaryStep ==
    ASSUME Typed, Typed', Sound, Kept, Growing, NEW t \in Task, NEW k,
           task' = [task EXCEPT ![t] = k],
           Counts(k, asked'), Grounded(k, grounds')
    PROVE  Sound'
<1>1. AttemptsAreReal' /\ ConfirmedHasGrounds'
  BY RowsStaySound
<1>2. \A u \in Task : Counts(task'[u], asked') /\ Grounded(task'[u], grounds')
  BY OneTaskSound
<1> QED
  BY <1>1, <1>2 DEF Sound, CountsInv, GroundsInv

LEMMA CreationKeeps ==
    ASSUME TypeOK, NEW type \in ModActionType, NEW clock \in Clock,
           createAction(type, clock)
    PROVE  Kept
<1>1. /\ Extends(cases') /\ Len(cases') = Len(cases) + 1
      /\ cases'[NextId] = NewRow(type, clock)
      /\ \A c \in Cases : cases'[c] = cases[c]
  BY Creation
<1>2. Cases' \ Cases = {NextId} /\ Cases \subseteq Cases'
  BY <1>1 DEF Cases, NextId, TypeOK
<1> QED
  BY <1>1, <1>2 DEF Kept, NewRow

LEMMA UnchangedKeeps ==
    ASSUME UNCHANGED cases PROVE Kept
  BY DEF Kept, Cases

LEMMA UnchangedGrows ==
    ASSUME TypeOK, UNCHANGED <<asked, grounds>> PROVE Growing
  BY DEF Growing, TypeOK

----------------------------------------------------------------------------
(* Counts, grounds and voids, step by step.                                *)

LEMMA EnforcingIsSound ==
    ASSUME NEW k \in TaskState, NEW op, NEW c, NEW base, NEW a, NEW g,
           base <= a[c], \A row \in k.todo : row.attempts <= a[row.id]
    PROVE  Counts(Enforcing(k, op, c, base), a) /\ Grounded(Enforcing(k, op, c, base), g)
  BY DEF Counts, Grounded, Enforcing, TaskState

LEMMA AfterStampIsSound ==
    ASSUME NEW k \in TaskState, NEW status, NEW a, NEW g,
           \A row \in k.todo : row.attempts <= a[row.id]
    PROVE  /\ Counts(Resume(k), a) /\ Grounded(Resume(k), g)
           /\ Counts(AfterStamp(k, status), a) /\ Grounded(AfterStamp(k, status), g)
<1>1. \A pc \in {"mark", "alert"} :
         Counts([k EXCEPT !.pc = pc], a) /\ Grounded([k EXCEPT !.pc = pc], g)
  BY DEF Counts, Grounded, TaskState
<1> DEFINE n == [k EXCEPT !.pc = "next", !.case = 0, !.base = 0, !.d = "none", !.g = "none"]
<1>2. Counts(n, a) /\ Grounded(n, g)
  BY DEF Counts, Grounded, TaskState
<1>3. Resume(k) \in {Idle, n, [k EXCEPT !.pc = "mark"]}
  BY DEF Resume
<1>4. AfterStamp(k, status) \in {Resume(k), [k EXCEPT !.pc = "alert"]}
  BY DEF AfterStamp
<1> QED
  BY <1>1, <1>2, <1>3, <1>4, IdleIsSound

LEMMA TaskIsSound ==
    ASSUME Sound, NEW t \in Task
    PROVE  Counts(task[t], asked) /\ Grounded(task[t], grounds)
  BY DEF Sound, CountsInv, GroundsInv

LEMMA RequestSound ==
    ASSUME Typed, Typed', Sound, NEW t \in Staff, Request(t)
    PROVE  Sound'
<1>1. asked[NextId] \in Nat \/ NextId \notin CaseId
  BY DEF Typed, TypeOK
<1>2. ASSUME NEW type \in StaffTypes, NEW clock \in StaffClocks, applyAction(t, type, clock)
      PROVE  Sound'
  <2>1. createAction(type, clock) /\ type \in ModActionType /\ clock \in Clock /\ TypeOK
    BY <1>2, EnforcementAssumption DEF applyAction, Clock, Typed
  <2>2. Kept /\ Growing /\ asked[NextId] \in Nat
    BY <1>1, <1>2, <2>1, Creation, CreationKeeps, UnchangedGrows DEF applyAction
  <2>3. Counts(Enforcing(Idle, "apply", NextId, 0), asked)
        /\ Grounded(Enforcing(Idle, "apply", NextId, 0), grounds)
    <3>1. 0 <= asked[NextId] /\ Idle \in TaskState /\ Idle.todo = {}
      BY <2>2, IdleIsFine DEF Idle
    <3> QED
      BY <3>1, EnforcingIsSound
  <2> QED
    BY <1>2, <2>2, <2>3, OrdinaryStep DEF applyAction
<1>3. ASSUME NEW type \in StaffTypes, recordDiscordAction(t, type)
      PROVE  Sound'
  <2>1. createAction(type, "none") /\ type \in ModActionType /\ "none" \in Clock /\ TypeOK
    BY <1>3, EnforcementAssumption DEF recordDiscordAction, Clock, Typed
  <2>2. Kept /\ Growing /\ asked[NextId] \in Nat
    BY <1>1, <1>3, <2>1, Creation, CreationKeeps, UnchangedGrows DEF recordDiscordAction
  <2>3. Counts(Enforcing(Idle, "adopt", NextId, 0), asked)
        /\ Grounded(Enforcing(Idle, "adopt", NextId, 0), grounds)
    <3>1. 0 <= asked[NextId] /\ Idle \in TaskState /\ Idle.todo = {}
      BY <2>2, IdleIsFine DEF Idle
    <3> QED
      BY <3>1, EnforcingIsSound
  <2> QED
    BY <1>3, <2>2, <2>3, OrdinaryStep DEF recordDiscordAction
<1>4. ASSUME NEW c \in Cases, retryEnforcement(t, c)
      PROVE  Sound'
  <2>1. Kept /\ Growing
    BY <1>4, UnchangedKeeps, UnchangedGrows DEF retryEnforcement, Typed
  <2>2. cases[c].attempts <= asked[c] /\ Idle \in TaskState /\ Idle.todo = {}
    BY IdleIsFine DEF Sound, CountsInv, AttemptsAreReal, Idle
  <2>3. Counts(Enforcing(Idle, "retry", c, cases[c].attempts), asked)
        /\ Grounded(Enforcing(Idle, "retry", c, cases[c].attempts), grounds)
    BY <2>2, EnforcingIsSound
  <2> QED
    BY <1>4, <2>1, <2>3, OrdinaryStep DEF retryEnforcement
<1>5. ASSUME NEW c \in Cases, voidAction(t, c)
      PROVE  Sound'
  <2> DEFINE k == [Idle EXCEPT !.op = "void", !.subject = c,
                               !.pc = IF isInForce(cases[c]) THEN "lift" ELSE "mark"]
  <2>1. Kept /\ Growing
    BY <1>5, UnchangedKeeps, UnchangedGrows DEF voidAction, Typed
  <2>2. Counts(k, asked) /\ Grounded(k, grounds)
    BY DEF Counts, Grounded, Idle
  <2> QED
    BY <1>5, <2>1, <2>2, OrdinaryStep DEF voidAction
<1>6. ASSUME NEW c \in Cases, NEW clock \in Clock, updateAction(t, c, clock)
      PROVE  Sound'
  <2> DEFINE row == [cases[c] EXCEPT !.clock = clock]
             k == [Idle EXCEPT !.op = "edit", !.subject = c, !.pc = "remirror"]
  <2>1. cases[c] \in Row /\ TypeOK
    BY RowsAreRows DEF Typed
  <2>2. row \in Row /\ row.type = cases[c].type /\ row.attempts = cases[c].attempts
        /\ row.enforcement = cases[c].enforcement /\ row.voided = cases[c].voided
        /\ row.active = cases[c].active
    BY <2>1 DEF Row
  <2>3. cases' = [cases EXCEPT ![c] = row] /\ task' = [task EXCEPT ![t] = k]
        /\ UNCHANGED <<asked, grounds>>
    BY <1>6 DEF updateAction
  <2>4. Kept /\ Growing
    <3>1. Cases' = Cases /\ \A b \in Cases : cases'[b] = IF b = c THEN row ELSE cases[b]
      BY <2>1, <2>2, <2>3, Rewriting
    <3> QED
      BY <2>1, <2>2, <2>3, <3>1, UnchangedGrows DEF Kept
  <2>5. Counts(k, asked) /\ Grounded(k, grounds)
    BY DEF Counts, Grounded, Idle
  <2> QED
    BY <2>3, <2>4, <2>5, OrdinaryStep
<1> QED
  BY <1>2, <1>3, <1>4, <1>5, <1>6 DEF Request

LEMMA MirrorSound ==
    ASSUME Typed, Typed', Sound, NEW t \in Task, Mirror(t)
    PROVE  Sound'
<1> DEFINE k == [task[t] EXCEPT
                    !.pc = IF task[t].op = "adopt" THEN "game" ELSE "discord",
                    !.d = IF task[t].op = "adopt" THEN "ok" ELSE "none"]
<1>1. task[t] \in TaskState /\ task[t].pc = "mirror" /\ TypeOK
  BY TaskHere DEF Mirror, Typed
<1>2. task' = [task EXCEPT ![t] = k] /\ UNCHANGED <<cases, asked, grounds>>
  BY <1>1 DEF Mirror, TypeOK
<1>3. Kept /\ Growing
  BY <1>1, <1>2, UnchangedKeeps, UnchangedGrows
<1>4. Counts(k, asked) /\ Grounded(k, grounds)
  BY <1>1, TaskIsSound DEF Counts, Grounded, TaskState
<1> QED
  BY <1>2, <1>3, <1>4, OrdinaryStep

LEMMA DiscordSound ==
    ASSUME Typed, Typed', Sound, NEW t \in Task, Discord(t)
    PROVE  Sound'
<1>1. task[t] \in TaskState /\ task[t].pc = "discord" /\ TypeOK
      /\ UNCHANGED <<cases, asked, grounds>>
  BY TaskHere DEF Discord, Typed
<1>2. PICK d \in {"ok", "failed"} : task' = [task EXCEPT ![t].pc = "game", ![t].d = d]
  BY DEF Discord
<1> DEFINE k == [task[t] EXCEPT !.pc = "game", !.d = d]
<1>3. task' = [task EXCEPT ![t] = k]
  BY <1>1, <1>2 DEF TypeOK
<1>4. Kept /\ Growing
  BY <1>1, UnchangedKeeps, UnchangedGrows
<1>5. Counts(k, asked) /\ Grounded(k, grounds)
  BY <1>1, TaskIsSound DEF Counts, Grounded, TaskState
<1> QED
  BY <1>1, <1>3, <1>4, <1>5, OrdinaryStep

LEMMA GameSound ==
    ASSUME Typed, Typed', Sound, NEW t \in Task, Game(t)
    PROVE  Sound'
<1> DEFINE c == task[t].case
<1>1. task[t] \in TaskState /\ Refers(task[t], cases) /\ task[t].pc = "game" /\ TypeOK
  BY TaskHere DEF Game, Typed
<1>2. c \in CaseId /\ asked[c] \in Nat /\ task[t].base \in Nat
  BY <1>1, EnforcementAssumption DEF Refers, Enforced, CaseId, TypeOK, TaskState
<1>3. PICK receipt \in GuildAnswers :
         /\ task' = [task EXCEPT ![t].pc = "stamp", ![t].g = receipt]
         /\ grounds' = IF task[t].d = "ok" /\ receipt \in {"confirmed", "skipped"}
                       THEN grounds \cup {c} ELSE grounds
  BY DEF Game
<1>4. asked' = [asked EXCEPT ![c] = asked[c] + 1] /\ UNCHANGED cases
  BY DEF Game
<1> DEFINE k == [task[t] EXCEPT !.pc = "stamp", !.g = receipt]
<1>5. k.pc = "stamp" /\ k.g = receipt /\ k.d = task[t].d /\ k.base = task[t].base
      /\ k.case = c /\ k.todo = task[t].todo
  BY <1>1 DEF TaskState
<1>6. task' = [task EXCEPT ![t] = k]
  BY <1>1, <1>3 DEF TypeOK
<1>7. Kept
  BY <1>4, UnchangedKeeps
<1>8. Growing
  BY <1>1, <1>2, <1>3, <1>4 DEF Growing, TypeOK
<1>9. Counts(k, asked')
  <2>1. Counts(task[t], asked')
    BY <1>8, OtherTasksStaySound
  <2>2. task[t].base <= asked[c]
    BY <1>1, TaskIsSound DEF Counts
  <2>3. asked'[c] = asked[c] + 1
    BY <1>1, <1>2, <1>4 DEF TypeOK
  <2> QED
    BY <1>2, <1>5, <2>1, <2>2, <2>3 DEF Counts
<1>10. Grounded(k, grounds')
  <2>1. k.d \in {"ok", "failed"}
    BY <1>1, <1>5, TaskIsSound DEF Grounded
  <2>2. receipt \in {"confirmed", "refused", "pending", "skipped"}
    BY EnforcementAssumption
  <2> QED
    BY <1>3, <1>5, <2>1, <2>2 DEF Grounded, Verdict
<1> QED
  BY <1>6, <1>7, <1>8, <1>9, <1>10, OrdinaryStep

LEMMA StampSound ==
    ASSUME Typed, Typed', Sound, NEW t \in Task, Stamp(t)
    PROVE  Sound'
<1> DEFINE k == task[t]
           status == Verdict(k.d, k.g)
           row == [cases[k.case] EXCEPT !.enforcement = status,
                                        !.attempts = k.base + 1, !.quiet = FALSE]
<1>1. TypeOK /\ k \in TaskState /\ k.pc = "stamp" /\ UNCHANGED <<asked, grounds>>
  BY TaskHere DEF Typed, Stamp
<1>2. Growing
  BY <1>1, UnchangedGrows
<1>3. Counts(k, asked) /\ Grounded(k, grounds)
  BY TaskIsSound
<1>4. /\ k.case \in Cases
      /\ row \in Row /\ row.type = cases[k.case].type
      /\ UNCHANGED cases \/ cases' = [cases EXCEPT ![k.case] = row]
      /\ task' = [task EXCEPT ![t] = AfterStamp(k, status)]
  BY StampedRow
<1>5. Counts(AfterStamp(k, status), asked') /\ Grounded(AfterStamp(k, status), grounds')
  BY <1>1, <1>3, AfterStampIsSound DEF Counts
<1>6. CASE UNCHANGED cases
  <2>1. Kept
    BY <1>6, UnchangedKeeps
  <2> QED
    BY <1>2, <1>4, <1>5, <2>1, OrdinaryStep
<1>7. CASE cases' = [cases EXCEPT ![k.case] = row]
  <2>1. cases[k.case] \in Row /\ k.base \in Nat /\ asked[k.case] \in Nat
    <3>1. cases[k.case] \in Row
      BY <1>1, <1>4, RowsAreRows
    <3>2. k.base \in Nat
      BY <1>1 DEF TaskState
    <3> QED
      BY <1>1, <1>4, <3>1, <3>2, CasesCount
  <2>2. row.attempts = k.base + 1 /\ row.enforcement = status
        /\ row.voided = cases[k.case].voided /\ row.active = cases[k.case].active
    <3>1. ASSUME NEW r \in Row, NEW s, NEW m
          PROVE  LET n == [r EXCEPT !.enforcement = s, !.attempts = m, !.quiet = FALSE]
                 IN  /\ n.attempts = m /\ n.enforcement = s
                     /\ n.voided = r.voided /\ n.active = r.active
      BY DEF Row
    <3> QED
      BY <2>1, <3>1
  <2>3. Cases' = Cases /\ \A b \in Cases : cases'[b] = IF b = k.case THEN row ELSE cases[b]
    BY <1>1, <1>4, <1>7, Rewriting
  <2>4. k.base < asked[k.case] /\ (status = "CONFIRMED" => k.case \in grounds)
    BY <1>1, <1>3 DEF Counts, Grounded
  <2>5. AttemptsAreReal'
    <3> SUFFICES ASSUME NEW c \in Cases' PROVE cases'[c].attempts <= asked'[c]
      BY DEF AttemptsAreReal
    <3>1. CASE c = k.case
      <4>1. cases'[c].attempts = k.base + 1 /\ asked'[c] = asked[k.case]
        BY <1>1, <1>4, <2>2, <2>3, <3>1
      <4> QED
        BY <2>1, <2>4, <4>1
    <3>2. CASE c # k.case
      BY <1>1, <2>3, <3>2 DEF AttemptsAreReal, Sound, CountsInv
    <3> QED
      BY <3>1, <3>2
  <2>6. ConfirmedHasGrounds'
    BY <1>1, <1>4, <2>2, <2>3, <2>4 DEF ConfirmedHasGrounds, Sound, GroundsInv
  <2>7. \A u \in Task : Counts(task'[u], asked') /\ Grounded(task'[u], grounds')
    BY <1>2, <1>4, <1>5, OneTaskSound
  <2> QED
    BY <2>5, <2>6, <2>7 DEF Sound, CountsInv, GroundsInv
<1> QED
  BY <1>4, <1>6, <1>7

LEMMA alertStaffSound ==
    ASSUME Typed, Typed', Sound, NEW t \in Task, alertStaff(t)
    PROVE  Sound'
<1>1. TypeOK /\ task[t] \in TaskState /\ UNCHANGED <<cases, asked, grounds>>
      /\ task' = [task EXCEPT ![t] = Resume(task[t])]
  BY TaskHere DEF Typed, alertStaff
<1>2. Kept /\ Growing
  BY <1>1, UnchangedKeeps, UnchangedGrows
<1>3. Counts(Resume(task[t]), asked) /\ Grounded(Resume(task[t]), grounds)
  BY <1>1, TaskIsSound, AfterStampIsSound DEF Counts
<1> QED
  BY <1>1, <1>2, <1>3, OrdinaryStep

\* A step that rewrites one row, soundly.
LEMMA RewritingStep ==
    ASSUME Typed, Typed', Sound, Growing, UNCHANGED asked,
           NEW c \in Cases, NEW row \in Row, row.type = cases[c].type,
           cases' = [cases EXCEPT ![c] = row],
           row.attempts = cases[c].attempts,
           row.enforcement = "CONFIRMED" => c \in grounds',
           \A u \in Task : Counts(task'[u], asked') /\ Grounded(task'[u], grounds')
    PROVE  Sound'
<1>1. Cases' = Cases /\ \A b \in Cases : cases'[b] = IF b = c THEN row ELSE cases[b]
  BY Rewriting DEF Typed
<1>2. AttemptsAreReal'
  BY <1>1 DEF AttemptsAreReal, Sound, CountsInv
<1>3. ConfirmedHasGrounds'
  BY <1>1 DEF ConfirmedHasGrounds, Sound, GroundsInv, Growing
<1> QED
  BY <1>2, <1>3 DEF Sound, CountsInv, GroundsInv

LEMMA setEnforcementManuallySound ==
    ASSUME Typed, Typed', Sound, NEW c \in Cases, NEW status \in EnforcementStatus,
           setEnforcementManually(c, status)
    PROVE  Sound'
<1> DEFINE row == [cases[c] EXCEPT !.enforcement = status]
<1>1. cases[c] \in Row /\ TypeOK
  BY RowsAreRows DEF Typed
<1>2. row \in Row /\ row.type = cases[c].type /\ row.attempts = cases[c].attempts
      /\ row.voided = cases[c].voided /\ row.active = cases[c].active
  BY <1>1 DEF Row
<1>3. cases' = [cases EXCEPT ![c] = row] /\ grounds' = grounds \cup {c}
      /\ UNCHANGED <<asked, task>>
  BY DEF setEnforcementManually
<1>4. Growing
  BY <1>1, <1>3 DEF Growing, TypeOK
<1>5. \A u \in Task : Counts(task'[u], asked') /\ Grounded(task'[u], grounds')
  BY <1>3, <1>4, OtherTasksStaySound
<1> QED
  BY <1>2, <1>3, <1>4, <1>5, RewritingStep

LEMMA VoidStepSound ==
    ASSUME Typed, Typed', Sound, NEW t \in Staff, VoidStep(t)
    PROVE  Sound'
<1> DEFINE c == task[t].subject
<1>1. TypeOK /\ task[t] \in TaskState /\ Refers(task[t], cases)
      /\ Counts(task[t], asked) /\ Grounded(task[t], grounds)
  BY TaskHere, TaskIsSound DEF Typed
<1>2. CASE VoidLift(t)
  <2> DEFINE type == REVERSALS[cases[c].type]
  <2>1. task[t].pc = "lift" /\ holdsEnforcement(cases[c].type)
    BY <1>1, <1>2 DEF VoidLift, Refers
  <2>2. createAction(type, "none") /\ type \in ModActionType /\ "none" \in Clock
    BY <1>2, <2>1
    DEF VoidLift, REVERSALS, holdsEnforcement, ModActionType, Holding, Lifting, Clock
  <2>3. Kept /\ Growing /\ asked[NextId] \in Nat
    BY <1>1, <1>2, <2>2, Creation, CreationKeeps, UnchangedGrows DEF VoidLift, TypeOK
  <2>4. Counts(Enforcing(task[t], "void", NextId, 0), asked)
        /\ Grounded(Enforcing(task[t], "void", NextId, 0), grounds)
    <3>1. 0 <= asked[NextId] /\ \A row \in task[t].todo : row.attempts <= asked[row.id]
      BY <1>1, <2>3 DEF Counts
    <3> QED
      BY <1>1, <3>1, EnforcingIsSound
  <2> QED
    BY <1>2, <2>3, <2>4, OrdinaryStep DEF VoidLift
<1>3. CASE VoidMark(t)
  <2> DEFINE k == [task[t] EXCEPT !.pc = "remirror"]
             row == Withdrawn(cases[c])
  <2>1. c \in Cases
    BY <1>1, <1>3 DEF VoidMark, Refers, Cases
  <2>2. cases[c] \in Row
    BY <1>1, <2>1, RowsAreRows
  <2>3. row \in Row /\ row.type = cases[c].type /\ row.attempts = cases[c].attempts
        /\ row.enforcement = cases[c].enforcement /\ ~row.active
    BY <2>2 DEF Row, Withdrawn
  <2>4. cases' = [cases EXCEPT ![c] = row] /\ task' = [task EXCEPT ![t] = k]
        /\ UNCHANGED <<asked, grounds>>
    BY <1>1, <1>3 DEF VoidMark, TypeOK
  <2>5. Growing
    BY <1>1, <2>4, UnchangedGrows
  <2>6. Counts(k, asked') /\ Grounded(k, grounds')
    BY <1>1, <2>4 DEF Counts, Grounded, TaskState
  <2>7. \A u \in Task : Counts(task'[u], asked') /\ Grounded(task'[u], grounds')
    BY <2>4, <2>5, <2>6, OneTaskSound
  <2>8. row.enforcement = "CONFIRMED" => c \in grounds'
    BY <2>1, <2>3, <2>4 DEF Sound, GroundsInv, ConfirmedHasGrounds
  <2> QED
    BY <2>1, <2>3, <2>4, <2>5, <2>7, <2>8, RewritingStep
<1>4. CASE Remirror(t)
  <2>1. Kept /\ Growing
    BY <1>1, <1>4, UnchangedKeeps, UnchangedGrows DEF Remirror
  <2> QED
    BY <1>4, <2>1, IdleIsSound, OrdinaryStep DEF Remirror
<1> QED
  BY <1>2, <1>3, <1>4 DEF VoidStep

LEMMA PageIsSound ==
    ASSUME Typed, Sound, NEW ids \in SUBSET Cases
    PROVE  \A row \in Page(ids) : row.attempts <= asked[row.id]
  BY PageIsTyped DEF Sound, CountsInv, AttemptsAreReal

LEMMA SweepStepSound ==
    ASSUME Typed, Typed', Sound, SweepStep
    PROVE  Sound'
<1> DEFINE k == task[Sweeper]
<1>1. TypeOK /\ k \in TaskState /\ Refers(k, cases)
      /\ Counts(k, asked) /\ Grounded(k, grounds)
  BY TaskHere, TaskIsSound DEF Typed
<1>2. CASE settleStalePending
  <2> DEFINE n == [Idle EXCEPT !.op = "settle", !.pc = "next",
                               !.todo = Page(listStalePending)]
  <2>1. Kept /\ Growing
    BY <1>1, <1>2, UnchangedKeeps, UnchangedGrows DEF settleStalePending
  <2>2. \A row \in Page(listStalePending) : row.attempts <= asked[row.id]
    BY PageIsSound DEF listStalePending
  <2>3. Counts(n, asked) /\ Grounded(n, grounds)
    BY <2>2 DEF Counts, Grounded, Idle
  <2> QED
    BY <1>2, <2>1, <2>3, OrdinaryStep DEF settleStalePending
<1>3. CASE SettleNext
  <2>1. PICK row \in k.todo :
         LET rest == [k EXCEPT !.todo = @ \ {row}] IN
         /\ row.id \in Cases
         /\ rest \in TaskState /\ rest.todo \subseteq k.todo
         /\ rest.op = "settle" /\ rest.pc = "next"
         /\ \/ /\ ~outOfAttempts(row)
               /\ task' = [task EXCEPT ![Sweeper] =
                              Enforcing(rest, "settle", row.id, row.attempts)]
               /\ effort' = [effort EXCEPT ![row.id] = @ + 1]
               /\ UNCHANGED <<cases, raised, faults>>
            \/ /\ outOfAttempts(row)
               /\ task' = [task EXCEPT ![Sweeper] =
                              [rest EXCEPT !.pc = "alert", !.case = row.id]]
               /\ \/ UNCHANGED <<cases, raised>>
                  \/ /\ cases' = [cases EXCEPT ![row.id] =
                                     [cases[row.id] EXCEPT !.enforcement = "FAILED"]]
                     /\ raised' = raised \ {row.id}
               /\ faults' \in 0..MaxFaults
               /\ UNCHANGED effort
    BY <1>3, SettledRow
  <2> DEFINE rest == [k EXCEPT !.todo = @ \ {row}]
  <2>2. UNCHANGED <<asked, grounds>> /\ Growing
    BY <1>1, <1>3, UnchangedGrows DEF SettleNext
  <2>3. \A r \in k.todo : r.attempts <= asked[r.id]
    BY <1>1 DEF Counts
  <2>4. CASE ~outOfAttempts(row)
    <3>1. Kept /\ task' = [task EXCEPT ![Sweeper] =
                              Enforcing(rest, "settle", row.id, row.attempts)]
      BY <2>1, <2>4, UnchangedKeeps
    <3>2. Counts(Enforcing(rest, "settle", row.id, row.attempts), asked)
          /\ Grounded(Enforcing(rest, "settle", row.id, row.attempts), grounds)
      BY <2>1, <2>3, EnforcingIsSound
    <3> QED
      BY <2>2, <3>1, <3>2, OrdinaryStep
  <2>5. CASE outOfAttempts(row)
    <3> DEFINE n == [rest EXCEPT !.pc = "alert", !.case = row.id]
               failed == [cases[row.id] EXCEPT !.enforcement = "FAILED"]
    <3>1. task' = [task EXCEPT ![Sweeper] = n]
          /\ (UNCHANGED cases \/ cases' = [cases EXCEPT ![row.id] = failed])
      BY <2>1, <2>5
    <3>2. n.pc = "alert" /\ n.todo = rest.todo
      BY <2>1 DEF TaskState
    <3>3. Counts(n, asked') /\ Grounded(n, grounds')
      BY <2>1, <2>2, <2>3, <3>2 DEF Counts, Grounded
    <3>4. CASE UNCHANGED cases
      BY <2>2, <3>1, <3>3, <3>4, UnchangedKeeps, OrdinaryStep
    <3>5. CASE cases' = [cases EXCEPT ![row.id] = failed]
      <4>1. cases[row.id] \in Row
        BY <1>1, <2>1, RowsAreRows
      <4>2. failed \in Row /\ failed.type = cases[row.id].type
            /\ failed.attempts = cases[row.id].attempts /\ failed.enforcement = "FAILED"
            /\ failed.voided = cases[row.id].voided /\ failed.active = cases[row.id].active
        BY <4>1 DEF Row, EnforcementStatus
      <4>3. \A u \in Task : Counts(task'[u], asked') /\ Grounded(task'[u], grounds')
        BY <2>2, <3>1, <3>3, OneTaskSound
      <4> QED
        BY <2>1, <2>2, <3>5, <4>2, <4>3, RewritingStep
    <3> QED
      BY <3>1, <3>4, <3>5
  <2> QED
    BY <2>4, <2>5
<1>4. CASE reverseExpired
  <2>1. PICK page \in kSubset(Min({SweepLimit, Cardinality(ExpiredActive)}), ExpiredActive) :
         task' = [task EXCEPT ![Sweeper] =
                     [Idle EXCEPT !.op = "reverse", !.pc = "next",
                                  !.todo = Page(page)]]
    BY <1>4 DEF reverseExpired
  <2> DEFINE n == [Idle EXCEPT !.op = "reverse", !.pc = "next",
                               !.todo = Page(page)]
  <2>2. Kept /\ Growing /\ UNCHANGED <<asked, grounds>>
    BY <1>1, <1>4, UnchangedKeeps, UnchangedGrows DEF reverseExpired
  <2>3. page \subseteq Cases
    BY DEF kSubset, ExpiredActive
  <2>4. \A row \in Page(page) : row.attempts <= asked[row.id]
    BY <2>3, PageIsSound
  <2>5. Counts(n, asked) /\ Grounded(n, grounds)
    BY <2>4 DEF Counts, Grounded, Idle
  <2> QED
    BY <2>1, <2>2, <2>5, OrdinaryStep
<1>5. CASE ReverseNext
  <2>1. PICK row \in k.todo :
         /\ createAction(REVERSALS[cases[row.id].type], "none")
         /\ task' = [task EXCEPT ![Sweeper] =
               Enforcing([k EXCEPT !.todo = @ \ {row}], "reverse", NextId, 0)]
    BY <1>5 DEF ReverseNext
  <2> DEFINE type == REVERSALS[cases[row.id].type]
             rest == [k EXCEPT !.todo = @ \ {row}]
  <2>2. holdsEnforcement(cases[row.id].type)
    BY <1>1, <1>5 DEF Refers, ReverseNext
  <2>3. type \in ModActionType /\ "none" \in Clock
    BY <2>2 DEF REVERSALS, holdsEnforcement, ModActionType, Holding, Lifting, Clock
  <2>4. Kept /\ Growing /\ asked[NextId] \in Nat /\ UNCHANGED <<asked, grounds>>
    BY <1>1, <1>5, <2>1, <2>3, Creation, CreationKeeps, UnchangedGrows DEF ReverseNext, TypeOK
  <2>5. rest \in TaskState /\ rest.todo \subseteq k.todo
    BY <1>1 DEF TaskState
  <2>6. 0 <= asked[NextId] /\ \A r \in rest.todo : r.attempts <= asked[r.id]
    BY <1>1, <2>4, <2>5 DEF Counts
  <2>7. Counts(Enforcing(rest, "reverse", NextId, 0), asked)
        /\ Grounded(Enforcing(rest, "reverse", NextId, 0), grounds)
    BY <2>5, <2>6, EnforcingIsSound
  <2> QED
    BY <2>1, <2>4, <2>7, OrdinaryStep
<1>6. CASE deactivateExpired
  <2>1. Cases' = Cases /\ UNCHANGED <<asked, grounds>> /\ Growing
        /\ task' = [task EXCEPT ![Sweeper] = Idle]
    BY <1>1, <1>6, DeactivatedRows, UnchangedGrows DEF deactivateExpired
  <2>2. \A c \in Cases : /\ cases'[c].attempts = cases[c].attempts
                         /\ cases'[c].enforcement = cases[c].enforcement
                         /\ cases'[c].voided = cases[c].voided
                         /\ cases'[c].active => cases[c].active
    <3> TAKE c \in Cases
    <3>1. cases[c] \in Row
      BY <1>1, RowsAreRows
    <3>2. cases'[c] = cases[c] \/ cases'[c] = [cases[c] EXCEPT !.active = FALSE]
      BY <1>1, <1>6, DeactivatedRows
    <3> QED
      BY <3>1, <3>2 DEF Row
  <2>3. AttemptsAreReal' /\ ConfirmedHasGrounds'
    BY <2>1, <2>2 DEF Sound, CountsInv, GroundsInv, AttemptsAreReal, ConfirmedHasGrounds
  <2>4. \A u \in Task : Counts(task'[u], asked') /\ Grounded(task'[u], grounds')
    BY <2>1, IdleIsSound, OneTaskSound
  <2> QED
    BY <2>3, <2>4 DEF Sound, CountsInv, GroundsInv
<1> QED
  BY <1>2, <1>3, <1>4, <1>5, <1>6 DEF SweepStep

\* Time, a member who rejoins and a dying process touch nothing counted.
LEMMA EnvironmentSound ==
    ASSUME Typed, Typed', Sound, Environment
    PROVE  Sound'
<1>1. UNCHANGED <<task, asked, grounds>> /\ Growing
  BY UnchangedGrows
  DEF Environment, ClockRunsOut, GraceElapses, MirrorLapses, TimeoutLapses, Rejoin, Typed
<1>2. \A u \in Task : Counts(task'[u], asked') /\ Grounded(task'[u], grounds')
  BY <1>1, OtherTasksStaySound
<1>3. Kept
  <2>1. ASSUME NEW c \in Cases, NEW row \in Row, row.type = cases[c].type,
               cases' = [cases EXCEPT ![c] = row],
               row.attempts = cases[c].attempts, row.enforcement = cases[c].enforcement,
               row.voided = cases[c].voided, row.active = cases[c].active
        PROVE  Kept
    <3>1. Cases' = Cases /\ \A b \in Cases : cases'[b] = IF b = c THEN row ELSE cases[b]
      BY <2>1, Rewriting DEF Typed
    <3> QED
      BY <2>1, <3>1 DEF Kept
  <2>2. ASSUME NEW c \in Cases, ClockRunsOut(c) \/ GraceElapses(c) PROVE Kept
    <3> DEFINE out == [cases[c] EXCEPT !.clock = "out"]
               old == [cases[c] EXCEPT !.quiet = TRUE]
    <3>1. cases[c] \in Row
      BY RowsAreRows DEF Typed
    <3>2. \A row \in {out, old} :
            /\ row \in Row /\ row.type = cases[c].type
            /\ row.attempts = cases[c].attempts /\ row.enforcement = cases[c].enforcement
            /\ row.voided = cases[c].voided /\ row.active = cases[c].active
      BY <3>1 DEF Row, Clock
    <3>3. cases' = [cases EXCEPT ![c] = out] \/ cases' = [cases EXCEPT ![c] = old]
      BY <2>2 DEF ClockRunsOut, GraceElapses
    <3> QED
      BY <2>1, <3>2, <3>3
  <2>3. ASSUME UNCHANGED cases PROVE Kept
    BY <2>3, UnchangedKeeps
  <2> QED
    BY <2>2, <2>3 DEF Environment, MirrorLapses, TimeoutLapses, Rejoin
<1>4. AttemptsAreReal' /\ ConfirmedHasGrounds'
  BY <1>1, <1>3, RowsStaySound
<1> QED
  BY <1>2, <1>4 DEF Sound, CountsInv, GroundsInv

LEMMA CrashSound ==
    ASSUME Typed, Typed', Sound, NEW t \in Task, Crash(t)
    PROVE  Sound'
<1>1. Kept /\ Growing
  BY UnchangedKeeps, UnchangedGrows DEF Crash, Typed
<1> QED
  BY <1>1, IdleIsSound, OrdinaryStep DEF Crash

LEMMA InitSound == Init => Sound
<1> SUFFICES ASSUME Init PROVE Sound
  OBVIOUS
<1>1. Cases = {} /\ \A t \in Task : task[t] = Idle
  BY EmptySeq DEF Init, Cases
<1> QED
  BY <1>1, IdleIsSound DEF Sound, CountsInv, GroundsInv, AttemptsAreReal,
                           ConfirmedHasGrounds

LEMMA NextSound == Typed /\ Sound /\ [Next]_vars => Sound'
<1> SUFFICES ASSUME Typed, Sound, [Next]_vars PROVE Sound'
  OBVIOUS
<1>0. Typed'
  BY NextTyped
<1>1. ASSUME NEW t \in Staff, Request(t) PROVE Sound'
  BY <1>0, <1>1, RequestSound
<1>2. ASSUME NEW c \in Cases, NEW status \in EnforcementStatus \ {"PENDING"},
             setEnforcementManually(c, status)
      PROVE  Sound'
  BY <1>0, <1>2, setEnforcementManuallySound
<1>3. ASSUME NEW t \in Task, EnforceStep(t) PROVE Sound'
  BY <1>0, <1>3, MirrorSound, DiscordSound, GameSound, StampSound, alertStaffSound
  DEF EnforceStep
<1>4. ASSUME NEW t \in Staff, VoidStep(t) PROVE Sound'
  BY <1>0, <1>4, VoidStepSound
<1>5. CASE SweepStep
  BY <1>0, <1>5, SweepStepSound
<1>6. CASE Environment
  BY <1>0, <1>6, EnvironmentSound
<1>7. ASSUME NEW t \in Task, Crash(t) PROVE Sound'
  BY <1>0, <1>7, CrashSound
<1>8. CASE UNCHANGED vars
  <2>1. Kept /\ Growing /\ UNCHANGED <<task, asked, grounds>>
    BY <1>8, UnchangedKeeps, UnchangedGrows DEF vars, Typed
  <2>2. AttemptsAreReal' /\ ConfirmedHasGrounds'
    BY <1>0, <2>1, RowsStaySound
  <2>3. \A u \in Task : Counts(task'[u], asked') /\ Grounded(task'[u], grounds')
    BY <1>0, <2>1, OtherTasksStaySound
  <2> QED
    BY <2>2, <2>3 DEF Sound, CountsInv, GroundsInv
<1> QED
  BY <1>1, <1>2, <1>3, <1>4, <1>5, <1>6, <1>7, <1>8 DEF Next

LEMMA Induction == Spec => [](Typed /\ Sound)
  BY InitTyped, InitSound, NextTyped, NextSound, PTL DEF Spec

\* The strengthening is an invariant.
THEOREM Invariance == Spec => []IInv
<1>1. Typed /\ Sound => IInv
  BY DEF Typed, Sound, IInv
<1> QED
  BY Induction, <1>1, PTL

\* No row ever counts an attempt that did not get past both surfaces, however
\* the sweep, panel retries, crashes and failed stamps of service.ts interleave.
THEOREM AttemptsAreRealAlways == Spec => []AttemptsAreReal
<1>1. Typed /\ Sound => AttemptsAreReal
  BY DEF Sound, CountsInv
<1> QED
  BY Induction, <1>1, PTL

\* A row reads CONFIRMED only on the strength of one attempt both of whose
\* surfaces answered, or of a person's word, though stamps race each other.
THEOREM ConfirmedHasGroundsAlways == Spec => []ConfirmedHasGrounds
<1>1. Typed /\ Sound => ConfirmedHasGrounds
  BY DEF Sound, GroundsInv
<1> QED
  BY Induction, <1>1, PTL

----------------------------------------------------------------------------
(* Action properties.                                                      *)

Condemns(c) ==
    /\ task[Sweeper].pc = "next" /\ task'[Sweeper].pc = "alert"
    /\ task'[Sweeper].case = c

LEMMA EnforcingStarts ==
    ASSUME NEW k \in TaskState, NEW op, NEW c, NEW base
    PROVE  Enforcing(k, op, c, base).pc = "mirror"
  BY DEF Enforcing, TaskState

\* Only settling a row of its page takes the sweep straight to an alert.
LEMMA OnlySettlingCondemns ==
    ASSUME Typed, [Next]_vars, NEW c, Condemns(c)
    PROVE  SettleNext
<1>1. task \in [Task -> TaskState]
  BY DEF Typed, TypeOK
<1>2. task'[Sweeper] # task[Sweeper] /\ task[Sweeper].pc = "next"
      /\ task'[Sweeper].pc = "alert"
  BY DEF Condemns
<1>3. ASSUME NEW t \in Staff, NEW k, task' = [task EXCEPT ![t] = k] PROVE FALSE
  BY <1>1, <1>2, <1>3, EnforcementAssumption
<1>4. ASSUME NEW t \in Staff, Request(t) PROVE FALSE
  BY <1>3, <1>4 DEF Request, applyAction, recordDiscordAction, retryEnforcement,
                    voidAction, updateAction
<1>5. ASSUME NEW t \in Staff, VoidStep(t) PROVE FALSE
  <2>1. PICK k : task' = [task EXCEPT ![t] = k]
    BY <1>1, <1>5 DEF VoidStep, VoidLift, VoidMark, Remirror, TypeOK
  <2> QED
    BY <1>3, <2>1
<1>6. ASSUME NEW t \in Task, EnforceStep(t) \/ Crash(t) PROVE FALSE
  <2>1. CASE t = Sweeper
    <3>1. CASE EnforceStep(t)
      BY <1>2, <2>1, <3>1 DEF EnforceStep, Mirror, Discord, Game, Stamp, alertStaff
    <3>2. CASE Crash(t)
      BY <1>1, <1>2, <2>1, <3>2 DEF Crash, Idle
    <3> QED
      BY <1>6, <3>1, <3>2
  <2>2. CASE t # Sweeper
    <3>1. task'[Sweeper] = task[Sweeper]
      <4>1. CASE Mirror(t)
        BY <1>1, <2>2, <4>1 DEF Mirror
      <4>2. CASE Discord(t)
        BY <1>1, <2>2, <4>2 DEF Discord
      <4>3. CASE Game(t)
        BY <1>1, <2>2, <4>3 DEF Game
      <4>4. CASE Stamp(t)
        BY <1>1, <2>2, <4>4 DEF Stamp
      <4>5. CASE alertStaff(t) \/ Crash(t)
        BY <1>1, <2>2, <4>5 DEF alertStaff, Crash
      <4> QED
        BY <1>6, <4>1, <4>2, <4>3, <4>4, <4>5 DEF EnforceStep
    <3> QED
      BY <1>2, <3>1
  <2> QED
    BY <2>1, <2>2
<1>7. ASSUME Environment \/ UNCHANGED vars
             \/ \E d \in Cases, status \in EnforcementStatus : setEnforcementManually(d, status)
      PROVE  FALSE
  BY <1>2, <1>7 DEF Environment, ClockRunsOut, GraceElapses, MirrorLapses, TimeoutLapses,
                    Rejoin, setEnforcementManually, vars
<1>8. CASE SweepStep
  <2>1. ~settleStalePending
    BY <1>2 DEF settleStalePending
  <2>2. ~reverseExpired
    BY <1>1, <1>2 DEF reverseExpired, Idle
  <2>3. ~ReverseNext
    <3> SUFFICES ASSUME ReverseNext PROVE FALSE
      OBVIOUS
    <3>1. PICK row : task' = [task EXCEPT ![Sweeper] =
               Enforcing([task[Sweeper] EXCEPT !.todo = @ \ {row}], "reverse", NextId, 0)]
      BY DEF ReverseNext
    <3>2. [task[Sweeper] EXCEPT !.todo = @ \ {row}] \in TaskState
      BY <1>1 DEF TaskState
    <3> QED
      BY <1>1, <1>2, <3>1, <3>2, EnforcingStarts
  <2>4. ~deactivateExpired
    BY <1>1, <1>2 DEF deactivateExpired, Idle
  <2> QED
    BY <1>8, <2>1, <2>2, <2>3, <2>4 DEF SweepStep
<1> QED
  BY <1>4, <1>5, <1>6, <1>7, <1>8 DEF Next

LEMMA CondemningStep ==
    ASSUME Typed, Sound, [Next]_vars, NEW c \in Cases, Condemns(c)
    PROVE  asked[c] >= MaxAttempts
<1> DEFINE k == task[Sweeper]
<1>1. SettleNext /\ TypeOK /\ k \in TaskState /\ Counts(k, asked)
  BY OnlySettlingCondemns, TaskHere, TaskIsSound DEF Typed
<1>2. PICK row \in k.todo :
         LET rest == [k EXCEPT !.todo = @ \ {row}] IN
         /\ row.id \in Cases /\ rest \in TaskState
         /\ \/ task' = [task EXCEPT ![Sweeper] =
                           Enforcing(rest, "settle", row.id, row.attempts)]
            \/ /\ outOfAttempts(row)
               /\ task' = [task EXCEPT ![Sweeper] =
                              [rest EXCEPT !.pc = "alert", !.case = row.id]]
  BY <1>1, SettledRow
<1> DEFINE rest == [k EXCEPT !.todo = @ \ {row}]
<1>3. task' # [task EXCEPT ![Sweeper] = Enforcing(rest, "settle", row.id, row.attempts)]
  BY <1>1, <1>2, EnforcingStarts DEF Condemns, TypeOK
<1>4. outOfAttempts(row) /\ row.id = c
  <2>1. [rest EXCEPT !.pc = "alert", !.case = row.id].case = row.id
    BY <1>2 DEF TaskState
  <2> QED
    BY <1>1, <1>2, <1>3, <2>1 DEF Condemns, TypeOK
<1>5. row.attempts <= asked[c] /\ row.attempts \in Nat /\ asked[c] \in Nat
  <2>1. row \in [id : Nat, attempts : Nat]
    BY <1>1 DEF TaskState
  <2>2. c \in CaseId
    BY <1>1, EnforcementAssumption DEF TypeOK, Cases, CaseId
  <2> QED
    BY <1>1, <1>4, <2>1, <2>2 DEF Counts, TypeOK
<1> QED
  BY <1>4, <1>5, EnforcementAssumption DEF outOfAttempts

\* settleStalePending writes "failed" over a case only after MaxAttempts
\* attempts on it really were made, though the count it decides by is one it
\* read before other tasks wrote theirs.
THEOREM CondemnedWasTriedAlways == Spec => CondemnedWasTried
<1>1. Typed /\ Sound /\ [Next]_vars =>
         [\A c \in Cases :
             task[Sweeper].pc = "next" /\ task'[Sweeper].pc = "alert"
             /\ task'[Sweeper].case = c => asked[c] >= MaxAttempts]_vars
  BY CondemningStep DEF Condemns
<1> QED
  BY Induction, <1>1, PTL DEF Spec, CondemnedWasTried

----------------------------------------------------------------------------
(* The bound on what the sweep tries.                                      *)

AtWork == {"mirror", "discord", "game", "stamp"}

\* Task state k is inside an attempt on case c.
Works(k, c) == k.pc \in AtWork /\ k.case = c

\* The sweep's tries on a case are paid for by attempts counted on the row or
\* by faults; a try under way still owes one, and a row that reads quiet owes
\* none unless it is the sweep that is trying it.
Paid(c) ==
    /\ effort[c] <= cases[c].attempts + faults
    /\ \/ effort[c] + 1 <= cases[c].attempts + faults
       \/ \E t \in Task : Works(task[t], c)
    /\ cases[c].quiet /\ ~Works(task[Sweeper], c)
          => effort[c] + 1 <= cases[c].attempts + faults
    /\ \A t \in Task : Works(task[t], c) => effort[c] <= task[t].base + faults
    /\ \A t \in Staff : cases[c].quiet /\ Works(task[t], c)
                           => cases[c].attempts <= task[t].base

\* A row of the page the sweep works through may be tried once more, and no
\* task now inside an attempt on it will stamp a count below the one read.
PagePaid ==
    task[Sweeper].op = "settle" =>
        \A row \in task[Sweeper].todo :
            /\ effort[row.id] + 1 <= row.attempts + faults
            /\ row.attempts <= cases[row.id].attempts
            /\ \A t \in Staff : Works(task[t], row.id) => row.attempts <= task[t].base
            /\ ~Works(task[Sweeper], row.id)
            /\ \A other \in task[Sweeper].todo : row.id = other.id => row = other

EffortInv ==
    /\ \A c \in CaseId \ Cases : effort[c] = 0
    /\ \A c \in Cases : Paid(c)
    /\ PagePaid
    /\ SweepEffortIsBounded

\* The numbers the argument is about are numbers.
Numbers ==
    /\ faults \in Nat
    /\ \A c \in Cases : /\ c \in CaseId /\ effort[c] \in Nat
                        /\ cases[c].attempts \in Nat /\ cases[c].quiet \in BOOLEAN
    /\ \A t \in Task : task[t].base \in Nat
    /\ \A row \in task[Sweeper].todo : row.id \in Cases /\ row.attempts \in Nat

LEMMA NumbersAre == Typed => Numbers
<1> SUFFICES ASSUME Typed PROVE Numbers
  OBVIOUS
<1>1. faults \in Nat
  BY EnforcementAssumption DEF Typed, TypeOK
<1>2. \A c \in Cases : /\ c \in CaseId /\ effort[c] \in Nat
                       /\ cases[c].attempts \in Nat /\ cases[c].quiet \in BOOLEAN
  <2> TAKE c \in Cases
  <2>1. c \in CaseId /\ effort[c] \in Nat
    BY CasesCount DEF Typed
  <2>2. cases[c] \in Row
    BY RowsAreRows DEF Typed
  <2> QED
    BY <2>1, <2>2 DEF Row
<1>3. \A t \in Task : task[t].base \in Nat
  BY TaskHere DEF TaskState
<1>4. \A row \in task[Sweeper].todo : row.id \in Cases /\ row.attempts \in Nat
  BY TaskHere DEF TaskState, Refers, Cases
<1> QED
  BY <1>1, <1>2, <1>3, <1>4 DEF Numbers

\* Cases, tries and counts stay as they are; faults may only grow.
SameCounts ==
    /\ Cases' = Cases
    /\ effort' = effort
    /\ faults' \in Nat /\ faults <= faults'
    /\ \A c \in Cases : /\ cases'[c].attempts = cases[c].attempts
                        /\ cases'[c].quiet = cases[c].quiet

\* The page of a task that settles only shrinks.
KeepsPage(new, old) ==
    new.op = "settle" => old.op = "settle" /\ new.todo \subseteq old.todo

SameWork(new, old) ==
    /\ \A c \in Cases : Works(new, c) <=> Works(old, c)
    /\ new.pc \in AtWork => new.base = old.base
    /\ KeepsPage(new, old)

\* A task breaks off its attempt.
Stops(new, old) == new.pc \notin AtWork /\ KeepsPage(new, old)

\* A step that counts no attempt: what it breaks off is a fault.
LEMMA CalmStep ==
    ASSUME Typed, EffortInv, SameCounts,
           \A t \in Task : \/ SameWork(task'[t], task[t])
                           \/ Stops(task'[t], task[t]) /\ faults < faults'
    PROVE  EffortInv'
<1>1. Numbers
  BY NumbersAre
<1>2. \A t \in Task, c \in Cases :
         Works(task'[t], c) => Works(task[t], c) /\ task'[t].base = task[t].base
  BY DEF SameWork, Stops, Works
<1>3. ASSUME NEW c \in Cases PROVE Paid(c)'
  <2>1. Paid(c)
    BY DEF EffortInv
  <2>2. cases'[c].attempts = cases[c].attempts /\ cases'[c].quiet = cases[c].quiet
        /\ effort'[c] = effort[c] /\ effort[c] \in Nat /\ cases[c].attempts \in Nat
        /\ faults \in Nat /\ faults' \in Nat /\ faults <= faults'
    BY <1>1 DEF SameCounts, Numbers
  <2>3. effort'[c] <= cases'[c].attempts + faults'
    BY <2>1, <2>2 DEF Paid
  <2>4. \/ effort'[c] + 1 <= cases'[c].attempts + faults'
        \/ \E t \in Task : Works(task'[t], c)
    <3>1. CASE effort[c] + 1 <= cases[c].attempts + faults
      BY <2>2, <3>1
    <3>2. CASE \E t \in Task : Works(task[t], c)
      <4>1. PICK t \in Task : Works(task[t], c)
        BY <3>2
      <4>2. CASE SameWork(task'[t], task[t])
        BY <4>1, <4>2 DEF SameWork
      <4>3. CASE faults < faults'
        BY <2>1, <2>2, <4>3 DEF Paid
      <4> QED
        BY <4>2, <4>3
    <3> QED
      BY <2>1, <3>1, <3>2 DEF Paid
  <2>5. cases'[c].quiet /\ ~Works(task'[Sweeper], c)
          => effort'[c] + 1 <= cases'[c].attempts + faults'
    <3>1. CASE SameWork(task'[Sweeper], task[Sweeper])
      BY <2>1, <2>2, <3>1 DEF Paid, SameWork
    <3>2. CASE faults < faults'
      BY <2>1, <2>2, <3>2 DEF Paid
    <3> QED
      BY <3>1, <3>2
  <2>6. \A t \in Task : Works(task'[t], c) => effort'[c] <= task'[t].base + faults'
    <3> TAKE t \in Task
    <3> HAVE Works(task'[t], c)
    <3>1. effort[c] <= task[t].base + faults /\ task[t].base \in Nat
          /\ task'[t].base = task[t].base
      BY <1>1, <1>2, <2>1 DEF Paid, Numbers
    <3> QED
      BY <2>2, <3>1
  <2>7. \A t \in Staff : cases'[c].quiet /\ Works(task'[t], c)
                           => cases'[c].attempts <= task'[t].base
    BY <1>2, <2>1, <2>2 DEF Paid
  <2> QED
    BY <2>3, <2>4, <2>5, <2>6, <2>7 DEF Paid
<1>4. PagePaid'
  <2> SUFFICES ASSUME task'[Sweeper].op = "settle", NEW row \in task'[Sweeper].todo
               PROVE  /\ effort'[row.id] + 1 <= row.attempts + faults'
                      /\ row.attempts <= cases'[row.id].attempts
                      /\ \A t \in Staff : Works(task'[t], row.id)
                                             => row.attempts <= task'[t].base
                      /\ ~Works(task'[Sweeper], row.id)
                      /\ \A other \in task'[Sweeper].todo : row.id = other.id => row = other
    BY DEF PagePaid
  <2>1. task[Sweeper].op = "settle" /\ task'[Sweeper].todo \subseteq task[Sweeper].todo
    BY DEF SameWork, Stops, KeepsPage
  <2>2. row.id \in Cases /\ row.attempts \in Nat /\ row \in task[Sweeper].todo
    BY <1>1, <2>1 DEF Numbers
  <2>3. /\ effort[row.id] + 1 <= row.attempts + faults
        /\ row.attempts <= cases[row.id].attempts
        /\ \A t \in Staff : Works(task[t], row.id) => row.attempts <= task[t].base
        /\ ~Works(task[Sweeper], row.id)
        /\ \A other \in task[Sweeper].todo : row.id = other.id => row = other
    BY <2>1, <2>2 DEF EffortInv, PagePaid
  <2>4. effort'[row.id] = effort[row.id] /\ effort[row.id] \in Nat
        /\ cases'[row.id].attempts = cases[row.id].attempts
        /\ faults \in Nat /\ faults' \in Nat /\ faults <= faults'
    BY <1>1, <2>2 DEF SameCounts, Numbers
  <2>5. effort'[row.id] + 1 <= row.attempts + faults'
    BY <2>2, <2>3, <2>4
  <2> QED
    BY <1>2, <2>1, <2>2, <2>3, <2>4, <2>5
<1>5. SweepEffortIsBounded'
  BY <1>1, EnforcementAssumption DEF EffortInv, SweepEffortIsBounded, SameCounts, Numbers
<1> QED
  BY <1>3, <1>4, <1>5 DEF EffortInv, SameCounts

\* One task moves, and the others are where they were.
LEMMA OthersWork ==
    ASSUME Typed, NEW t \in Task, NEW k, task' = [task EXCEPT ![t] = k]
    PROVE  /\ task'[t] = k
           /\ \A u \in Task : u # t => task'[u] = task[u]
  BY DEF Typed, TypeOK

LEMMA CalmTask ==
    ASSUME Typed, EffortInv, SameCounts, NEW t \in Task, NEW k,
           task' = [task EXCEPT ![t] = k],
           \/ SameWork(k, task[t])
           \/ Stops(k, task[t]) /\ faults < faults'
    PROVE  EffortInv'
<1>1. \A u \in Task : SameWork(task[u], task[u])
  BY DEF SameWork, KeepsPage
<1>2. \A u \in Task : \/ SameWork(task'[u], task[u])
                      \/ Stops(task'[u], task[u]) /\ faults < faults'
  BY <1>1, OthersWork
<1> QED
  BY <1>2, CalmStep

\* A task that was in no attempt and starts none.
LEMMA RestingTask ==
    ASSUME Typed, EffortInv, SameCounts, NEW t \in Task, NEW k,
           task' = [task EXCEPT ![t] = k],
           task[t].pc \notin AtWork, k.pc \notin AtWork, KeepsPage(k, task[t])
    PROVE  EffortInv'
<1>1. SameWork(k, task[t])
  BY DEF SameWork, Works
<1> QED
  BY <1>1, CalmTask

LEMMA UnchangedCounts ==
    ASSUME Typed, UNCHANGED <<cases, effort>>, faults' \in Nat, faults <= faults'
    PROVE  SameCounts
  BY DEF SameCounts, Cases

\* A row is rewritten and keeps its count and its quiet flag.
LEMMA RewrittenCounts ==
    ASSUME Typed, NEW c \in Cases, NEW row \in Row, row.type = cases[c].type,
           row.attempts = cases[c].attempts, row.quiet = cases[c].quiet,
           cases' = [cases EXCEPT ![c] = row],
           UNCHANGED effort, faults' \in Nat, faults <= faults'
    PROVE  SameCounts
<1>1. Cases' = Cases /\ \A b \in Cases : cases'[b] = IF b = c THEN row ELSE cases[b]
  BY Rewriting DEF Typed
<1> QED
  BY <1>1 DEF SameCounts

LEMMA FaultsGrow ==
    ASSUME Typed, UNCHANGED faults \/ faults' = faults + 1
    PROVE  faults' \in Nat /\ faults <= faults'
  BY NumbersAre DEF Numbers

LEMMA EnforcingWorks ==
    ASSUME NEW k \in TaskState, NEW op, NEW c, NEW base
    PROVE  /\ Enforcing(k, op, c, base).pc = "mirror"
           /\ Enforcing(k, op, c, base).case = c
           /\ Enforcing(k, op, c, base).base = base
           /\ Enforcing(k, op, c, base).op = op
           /\ Enforcing(k, op, c, base).todo = k.todo
  BY DEF Enforcing, TaskState

LEMMA AfterStampRests ==
    ASSUME NEW k \in TaskState, NEW status
    PROVE  Stops(Resume(k), k) /\ Stops(AfterStamp(k, status), k)
<1>1. Stops(Idle, k)
  BY DEF Stops, Idle, AtWork, KeepsPage
<1>2. Stops([k EXCEPT !.pc = "mark"], k) /\ Stops([k EXCEPT !.pc = "alert"], k)
  BY DEF Stops, AtWork, KeepsPage, TaskState
<1> DEFINE n == [k EXCEPT !.pc = "next", !.case = 0, !.base = 0, !.d = "none", !.g = "none"]
<1>3. Stops(n, k)
  BY DEF Stops, AtWork, KeepsPage, TaskState
<1>4. Resume(k) \in {Idle, n, [k EXCEPT !.pc = "mark"]}
  BY DEF Resume
<1>5. AfterStamp(k, status) \in {Resume(k), [k EXCEPT !.pc = "alert"]}
  BY DEF AfterStamp
<1> QED
  BY <1>1, <1>2, <1>3, <1>4, <1>5

\* A case opens and the task that opened it is at work on it.
LEMMA OpeningStep ==
    ASSUME Typed, EffortInv, NEW type \in ModActionType, NEW clock \in Clock,
           createAction(type, clock), NEW t \in Task, NEW k,
           task' = [task EXCEPT ![t] = k],
           task[t].pc \notin AtWork, k.pc \in AtWork, k.case = NextId, k.base = 0,
           k.op # "settle", UNCHANGED <<effort, faults>>
    PROVE  EffortInv'
<1> PICK n : n = NextId
  OBVIOUS
<1>1. Numbers /\ TypeOK
  BY NumbersAre DEF Typed
<1>2. /\ n \in CaseId /\ n \in Nat
      /\ cases'[n] = NewRow(type, clock)
      /\ \A c \in Cases : cases'[c] = cases[c]
      /\ Cases' = Cases \cup {n} /\ n \notin Cases
  <2>1. /\ n \in CaseId /\ Len(cases') = Len(cases) + 1
        /\ cases'[n] = NewRow(type, clock)
        /\ \A c \in Cases : cases'[c] = cases[c]
    BY <1>1, Creation
  <2> QED
    BY <1>1, <2>1 DEF Cases, NextId, TypeOK
<1>3. task'[t] = k /\ \A u \in Task : u # t => task'[u] = task[u]
  BY OthersWork
<1>4. \A u \in Task : ~Works(task[u], n)
  <2> TAKE u \in Task
  <2>1. Refers(task[u], cases)
    BY TaskHere
  <2> QED
    BY <1>2, <2>1 DEF Refers, Works, AtWork, Enforced, Cases
<1>5. effort[n] = 0
  BY <1>2 DEF EffortInv
<1>6. \A u \in Task, c \in Cases : Works(task'[u], c) <=> Works(task[u], c) /\ u # t
  BY <1>2, <1>3 DEF Works
<1>7. \A c \in Cases : Paid(c)'
  <2> TAKE c \in Cases
  <2>1. Paid(c) /\ cases'[c] = cases[c] /\ ~Works(task[t], c)
    BY <1>2 DEF EffortInv, Works
  <2> QED
    BY <1>3, <1>6, <2>1 DEF Paid
<1>8. Paid(n)'
  <2>1. cases'[n].attempts = 0 /\ cases'[n].quiet = FALSE
    BY <1>2 DEF NewRow
  <2>2. Works(task'[t], n)
    BY <1>3 DEF Works
  <2>3. \A u \in Task : Works(task'[u], n) => u = t
    BY <1>3, <1>4
  <2>4. effort'[n] = 0 /\ faults' = faults /\ faults \in Nat /\ task'[t].base = 0
    BY <1>1, <1>3, <1>5 DEF Numbers
  <2>5. \A u \in Task : Works(task'[u], n) => task'[u].base = 0
    BY <2>3, <2>4
  <2> QED
    BY <2>1, <2>2, <2>4, <2>5 DEF Paid
<1>9. PagePaid'
  <2>1. CASE t = Sweeper
    BY <1>3, <2>1 DEF PagePaid
  <2>2. CASE t # Sweeper
    BY <1>1, <1>2, <1>3, <1>6, <2>2 DEF PagePaid, EffortInv, Numbers
  <2> QED
    BY <2>1, <2>2
<1>10. SweepEffortIsBounded'
  BY <1>1, <1>2, <1>5, EnforcementAssumption DEF EffortInv, SweepEffortIsBounded, Numbers
<1> QED
  BY <1>2, <1>7, <1>8, <1>9, <1>10 DEF EffortInv

\* A retry begins: its base is the count on the row.
LEMMA RetryStep ==
    ASSUME Typed, EffortInv, NEW t \in Staff, NEW c \in Cases, NEW k,
           task[t].pc \notin AtWork, UNCHANGED <<cases, effort, faults>>,
           task' = [task EXCEPT ![t] = k],
           k.pc \in AtWork, k.case = c, k.base = cases[c].attempts
    PROVE  EffortInv'
<1>1. Numbers /\ Cases' = Cases
  BY NumbersAre DEF Cases
<1>2. /\ task'[t] = k /\ \A u \in Task : u # t => task'[u] = task[u]
      /\ t # Sweeper
  BY OthersWork, EnforcementAssumption
<1>3. \A u \in Task, b \in Cases :
         Works(task'[u], b) <=> \/ u = t /\ b = c
                                \/ u # t /\ Works(task[u], b)
  BY <1>2 DEF Works
<1>4. ASSUME NEW b \in Cases PROVE Paid(b)'
  <2>1. Paid(b) /\ ~Works(task[t], b)
    BY DEF EffortInv, Works
  <2> QED
    BY <1>1, <1>2, <1>3, <2>1 DEF Paid, Numbers
<1>5. PagePaid'
  BY <1>1, <1>2, <1>3 DEF PagePaid, EffortInv, Numbers
<1> QED
  BY <1>1, <1>4, <1>5 DEF EffortInv, SweepEffortIsBounded

LEMMA RequestPaid ==
    ASSUME Typed, EffortInv, NEW t \in Staff, Request(t)
    PROVE  EffortInv'
<1>1. ASSUME NEW type \in StaffTypes, NEW clock \in StaffClocks, applyAction(t, type, clock)
      PROVE  EffortInv'
  <2>1. type \in ModActionType /\ clock \in Clock
    BY EnforcementAssumption DEF Clock
  <2>2. createAction(type, clock) /\ task[t].pc \notin AtWork /\ UNCHANGED <<effort, faults>>
        /\ task' = [task EXCEPT ![t] = Enforcing(Idle, "apply", NextId, 0)]
    BY <1>1 DEF applyAction, AtWork
  <2> DEFINE k == Enforcing(Idle, "apply", NextId, 0)
  <2>3. k.pc \in AtWork /\ k.case = NextId /\ k.base = 0 /\ k.op # "settle"
    BY IdleIsFine, EnforcingWorks DEF AtWork
  <2> HIDE DEF k
  <2> QED
    BY <2>1, <2>2, <2>3, OpeningStep DEF k
<1>2. ASSUME NEW type \in StaffTypes, recordDiscordAction(t, type)
      PROVE  EffortInv'
  <2>1. type \in ModActionType /\ "none" \in Clock
    BY EnforcementAssumption DEF Clock
  <2>2. createAction(type, "none") /\ task[t].pc \notin AtWork /\ UNCHANGED <<effort, faults>>
        /\ task' = [task EXCEPT ![t] = Enforcing(Idle, "adopt", NextId, 0)]
    BY <1>2 DEF recordDiscordAction, AtWork
  <2> DEFINE k == Enforcing(Idle, "adopt", NextId, 0)
  <2>3. k.pc \in AtWork /\ k.case = NextId /\ k.base = 0 /\ k.op # "settle"
    BY IdleIsFine, EnforcingWorks DEF AtWork
  <2> HIDE DEF k
  <2> QED
    BY <2>1, <2>2, <2>3, OpeningStep DEF k
<1>3. ASSUME NEW c \in Cases, retryEnforcement(t, c)
      PROVE  EffortInv'
  <2>1. task[t].pc \notin AtWork /\ UNCHANGED <<cases, effort, faults>>
        /\ task' = [task EXCEPT ![t] = Enforcing(Idle, "retry", c, cases[c].attempts)]
    BY <1>3 DEF retryEnforcement, AtWork
  <2> DEFINE k == Enforcing(Idle, "retry", c, cases[c].attempts)
  <2>2. k.pc \in AtWork /\ k.case = c /\ k.base = cases[c].attempts
    BY IdleIsFine, EnforcingWorks DEF AtWork
  <2> HIDE DEF k
  <2> QED
    BY <2>1, <2>2, RetryStep DEF k
<1>4. ASSUME NEW c \in Cases, voidAction(t, c)
      PROVE  EffortInv'
  <2> DEFINE k == [Idle EXCEPT !.op = "void", !.subject = c,
                               !.pc = IF isInForce(cases[c]) THEN "lift" ELSE "mark"]
  <2>1. task' = [task EXCEPT ![t] = k] /\ task[t].pc \notin AtWork
    BY <1>4 DEF voidAction, AtWork
  <2>2. k.pc \notin AtWork /\ KeepsPage(k, task[t])
    BY DEF Idle, AtWork, KeepsPage
  <2>3. SameCounts
    BY <1>4, FaultsGrow, UnchangedCounts DEF voidAction
  <2> QED
    BY <2>1, <2>2, <2>3, RestingTask
<1>5. ASSUME NEW c \in Cases, NEW clock \in Clock, updateAction(t, c, clock)
      PROVE  EffortInv'
  <2> DEFINE row == [cases[c] EXCEPT !.clock = clock]
             k == [Idle EXCEPT !.op = "edit", !.subject = c, !.pc = "remirror"]
  <2>1. cases' = [cases EXCEPT ![c] = row] /\ task' = [task EXCEPT ![t] = k]
        /\ task[t].pc \notin AtWork
    BY <1>5 DEF updateAction, AtWork
  <2>2. row \in Row /\ row.type = cases[c].type /\ row.attempts = cases[c].attempts
        /\ row.quiet = cases[c].quiet
    BY RowsAreRows DEF Row, Typed
  <2>3. SameCounts
    BY <1>5, <2>1, <2>2, FaultsGrow, RewrittenCounts DEF updateAction
  <2>4. k.pc \notin AtWork /\ KeepsPage(k, task[t])
    BY DEF Idle, AtWork, KeepsPage
  <2> QED
    BY <2>1, <2>3, <2>4, RestingTask
<1> QED
  BY <1>1, <1>2, <1>3, <1>4, <1>5 DEF Request

\* Inside an attempt nothing is counted.
LEMMA AttemptGoesOn ==
    ASSUME NEW k \in TaskState, k.pc \in AtWork, NEW pc \in AtWork, NEW x
    PROVE  /\ SameWork([k EXCEPT !.pc = pc, !.d = x], k)
           /\ SameWork([k EXCEPT !.pc = pc, !.g = x], k)
  BY DEF SameWork, Works, KeepsPage, TaskState

LEMMA AttemptPaid ==
    ASSUME Typed, EffortInv, NEW t \in Task, Mirror(t) \/ Discord(t) \/ Game(t)
    PROVE  EffortInv'
<1>1. task[t] \in TaskState /\ task[t].pc \in AtWork /\ TypeOK
  BY TaskHere DEF Mirror, Discord, Game, AtWork, Typed
<1>2. SameCounts
  BY FaultsGrow, UnchangedCounts DEF Mirror, Discord, Game, LandsOrNot
<1>3. CASE Mirror(t) \/ Discord(t)
  <2>1. PICK pc \in AtWork : \E d : task' = [task EXCEPT ![t].pc = pc, ![t].d = d]
    BY <1>3 DEF Mirror, Discord, AtWork
  <2>2. PICK d : task' = [task EXCEPT ![t].pc = pc, ![t].d = d]
    BY <2>1
  <2>3. task' = [task EXCEPT ![t] = [task[t] EXCEPT !.pc = pc, !.d = d]]
    BY <1>1, <2>2 DEF TypeOK
  <2> QED
    BY <1>1, <1>2, <2>3, AttemptGoesOn, CalmTask
<1>4. CASE Game(t)
  <2>1. PICK g : task' = [task EXCEPT ![t].pc = "stamp", ![t].g = g]
    BY <1>4 DEF Game
  <2>2. task' = [task EXCEPT ![t] = [task[t] EXCEPT !.pc = "stamp", !.g = g]]
    BY <1>1, <2>1 DEF TypeOK
  <2> QED
    BY <1>1, <1>2, <2>2, AttemptGoesOn, CalmTask DEF AtWork
<1> QED
  BY <1>3, <1>4

\* A stamp that lands counts the attempt on what the task read.
LEMMA LandedPaid ==
    ASSUME Typed, EffortInv, NEW t \in Task, NEW c \in Cases, NEW k, NEW row \in Row,
           Works(task[t], c), row.type = cases[c].type,
           row.attempts = task[t].base + 1, row.quiet = FALSE,
           cases' = [cases EXCEPT ![c] = row],
           task' = [task EXCEPT ![t] = k], Stops(k, task[t]),
           UNCHANGED <<effort, faults>>
    PROVE  EffortInv'
<1>1. Numbers
  BY NumbersAre
<1>2. Cases' = Cases /\ \A b \in Cases : cases'[b] = IF b = c THEN row ELSE cases[b]
  BY Rewriting DEF Typed
<1>3. task'[t] = k /\ \A u \in Task : u # t => task'[u] = task[u]
  BY OthersWork
<1>4. \A u \in Task, b \in Cases :
         Works(task'[u], b) => u # t /\ Works(task[u], b)
  BY <1>3 DEF Works, Stops
<1>5. ASSUME NEW b \in Cases, b # c PROVE Paid(b)'
  <2>1. Paid(b) /\ ~Works(task[t], b) /\ cases'[b] = cases[b]
    BY <1>2, <1>5 DEF EffortInv, Works
  <2>2. \A u \in Task : Works(task'[u], b) <=> Works(task[u], b)
    BY <1>3, <1>4, <2>1
  <2> QED
    BY <1>3, <1>4, <2>1, <2>2 DEF Paid
<1>6. Paid(c)'
  <2>1. Paid(c) /\ cases'[c].attempts = task[t].base + 1 /\ cases'[c].quiet = FALSE
    BY <1>2 DEF EffortInv
  <2>2. effort[c] <= task[t].base + faults /\ task[t].base \in Nat /\ faults \in Nat
        /\ effort[c] \in Nat
    BY <1>1, <2>1 DEF Paid, Numbers
  <2>3. effort[c] + 1 <= cases'[c].attempts + faults
    BY <2>1, <2>2
  <2>4. \A u \in Task : Works(task'[u], c) => effort[c] <= task'[u].base + faults
    BY <1>3, <1>4, <2>1 DEF Paid
  <2> QED
    BY <2>1, <2>2, <2>3, <2>4 DEF Paid
<1>7. PagePaid'
  <2> SUFFICES ASSUME task'[Sweeper].op = "settle", NEW r \in task'[Sweeper].todo
               PROVE  /\ effort[r.id] + 1 <= r.attempts + faults
                      /\ r.attempts <= cases'[r.id].attempts
                      /\ \A u \in Staff : Works(task'[u], r.id)
                                             => r.attempts <= task'[u].base
                      /\ ~Works(task'[Sweeper], r.id)
                      /\ \A other \in task'[Sweeper].todo : r.id = other.id => r = other
    BY DEF PagePaid
  <2>1. task[Sweeper].op = "settle" /\ task'[Sweeper].todo \subseteq task[Sweeper].todo
    BY <1>3 DEF Stops, KeepsPage
  <2>2. r.id \in Cases /\ r.attempts \in Nat /\ r \in task[Sweeper].todo
    BY <1>1, <2>1 DEF Numbers
  <2>3. /\ effort[r.id] + 1 <= r.attempts + faults
        /\ r.attempts <= cases[r.id].attempts
        /\ \A u \in Staff : Works(task[u], r.id) => r.attempts <= task[u].base
        /\ ~Works(task[Sweeper], r.id)
        /\ \A other \in task[Sweeper].todo : r.id = other.id => r = other
    BY <2>1, <2>2 DEF EffortInv, PagePaid
  <2>4. r.attempts <= cases'[r.id].attempts
    <3>1. CASE r.id = c
      <4>1. t # Sweeper /\ t \in Staff
        BY <2>3, <3>1
      <4>2. r.attempts <= task[t].base /\ task[t].base \in Nat
        BY <1>1, <2>3, <3>1, <4>1 DEF Numbers
      <4> QED
        BY <1>2, <2>2, <3>1, <4>2
    <3>2. CASE r.id # c
      BY <1>2, <2>2, <2>3, <3>2
    <3> QED
      BY <3>1, <3>2
  <2> QED
    BY <1>3, <1>4, <2>1, <2>2, <2>3, <2>4
<1> QED
  BY <1>2, <1>5, <1>6, <1>7 DEF EffortInv, SweepEffortIsBounded

LEMMA StampPaid ==
    ASSUME Typed, EffortInv, NEW t \in Task, Stamp(t)
    PROVE  EffortInv'
<1> DEFINE k == task[t]
           status == Verdict(k.d, k.g)
           row == [cases[k.case] EXCEPT !.enforcement = status,
                                        !.attempts = k.base + 1, !.quiet = FALSE]
<1>1. k \in TaskState /\ Works(k, k.case) /\ UNCHANGED effort
  BY TaskHere DEF Stamp, Works, AtWork
<1>2. /\ k.case \in Cases
      /\ row \in Row /\ row.type = cases[k.case].type
      /\ \/ UNCHANGED cases /\ faults' = faults + 1
         \/ cases' = [cases EXCEPT ![k.case] = row] /\ faults' = faults
      /\ task' = [task EXCEPT ![t] = AfterStamp(k, status)]
  BY StampedRow
<1>3. Stops(AfterStamp(k, status), k)
  BY <1>1, AfterStampRests
<1>4. CASE UNCHANGED cases /\ faults' = faults + 1
  <2>1. SameCounts /\ faults < faults'
    BY <1>1, <1>4, FaultsGrow, UnchangedCounts, NumbersAre DEF Numbers
  <2> QED
    BY <1>2, <1>3, <2>1, CalmTask
<1>5. CASE cases' = [cases EXCEPT ![k.case] = row] /\ faults' = faults
  <2>1. row.attempts = k.base + 1 /\ row.quiet = FALSE
    BY <1>2, RowsAreRows DEF Typed, Row
  <2> HIDE DEF row
  <2> QED
    BY <1>1, <1>2, <1>3, <1>5, <2>1, LandedPaid
<1> QED
  BY <1>2, <1>4, <1>5

LEMMA alertStaffPaid ==
    ASSUME Typed, EffortInv, NEW t \in Task, alertStaff(t)
    PROVE  EffortInv'
<1>1. task[t] \in TaskState /\ task[t].pc \notin AtWork
      /\ task' = [task EXCEPT ![t] = Resume(task[t])]
  BY TaskHere DEF alertStaff, AtWork
<1>2. Stops(Resume(task[t]), task[t])
  BY <1>1, AfterStampRests
<1>3. SameCounts
  BY FaultsGrow, UnchangedCounts DEF alertStaff
<1> QED
  BY <1>1, <1>2, <1>3, RestingTask DEF Stops

LEMMA VoidStepPaid ==
    ASSUME Typed, EffortInv, NEW t \in Staff, VoidStep(t)
    PROVE  EffortInv'
<1>1. task[t] \in TaskState /\ Refers(task[t], cases) /\ TypeOK
  BY TaskHere DEF Typed
<1>2. CASE VoidLift(t)
  <2> DEFINE type == REVERSALS[cases[task[t].subject].type]
             k == Enforcing(task[t], "void", NextId, 0)
  <2>1. type \in ModActionType /\ "none" \in Clock
    BY <1>1, <1>2 DEF VoidLift, Refers, REVERSALS, holdsEnforcement, ModActionType,
                      Holding, Lifting, Clock
  <2>2. createAction(type, "none") /\ task[t].pc \notin AtWork /\ UNCHANGED <<effort, faults>>
        /\ task' = [task EXCEPT ![t] = k]
    BY <1>2 DEF VoidLift, AtWork
  <2>3. k.pc \in AtWork /\ k.case = NextId /\ k.base = 0 /\ k.op # "settle"
    BY <1>1, EnforcingWorks DEF AtWork
  <2> HIDE DEF k, type
  <2> QED
    BY <2>1, <2>2, <2>3, OpeningStep
<1>3. CASE VoidMark(t)
  <2> DEFINE c == task[t].subject
             k == [task[t] EXCEPT !.pc = "remirror"]
             row == Withdrawn(cases[c])
  <2>1. task[t].pc = "mark" /\ c \in Cases
    BY <1>1, <1>3 DEF VoidMark, Refers, Cases
  <2>2. row \in Row /\ row.type = cases[c].type /\ row.attempts = cases[c].attempts
        /\ row.quiet = cases[c].quiet
    BY <1>1, <2>1, RowsAreRows DEF Row, Withdrawn
  <2>3. cases' = [cases EXCEPT ![c] = row] /\ task' = [task EXCEPT ![t] = k]
    BY <1>1, <1>3 DEF VoidMark, TypeOK
  <2>4. SameCounts
    BY <1>3, <2>1, <2>2, <2>3, FaultsGrow, RewrittenCounts DEF VoidMark
  <2>5. k.pc \notin AtWork /\ KeepsPage(k, task[t]) /\ task[t].pc \notin AtWork
    BY <1>1, <2>1 DEF AtWork, KeepsPage, TaskState
  <2> QED
    BY <2>3, <2>4, <2>5, RestingTask
<1>4. CASE Remirror(t)
  <2>1. task' = [task EXCEPT ![t] = Idle] /\ task[t].pc \notin AtWork
    BY <1>4 DEF Remirror, AtWork
  <2>2. Idle.pc \notin AtWork /\ KeepsPage(Idle, task[t])
    BY DEF Idle, AtWork, KeepsPage
  <2>3. SameCounts
    BY <1>4, FaultsGrow, UnchangedCounts DEF Remirror, LandsOrNot
  <2> QED
    BY <2>1, <2>2, <2>3, RestingTask
<1> QED
  BY <1>2, <1>3, <1>4 DEF VoidStep

\* The page is read: its rows are quiet, so each may be tried once more.
LEMMA settleStalePendingPaid ==
    ASSUME Typed, EffortInv, settleStalePending
    PROVE  EffortInv'
<1> DEFINE k == [Idle EXCEPT !.op = "settle", !.pc = "next",
                             !.todo = Page(listStalePending)]
<1>1. Numbers /\ TypeOK
  BY NumbersAre DEF Typed
<1>2. task' = [task EXCEPT ![Sweeper] = k] /\ task[Sweeper].pc = "idle"
      /\ UNCHANGED <<cases, effort, faults>> /\ Cases' = Cases
  BY DEF settleStalePending, Cases
<1>3. k.pc = "next" /\ k.todo = Page(listStalePending)
  BY DEF Idle
<1>4. task'[Sweeper] = k /\ \A u \in Staff : task'[u] = task[u]
  BY <1>2, OthersWork, EnforcementAssumption
<1>5. \A u \in Task : \A c : Works(task'[u], c) <=> Works(task[u], c) /\ u # Sweeper
  <2>1. \A c : ~Works(task[Sweeper], c) /\ ~Works(k, c)
    BY <1>2, <1>3 DEF Works, AtWork
  <2> QED
    BY <1>4, <2>1
<1>6. ~\E c : Works(task[Sweeper], c)
  BY <1>2 DEF Works, AtWork
<1>7. ASSUME NEW c \in Cases PROVE Paid(c)'
  <2>1. Paid(c)
    BY DEF EffortInv
  <2>2. \A u \in Task : Works(task'[u], c) => Works(task[u], c) /\ task'[u] = task[u]
    BY <1>4, <1>5
  <2>3. \A u \in Task : Works(task[u], c) => Works(task'[u], c)
    BY <1>5, <1>6
  <2> QED
    BY <1>2, <1>6, <2>1, <2>2, <2>3 DEF Paid
<1>8. PagePaid'
  <2>1. task'[Sweeper].todo = Page(listStalePending)
    BY <1>3, <1>4
  <2>2. \A row : ~Works(task'[Sweeper], row.id)
    BY <1>5
  <2>3. ASSUME NEW row \in Page(listStalePending)
        PROVE  /\ effort'[row.id] + 1 <= row.attempts + faults'
               /\ row.attempts <= cases'[row.id].attempts
               /\ \A t \in Staff : Works(task'[t], row.id) => row.attempts <= task'[t].base
               /\ \A other \in Page(listStalePending) : row.id = other.id => row = other
    <3>1. PICK c \in listStalePending : row = [id |-> c, attempts |-> cases[c].attempts]
      BY DEF Page
    <3>2. c \in Cases /\ cases[c].quiet
      BY <3>1 DEF listStalePending
    <3>3. Paid(c) /\ ~Works(task[Sweeper], c)
      BY <1>6, <3>2 DEF EffortInv
    <3>4. \A other \in Page(listStalePending) : row.id = other.id => row = other
      BY <3>1 DEF Page
    <3>5. row.id = c /\ row.attempts = cases[c].attempts /\ cases[c].attempts \in Nat
      BY <1>1, <3>1, <3>2 DEF Numbers
    <3>6. effort'[c] + 1 <= row.attempts + faults' /\ row.attempts <= cases'[c].attempts
      BY <1>2, <3>2, <3>3, <3>5 DEF Paid
    <3>7. \A t \in Staff : Works(task'[t], c) => row.attempts <= task'[t].base
      BY <1>4, <3>2, <3>3, <3>5 DEF Paid
    <3> QED
      BY <3>4, <3>5, <3>6, <3>7
  <2> QED
    BY <2>1, <2>2, <2>3 DEF PagePaid
<1> QED
  BY <1>2, <1>7, <1>8 DEF EffortInv, SweepEffortIsBounded

\* A row of the page is tried: the try was paid for when the page was read.
LEMMA TryPaid ==
    ASSUME Typed, EffortInv, NEW row \in task[Sweeper].todo, NEW k,
           task[Sweeper].op = "settle", task[Sweeper].pc \notin AtWork,
           row.attempts < MaxAttempts,
           task' = [task EXCEPT ![Sweeper] = k], Works(k, row.id),
           k.base = row.attempts, k.todo = task[Sweeper].todo \ {row},
           effort' = [effort EXCEPT ![row.id] = @ + 1],
           UNCHANGED <<cases, faults>>
    PROVE  EffortInv'
<1> DEFINE c == row.id
<1>1. Numbers /\ Cases' = Cases
  BY NumbersAre DEF Cases
<1>2. c \in Cases /\ c \in CaseId /\ row.attempts \in Nat /\ effort[c] \in Nat
      /\ faults \in Nat /\ cases[c].attempts \in Nat
  BY <1>1 DEF Numbers
<1>3. /\ effort[c] + 1 <= row.attempts + faults
      /\ row.attempts <= cases[c].attempts
      /\ \A t \in Staff : Works(task[t], c) => row.attempts <= task[t].base
      /\ \A other \in task[Sweeper].todo : c = other.id => row = other
  BY DEF EffortInv, PagePaid
<1>4. effort'[c] = effort[c] + 1 /\ \A b \in CaseId : b # c => effort'[b] = effort[b]
  BY <1>2 DEF Typed, TypeOK
<1>5. task'[Sweeper] = k /\ Sweeper \in Task /\ Sweeper \notin Staff
      /\ \A u \in Staff : u \in Task /\ task'[u] = task[u]
  BY OthersWork, EnforcementAssumption
<1>6. \A b : ~Works(task[Sweeper], b)
  BY DEF Works
<1>7. Paid(c)'
  <2>1. effort'[c] <= cases'[c].attempts + faults'
    BY <1>2, <1>3, <1>4
  <2>2. \A t \in Task : Works(task'[t], c) => effort'[c] <= task'[t].base + faults'
    <3> TAKE t \in Task
    <3> HAVE Works(task'[t], c)
    <3>1. CASE t = Sweeper
      BY <1>3, <1>4, <1>5, <3>1
    <3>2. CASE t \in Staff
      <4>1. row.attempts <= task[t].base /\ task'[t].base = task[t].base
            /\ task[t].base \in Nat
        BY <1>1, <1>3, <1>5, <3>2 DEF Numbers
      <4> QED
        BY <1>2, <1>3, <1>4, <4>1
    <3> QED
      BY <3>1, <3>2
  <2>3. \A t \in Staff : cases'[c].quiet /\ Works(task'[t], c)
                           => cases'[c].attempts <= task'[t].base
    BY <1>2, <1>5 DEF EffortInv, Paid
  <2> QED
    BY <1>5, <2>1, <2>2, <2>3 DEF Paid
<1>8. ASSUME NEW b \in Cases, b # c PROVE Paid(b)'
  <2>1. Paid(b) /\ effort'[b] = effort[b]
    BY <1>1, <1>4, <1>8 DEF EffortInv, Numbers
  <2>2. ~Works(task'[Sweeper], b) /\ ~Works(task[Sweeper], b)
    BY <1>5, <1>6, <1>8 DEF Works
  <2>3. \A u \in Task : Works(task'[u], b) <=> Works(task[u], b)
    BY <1>5, <2>2
  <2>4. \A u \in Task : Works(task[u], b) => task'[u] = task[u]
    BY <1>5, <1>6
  <2> QED
    BY <2>1, <2>2, <2>3, <2>4 DEF Paid
<1>9. PagePaid'
  <2> SUFFICES ASSUME NEW r \in k.todo
               PROVE  /\ effort'[r.id] + 1 <= r.attempts + faults
                      /\ r.attempts <= cases[r.id].attempts
                      /\ \A t \in Staff : Works(task'[t], r.id)
                                             => r.attempts <= task'[t].base
                      /\ ~Works(k, r.id)
                      /\ \A other \in k.todo : r.id = other.id => r = other
    BY <1>5 DEF PagePaid
  <2>1. r \in task[Sweeper].todo /\ r # row /\ r.id # c /\ r.id \in CaseId
    BY <1>1, <1>3 DEF Numbers
  <2>2. /\ effort[r.id] + 1 <= r.attempts + faults
        /\ r.attempts <= cases[r.id].attempts
        /\ \A t \in Staff : Works(task[t], r.id) => r.attempts <= task[t].base
        /\ \A other \in task[Sweeper].todo : r.id = other.id => r = other
    BY <2>1 DEF EffortInv, PagePaid
  <2>3. ~Works(k, r.id)
    BY <2>1 DEF Works
  <2> QED
    BY <1>4, <1>5, <2>1, <2>2, <2>3
<1>10. SweepEffortIsBounded'
  <2>1. effort'[c] <= MaxAttempts - 1 + faults
    BY <1>2, <1>3, <1>4, EnforcementAssumption
  <2> QED
    BY <1>1, <1>4, <2>1 DEF EffortInv, SweepEffortIsBounded, Numbers
<1>11. \A b \in CaseId \ Cases : effort'[b] = 0
  BY <1>2, <1>4 DEF EffortInv
<1> QED
  BY <1>1, <1>7, <1>8, <1>9, <1>10, <1>11 DEF EffortInv

LEMMA SettleNextPaid ==
    ASSUME Typed, EffortInv, SettleNext
    PROVE  EffortInv'
<1> DEFINE k == task[Sweeper]
<1>1. k \in TaskState /\ k.op = "settle" /\ k.pc \notin AtWork /\ Numbers
  BY TaskHere, NumbersAre DEF SettleNext, AtWork
<1>2. PICK row \in k.todo :
         LET rest == [k EXCEPT !.todo = @ \ {row}] IN
         /\ row.id \in Cases
         /\ rest \in TaskState /\ rest.todo = k.todo \ {row}
         /\ rest.op = "settle"
         /\ \/ /\ ~outOfAttempts(row)
               /\ task' = [task EXCEPT ![Sweeper] =
                              Enforcing(rest, "settle", row.id, row.attempts)]
               /\ effort' = [effort EXCEPT ![row.id] = @ + 1]
               /\ UNCHANGED <<cases, faults>>
            \/ /\ task' = [task EXCEPT ![Sweeper] =
                              [rest EXCEPT !.pc = "alert", !.case = row.id]]
               /\ \/ UNCHANGED cases /\ faults' = faults + 1
                  \/ /\ cases' = [cases EXCEPT ![row.id] =
                                     [cases[row.id] EXCEPT !.enforcement = "FAILED"]]
                     /\ faults' = faults
               /\ UNCHANGED effort
  BY SettledRow
<1> DEFINE rest == [k EXCEPT !.todo = @ \ {row}]
<1>3. ASSUME ~outOfAttempts(row),
             task' = [task EXCEPT ![Sweeper] =
                              Enforcing(rest, "settle", row.id, row.attempts)],
             effort' = [effort EXCEPT ![row.id] = @ + 1],
             UNCHANGED <<cases, faults>>
      PROVE  EffortInv'
  <2> DEFINE n == Enforcing(rest, "settle", row.id, row.attempts)
  <2>1. row.attempts < MaxAttempts
    <3>1. row.attempts \in Nat
      BY <1>1 DEF Numbers
    <3> QED
      BY <1>3, <3>1, EnforcementAssumption DEF outOfAttempts
  <2>2. n.pc = "mirror" /\ n.case = row.id /\ n.base = row.attempts /\ n.todo = k.todo \ {row}
    <3>1. rest \in TaskState /\ rest.todo = k.todo \ {row}
      BY <1>2
    <3> HIDE DEF rest
    <3> QED
      BY <3>1, EnforcingWorks
  <2>3. task' = [task EXCEPT ![Sweeper] = n]
    BY <1>3
  <2> HIDE DEF n, rest
  <2>4. Works(n, row.id)
    BY <2>2 DEF Works, AtWork
  <2> QED
    BY <1>1, <1>3, <2>1, <2>2, <2>3, <2>4, TryPaid
<1>4. ASSUME task' = [task EXCEPT ![Sweeper] =
                              [rest EXCEPT !.pc = "alert", !.case = row.id]],
             \/ UNCHANGED cases /\ faults' = faults + 1
             \/ /\ cases' = [cases EXCEPT ![row.id] =
                                [cases[row.id] EXCEPT !.enforcement = "FAILED"]]
                /\ faults' = faults,
             UNCHANGED effort
      PROVE  EffortInv'
  <2> DEFINE n == [rest EXCEPT !.pc = "alert", !.case = row.id]
             failed == [cases[row.id] EXCEPT !.enforcement = "FAILED"]
  <2>1. n.pc \notin AtWork /\ KeepsPage(n, k)
    BY <1>1, <1>2 DEF AtWork, KeepsPage, TaskState
  <2>2. failed \in Row /\ failed.type = cases[row.id].type
        /\ failed.attempts = cases[row.id].attempts /\ failed.quiet = cases[row.id].quiet
    BY <1>2, RowsAreRows DEF Row, EnforcementStatus, Typed
  <2>3. SameCounts
    BY <1>2, <1>4, <2>2, FaultsGrow, UnchangedCounts, RewrittenCounts
  <2> QED
    BY <1>1, <1>4, <2>1, <2>3, RestingTask
<1> QED
  BY <1>2, <1>3, <1>4

LEMMA ReversalPaid ==
    ASSUME Typed, EffortInv, reverseExpired \/ ReverseNext \/ deactivateExpired
    PROVE  EffortInv'
<1>1. task[Sweeper] \in TaskState /\ Refers(task[Sweeper], cases) /\ Sweeper \in Task /\ TypeOK
  BY TaskHere DEF Typed
<1>2. CASE reverseExpired
  <2>1. PICK page : task' = [task EXCEPT ![Sweeper] =
                     [Idle EXCEPT !.op = "reverse", !.pc = "next",
                                  !.todo = Page(page)]]
    BY <1>2 DEF reverseExpired
  <2> DEFINE k == [Idle EXCEPT !.op = "reverse", !.pc = "next",
                               !.todo = Page(page)]
  <2>2. k.pc \notin AtWork /\ KeepsPage(k, task[Sweeper]) /\ task[Sweeper].pc \notin AtWork
    BY <1>2 DEF Idle, AtWork, KeepsPage, reverseExpired
  <2>3. SameCounts
    BY <1>2, FaultsGrow, UnchangedCounts DEF reverseExpired
  <2> QED
    BY <2>1, <2>2, <2>3, RestingTask
<1>3. CASE ReverseNext
  <2>1. PICK row \in task[Sweeper].todo :
         /\ createAction(REVERSALS[cases[row.id].type], "none")
         /\ task' = [task EXCEPT ![Sweeper] =
               Enforcing([task[Sweeper] EXCEPT !.todo = @ \ {row}], "reverse", NextId, 0)]
    BY <1>3 DEF ReverseNext
  <2> DEFINE type == REVERSALS[cases[row.id].type]
             rest == [task[Sweeper] EXCEPT !.todo = @ \ {row}]
             k == Enforcing(rest, "reverse", NextId, 0)
  <2>2. holdsEnforcement(cases[row.id].type)
    BY <1>1, <1>3 DEF Refers, ReverseNext
  <2>3. type \in ModActionType /\ "none" \in Clock
    BY <2>2 DEF REVERSALS, holdsEnforcement, ModActionType, Holding, Lifting, Clock
  <2>4. rest \in TaskState
    BY <1>1 DEF TaskState
  <2>5. k.pc \in AtWork /\ k.case = NextId /\ k.base = 0 /\ k.op # "settle"
    BY <2>4, EnforcingWorks DEF AtWork
  <2>6. createAction(type, "none") /\ task' = [task EXCEPT ![Sweeper] = k]
        /\ task[Sweeper].pc \notin AtWork /\ UNCHANGED <<effort, faults>>
    BY <1>3, <2>1 DEF ReverseNext, AtWork
  <2> HIDE DEF k, type
  <2> QED
    BY <1>1, <2>3, <2>5, <2>6, OpeningStep
<1>4. CASE deactivateExpired
  <2>1. Cases' = Cases /\ \A c \in Cases : \/ cases'[c] = cases[c]
                                           \/ cases'[c] = [cases[c] EXCEPT !.active = FALSE]
    BY <1>1, <1>4, DeactivatedRows
  <2>2. \A c \in Cases : /\ cases'[c].attempts = cases[c].attempts
                         /\ cases'[c].quiet = cases[c].quiet
    <3> TAKE c \in Cases
    <3>1. cases[c] \in Row
      BY <1>1, RowsAreRows
    <3>2. [cases[c] EXCEPT !.active = FALSE].attempts = cases[c].attempts
          /\ [cases[c] EXCEPT !.active = FALSE].quiet = cases[c].quiet
      BY <3>1 DEF Row
    <3> QED
      BY <2>1, <3>2
  <2>3. SameCounts
    BY <1>4, <2>1, <2>2, FaultsGrow DEF SameCounts, deactivateExpired
  <2>4. task' = [task EXCEPT ![Sweeper] = Idle] /\ task[Sweeper].pc \notin AtWork
        /\ Idle.pc \notin AtWork /\ KeepsPage(Idle, task[Sweeper])
    BY <1>4 DEF deactivateExpired, AtWork, Idle, KeepsPage
  <2> QED
    BY <1>1, <2>3, <2>4, RestingTask
<1> QED
  BY <1>2, <1>3, <1>4

LEMMA NoTaskPaid ==
    ASSUME Typed, EffortInv, SameCounts, UNCHANGED task
    PROVE  EffortInv'
<1>1. \A u \in Task : SameWork(task'[u], task[u])
  BY DEF SameWork, KeepsPage
<1> QED
  BY <1>1, CalmStep

\* A row goes quiet when no attempt on it is under way, so it owes nothing.
LEMMA QuietPaid ==
    ASSUME Typed, EffortInv, NEW c \in Cases, GraceElapses(c)
    PROVE  EffortInv'
<1> DEFINE row == [cases[c] EXCEPT !.quiet = TRUE]
<1>1. Numbers
  BY NumbersAre
<1>2. row \in Row /\ row.type = cases[c].type /\ row.attempts = cases[c].attempts
      /\ row.quiet = TRUE
  <2>1. cases[c] \in Row
    BY RowsAreRows DEF Typed
  <2> QED
    BY <2>1 DEF Row
<1>3. cases' = [cases EXCEPT ![c] = row] /\ UNCHANGED <<task, effort, faults>>
  BY DEF GraceElapses
<1>4. Cases' = Cases /\ \A b \in Cases : cases'[b] = IF b = c THEN row ELSE cases[b]
  BY <1>2, <1>3, Rewriting DEF Typed
<1>5. \A t \in Task : ~Works(task[t], c)
  BY DEF GraceElapses, InFlight, Works, AtWork
<1>6. Paid(c)'
  BY <1>2, <1>3, <1>4, <1>5 DEF EffortInv, Paid
<1>7. ASSUME NEW b \in Cases, b # c PROVE Paid(b)'
  <2>1. Paid(b) /\ cases'[b] = cases[b]
    BY <1>4, <1>7 DEF EffortInv
  <2> QED
    BY <1>3, <2>1 DEF Paid
<1>8. PagePaid'
  <2>1. \A b \in Cases : cases'[b].attempts = cases[b].attempts
    BY <1>2, <1>4
  <2> QED
    BY <1>1, <1>3, <2>1 DEF EffortInv, PagePaid, Numbers
<1> QED
  BY <1>3, <1>4, <1>6, <1>7, <1>8 DEF EffortInv, SweepEffortIsBounded

LEMMA InitPaid == Init => EffortInv
<1> SUFFICES ASSUME Init PROVE EffortInv
  OBVIOUS
<1>1. Cases = {}
  BY EmptySeq DEF Init, Cases
<1>2. PagePaid
  BY DEF Init, PagePaid, Idle
<1> QED
  BY <1>1, <1>2 DEF EffortInv, Init, SweepEffortIsBounded

LEMMA NextPaid == Typed /\ EffortInv /\ [Next]_vars => EffortInv'
<1> SUFFICES ASSUME Typed, EffortInv, [Next]_vars PROVE EffortInv'
  OBVIOUS
<1>1. ASSUME NEW t \in Staff, Request(t) PROVE EffortInv'
  BY <1>1, RequestPaid
<1>2. ASSUME NEW c \in Cases, NEW status \in EnforcementStatus \ {"PENDING"},
             setEnforcementManually(c, status)
      PROVE  EffortInv'
  <2> DEFINE row == [cases[c] EXCEPT !.enforcement = status]
  <2>1. row \in Row /\ row.type = cases[c].type /\ row.attempts = cases[c].attempts
        /\ row.quiet = cases[c].quiet
    BY RowsAreRows DEF Row, Typed
  <2>2. cases' = [cases EXCEPT ![c] = row] /\ UNCHANGED <<task, effort, faults>>
    BY <1>2 DEF setEnforcementManually
  <2> QED
    BY <2>1, <2>2, FaultsGrow, RewrittenCounts, NoTaskPaid
<1>3. ASSUME NEW t \in Task, EnforceStep(t) PROVE EffortInv'
  BY <1>3, AttemptPaid, StampPaid, alertStaffPaid DEF EnforceStep
<1>4. ASSUME NEW t \in Staff, VoidStep(t) PROVE EffortInv'
  BY <1>4, VoidStepPaid
<1>5. CASE SweepStep
  BY <1>5, settleStalePendingPaid, SettleNextPaid, ReversalPaid DEF SweepStep
<1>6. CASE Environment
  <2>1. ASSUME NEW c \in Cases, ClockRunsOut(c) PROVE EffortInv'
    <3> DEFINE row == [cases[c] EXCEPT !.clock = "out"]
    <3>1. row \in Row /\ row.type = cases[c].type /\ row.attempts = cases[c].attempts
          /\ row.quiet = cases[c].quiet
      BY RowsAreRows DEF Row, Typed, Clock
    <3>2. cases' = [cases EXCEPT ![c] = row] /\ UNCHANGED <<task, effort, faults>>
      BY <2>1 DEF ClockRunsOut
    <3> QED
      BY <3>1, <3>2, FaultsGrow, RewrittenCounts, NoTaskPaid
  <2>2. ASSUME NEW h \in Holding, MirrorLapses(h) PROVE EffortInv'
    BY <2>2, FaultsGrow, UnchangedCounts, NoTaskPaid DEF MirrorLapses
  <2>3. ASSUME TimeoutLapses \/ Rejoin PROVE EffortInv'
    BY <2>3, FaultsGrow, UnchangedCounts, NoTaskPaid DEF TimeoutLapses, Rejoin
  <2> QED
    BY <1>6, <2>1, <2>2, <2>3, QuietPaid DEF Environment
<1>7. ASSUME NEW t \in Task, Crash(t) PROVE EffortInv'
  <2>1. SameCounts /\ faults < faults'
    BY <1>7, FaultsGrow, UnchangedCounts, NumbersAre DEF Crash, Numbers
  <2>2. Stops(Idle, task[t])
    BY DEF Stops, Idle, AtWork, KeepsPage
  <2> QED
    BY <1>7, <2>1, <2>2, CalmTask DEF Crash
<1>8. CASE UNCHANGED vars
  BY <1>8, FaultsGrow, UnchangedCounts, NoTaskPaid DEF vars
<1> QED
  BY <1>1, <1>2, <1>3, <1>4, <1>5, <1>6, <1>7, <1>8 DEF Next

\* However panel retries, stamps that overwrite each other's count, lost writes
\* and crashes race the sweep of service.ts, it tries a case at most
\* MaxAttempts - 1 times and once more for each fault.
THEOREM SweepEffortIsBoundedAlways == Spec => []SweepEffortIsBounded
<1>1. EffortInv => SweepEffortIsBounded
  BY DEF EffortInv
<1> QED
  BY InitTyped, NextTyped, InitPaid, NextPaid, <1>1, PTL DEF Spec

----------------------------------------------------------------------------
(* Failures are raised.                                                    *)

Told(c) == c \in raised \/ \E t \in Task : task[t].pc = "alert" /\ task[t].case = c

\* No case reads FAILED that did not before.
NothingFails ==
    \A c \in Cases' : cases'[c].enforcement = "FAILED"
                         => c \in Cases /\ cases[c].enforcement = "FAILED"

LEMMA TellingStep ==
    ASSUME Typed, FailureIsRaised, NothingFails, NEW t \in Task, NEW k,
           task' = [task EXCEPT ![t] = k],
           task[t].pc = "alert" => task[t].case \in raised',
           raised \subseteq raised', faults' = faults
    PROVE  FailureIsRaised'
<1>1. \A u \in Task : u # t => task'[u] = task[u]
  BY OthersWork
<1>2. ASSUME NEW c, Told(c) PROVE Told(c)'
  BY <1>1, <1>2 DEF Told
<1> QED
  BY <1>2 DEF FailureIsRaised, NothingFails, Told

LEMMA NobodyToldStep ==
    ASSUME FailureIsRaised, NothingFails, UNCHANGED <<task, raised, faults>>
    PROVE  FailureIsRaised'
  BY DEF FailureIsRaised, NothingFails

\* With a fault nothing is claimed.
LEMMA FaultyStep ==
    ASSUME Typed, faults' = faults + 1
    PROVE  FailureIsRaised'
  BY NumbersAre DEF Numbers, FailureIsRaised

\* A verdict is written: a failure is the writer's to announce.
LEMMA VerdictStep ==
    ASSUME Typed, FailureIsRaised, NEW c \in Cases, NEW row \in Row,
           row.type = cases[c].type, cases' = [cases EXCEPT ![c] = row],
           raised' = raised \ {c}, faults' = faults,
           NEW t \in Task, NEW k, task' = [task EXCEPT ![t] = k],
           task[t].pc # "alert", row.enforcement = "FAILED" => k.pc = "alert" /\ k.case = c
    PROVE  FailureIsRaised'
<1>1. Cases' = Cases /\ \A b \in Cases : cases'[b] = IF b = c THEN row ELSE cases[b]
  BY Rewriting DEF Typed
<1>2. task'[t] = k /\ \A u \in Task : u # t => task'[u] = task[u]
  BY OthersWork
<1>3. ASSUME NEW b \in Cases, cases'[b].enforcement = "FAILED", faults' = 0
      PROVE  Told(b)'
  <2>1. CASE b = c
    BY <1>1, <1>2, <1>3, <2>1 DEF Told
  <2>2. CASE b # c
    <3>1. cases[b].enforcement = "FAILED" /\ faults = 0
      BY <1>1, <1>3, <2>2
    <3>2. Told(b)
      BY <3>1 DEF FailureIsRaised, Told
    <3> QED
      BY <1>2, <2>2, <3>2 DEF Told
  <2> QED
    BY <2>1, <2>2
<1> QED
  BY <1>1, <1>3 DEF FailureIsRaised, Told

LEMMA OpenedUnfailed ==
    ASSUME Typed, NEW type \in ModActionType, NEW clock \in Clock, createAction(type, clock)
    PROVE  NothingFails
<1>1. Kept
  BY CreationKeeps DEF Typed
<1> QED
  BY <1>1 DEF Kept, NothingFails

LEMMA RewrittenUnfailed ==
    ASSUME Typed, NEW c \in Cases, NEW row \in Row, row.type = cases[c].type,
           row.enforcement = cases[c].enforcement, cases' = [cases EXCEPT ![c] = row]
    PROVE  NothingFails
<1>1. Cases' = Cases /\ \A b \in Cases : cases'[b] = IF b = c THEN row ELSE cases[b]
  BY Rewriting DEF Typed
<1> QED
  BY <1>1 DEF NothingFails

LEMMA UnchangedUnfailed ==
    ASSUME UNCHANGED cases PROVE NothingFails
  BY DEF NothingFails, Cases

LEMMA RequestRaised ==
    ASSUME Typed, FailureIsRaised, NEW t \in Staff, Request(t)
    PROVE  FailureIsRaised'
<1>1. task[t].pc # "alert" /\ raised' = raised /\ faults' = faults
  BY DEF Request, applyAction, recordDiscordAction, retryEnforcement, voidAction, updateAction
<1>2. PICK k : task' = [task EXCEPT ![t] = k]
  BY DEF Request, applyAction, recordDiscordAction, retryEnforcement, voidAction, updateAction
<1>3. NothingFails
  <2>1. ASSUME NEW type \in StaffTypes, NEW clock \in StaffClocks, applyAction(t, type, clock)
        PROVE  NothingFails
    BY <2>1, EnforcementAssumption, OpenedUnfailed DEF applyAction, Clock
  <2>2. ASSUME NEW type \in StaffTypes, recordDiscordAction(t, type)
        PROVE  NothingFails
    BY <2>2, EnforcementAssumption, OpenedUnfailed DEF recordDiscordAction, Clock
  <2>3. ASSUME NEW c \in Cases, retryEnforcement(t, c) \/ voidAction(t, c)
        PROVE  NothingFails
    BY <2>3, UnchangedUnfailed DEF retryEnforcement, voidAction
  <2>4. ASSUME NEW c \in Cases, NEW clock \in Clock, updateAction(t, c, clock)
        PROVE  NothingFails
    <3> DEFINE row == [cases[c] EXCEPT !.clock = clock]
    <3>1. row \in Row /\ row.type = cases[c].type /\ row.enforcement = cases[c].enforcement
      BY RowsAreRows DEF Row, Typed
    <3>2. cases' = [cases EXCEPT ![c] = row]
      BY <2>4 DEF updateAction
    <3> QED
      BY <3>1, <3>2, RewrittenUnfailed
  <2> QED
    BY <2>1, <2>2, <2>3, <2>4 DEF Request
<1> QED
  BY <1>1, <1>2, <1>3, TellingStep

LEMMA EnforceStepRaised ==
    ASSUME Typed, FailureIsRaised, NEW t \in Task, EnforceStep(t)
    PROVE  FailureIsRaised'
<1>1. task[t] \in TaskState /\ TypeOK
  BY TaskHere DEF Typed
<1>2. CASE Mirror(t) \/ Discord(t) \/ Game(t)
  <2>1. PICK k : task' = [task EXCEPT ![t] = k]
    <3>1. CASE Mirror(t)
      BY <1>1, <3>1 DEF Mirror, TypeOK
    <3>2. CASE Discord(t)
      BY <1>1, <3>2 DEF Discord, TypeOK
    <3>3. CASE Game(t)
      BY <1>1, <3>3 DEF Game, TypeOK
    <3> QED
      BY <1>2, <3>1, <3>2, <3>3
  <2>2. task[t].pc # "alert" /\ raised' = raised /\ NothingFails
    BY <1>2, UnchangedUnfailed DEF Mirror, Discord, Game
  <2>3. faults' = faults \/ faults' = faults + 1
    BY <1>2 DEF Mirror, Discord, Game, LandsOrNot
  <2> QED
    BY <2>1, <2>2, <2>3, TellingStep, FaultyStep
<1>3. CASE Stamp(t)
  <2> DEFINE k == task[t]
             status == Verdict(k.d, k.g)
             row == [cases[k.case] EXCEPT !.enforcement = status,
                                          !.attempts = k.base + 1, !.quiet = FALSE]
             n == AfterStamp(k, status)
  <2>1. /\ k.case \in Cases
        /\ row \in Row /\ row.type = cases[k.case].type
        /\ \/ faults' = faults + 1
           \/ cases' = [cases EXCEPT ![k.case] = row] /\ raised' = raised \ {k.case}
              /\ faults' = faults
        /\ task' = [task EXCEPT ![t] = n]
    BY <1>3, StampedRow
  <2>2. row.enforcement = status /\ k.pc # "alert"
    BY <1>1, <1>3, <2>1, RowsAreRows DEF Stamp, Row
  <2>3. status = "FAILED" => n.pc = "alert" /\ n.case = k.case
    BY <1>1 DEF AfterStamp, TaskState
  <2> HIDE DEF row, status, n
  <2> QED
    BY <2>1, <2>2, <2>3, VerdictStep, FaultyStep
<1>4. CASE alertStaff(t)
  <2>1. task' = [task EXCEPT ![t] = Resume(task[t])] /\ raised' = raised \cup {task[t].case}
        /\ faults' = faults /\ NothingFails
    BY <1>4, UnchangedUnfailed DEF alertStaff
  <2> QED
    BY <2>1, TellingStep
<1> QED
  BY <1>2, <1>3, <1>4 DEF EnforceStep

LEMMA VoidStepRaised ==
    ASSUME Typed, FailureIsRaised, NEW t \in Staff, VoidStep(t)
    PROVE  FailureIsRaised'
<1>1. task[t] \in TaskState /\ Refers(task[t], cases) /\ TypeOK
  BY TaskHere DEF Typed
<1>2. task[t].pc # "alert" /\ raised' = raised
  BY DEF VoidStep, VoidLift, VoidMark, Remirror
<1>3. PICK k : task' = [task EXCEPT ![t] = k]
  BY <1>1 DEF VoidStep, VoidLift, VoidMark, Remirror, TypeOK
<1>4. faults' = faults \/ faults' = faults + 1
  BY DEF VoidStep, VoidLift, VoidMark, Remirror, LandsOrNot
<1>5. NothingFails
  <2>1. CASE VoidLift(t)
    <3> DEFINE type == REVERSALS[cases[task[t].subject].type]
    <3>1. type \in ModActionType /\ "none" \in Clock /\ createAction(type, "none")
      BY <1>1, <2>1 DEF VoidLift, Refers, REVERSALS, holdsEnforcement, ModActionType,
                        Holding, Lifting, Clock
    <3> HIDE DEF type
    <3> QED
      BY <3>1, OpenedUnfailed
  <2>2. CASE VoidMark(t)
    <3> DEFINE c == task[t].subject
               row == Withdrawn(cases[c])
    <3>1. c \in Cases /\ cases' = [cases EXCEPT ![c] = row]
      BY <1>1, <2>2 DEF VoidMark, Refers, Cases
    <3>2. row \in Row /\ row.type = cases[c].type /\ row.enforcement = cases[c].enforcement
      BY <1>1, <3>1, RowsAreRows DEF Row, Withdrawn
    <3> QED
      BY <3>1, <3>2, RewrittenUnfailed
  <2>3. CASE Remirror(t)
    BY <2>3, UnchangedUnfailed DEF Remirror
  <2> QED
    BY <2>1, <2>2, <2>3 DEF VoidStep
<1> QED
  BY <1>2, <1>3, <1>4, <1>5, TellingStep, FaultyStep

LEMMA SweepStepRaised ==
    ASSUME Typed, FailureIsRaised, SweepStep
    PROVE  FailureIsRaised'
<1>1. task[Sweeper] \in TaskState /\ Refers(task[Sweeper], cases) /\ Sweeper \in Task /\ TypeOK
  BY TaskHere DEF Typed
<1>2. task[Sweeper].pc # "alert"
  BY DEF SweepStep, settleStalePending, SettleNext, reverseExpired, ReverseNext,
         deactivateExpired
<1>3. CASE SettleNext
  <2> DEFINE k == task[Sweeper]
  <2>1. PICK row \in k.todo :
         LET rest == [k EXCEPT !.todo = @ \ {row}] IN
         /\ row.id \in Cases /\ rest \in TaskState
         /\ \/ /\ task' = [task EXCEPT ![Sweeper] =
                              Enforcing(rest, "settle", row.id, row.attempts)]
               /\ UNCHANGED <<cases, raised, faults>>
            \/ /\ task' = [task EXCEPT ![Sweeper] =
                              [rest EXCEPT !.pc = "alert", !.case = row.id]]
               /\ \/ faults' = faults + 1
                  \/ /\ cases' = [cases EXCEPT ![row.id] =
                                     [cases[row.id] EXCEPT !.enforcement = "FAILED"]]
                     /\ raised' = raised \ {row.id} /\ faults' = faults
    BY <1>3, SettledRow
  <2> DEFINE rest == [k EXCEPT !.todo = @ \ {row}]
             n == [rest EXCEPT !.pc = "alert", !.case = row.id]
             failed == [cases[row.id] EXCEPT !.enforcement = "FAILED"]
  <2>2. ASSUME task' = [task EXCEPT ![Sweeper] =
                              Enforcing(rest, "settle", row.id, row.attempts)],
               UNCHANGED <<cases, raised, faults>>
        PROVE  FailureIsRaised'
    BY <1>1, <1>2, <2>2, UnchangedUnfailed, TellingStep
  <2>3. ASSUME task' = [task EXCEPT ![Sweeper] = n],
               cases' = [cases EXCEPT ![row.id] = failed],
               raised' = raised \ {row.id}, faults' = faults
        PROVE  FailureIsRaised'
    <3>1. failed \in Row /\ failed.type = cases[row.id].type
      BY <1>1, <2>1, FailedRow
    <3>2. n.pc = "alert" /\ n.case = row.id
      BY <2>1 DEF TaskState
    <3> HIDE DEF n, failed
    <3> QED
      BY <1>1, <1>2, <2>1, <2>3, <3>1, <3>2, VerdictStep
  <2> QED
    BY <2>1, <2>2, <2>3, FaultyStep
<1>4. CASE settleStalePending \/ reverseExpired
  <2>1. PICK k : task' = [task EXCEPT ![Sweeper] = k]
    BY <1>4 DEF settleStalePending, reverseExpired
  <2>2. UNCHANGED <<cases, raised, faults>>
    BY <1>4 DEF settleStalePending, reverseExpired
  <2> QED
    BY <1>1, <1>2, <2>1, <2>2, UnchangedUnfailed, TellingStep
<1>5. CASE ReverseNext
  <2>1. PICK row \in task[Sweeper].todo :
         /\ createAction(REVERSALS[cases[row.id].type], "none")
         /\ task' = [task EXCEPT ![Sweeper] =
               Enforcing([task[Sweeper] EXCEPT !.todo = @ \ {row}], "reverse", NextId, 0)]
    BY <1>5 DEF ReverseNext
  <2> DEFINE type == REVERSALS[cases[row.id].type]
  <2>2. type \in ModActionType /\ "none" \in Clock
    BY <1>1, <1>5, <2>1 DEF Refers, ReverseNext, REVERSALS, holdsEnforcement, ModActionType,
                            Holding, Lifting, Clock
  <2>3. NothingFails
    BY <2>1, <2>2, OpenedUnfailed
  <2> QED
    BY <1>1, <1>2, <1>5, <2>1, <2>3, TellingStep DEF ReverseNext
<1>6. CASE deactivateExpired
  <2>1. Cases' = Cases /\ \A c \in Cases : \/ cases'[c] = cases[c]
                                           \/ cases'[c] = [cases[c] EXCEPT !.active = FALSE]
    BY <1>1, <1>6, DeactivatedRows
  <2>2. \A c \in Cases : cases'[c].enforcement = cases[c].enforcement
    <3> TAKE c \in Cases
    <3>1. cases[c] \in Row
      BY <1>1, RowsAreRows
    <3>2. [cases[c] EXCEPT !.active = FALSE].enforcement = cases[c].enforcement
      BY <3>1 DEF Row
    <3> QED
      BY <2>1, <3>2
  <2>3. NothingFails
    BY <2>1, <2>2 DEF NothingFails
  <2> QED
    BY <1>1, <1>2, <1>6, <2>3, TellingStep DEF deactivateExpired
<1> QED
  BY <1>3, <1>4, <1>5, <1>6 DEF SweepStep

LEMMA NextRaised == Typed /\ FailureIsRaised /\ [Next]_vars => FailureIsRaised'
<1> SUFFICES ASSUME Typed, FailureIsRaised, [Next]_vars PROVE FailureIsRaised'
  OBVIOUS
<1>1. ASSUME NEW c \in Cases, NEW status \in EnforcementStatus \ {"PENDING"},
             setEnforcementManually(c, status)
      PROVE  FailureIsRaised'
  <2> DEFINE row == [cases[c] EXCEPT !.enforcement = status]
  <2>1. row \in Row /\ row.type = cases[c].type /\ row.enforcement = status
    BY RowsAreRows DEF Row, Typed
  <2>2. cases' = [cases EXCEPT ![c] = row] /\ UNCHANGED <<task, faults>>
        /\ raised' = IF status = "FAILED" THEN raised \cup {c} ELSE raised \ {c}
    BY <1>1 DEF setEnforcementManually
  <2>3. Cases' = Cases /\ \A b \in Cases : cases'[b] = IF b = c THEN row ELSE cases[b]
    BY <2>1, <2>2, Rewriting DEF Typed
  <2>4. ASSUME NEW b \in Cases, cases'[b].enforcement = "FAILED", faults = 0
        PROVE  b \in raised' \/ \E t \in Task : task[t].pc = "alert" /\ task[t].case = b
    <3>1. CASE b = c
      BY <2>1, <2>2, <2>3, <2>4, <3>1
    <3>2. CASE b # c
      <4>1. cases[b].enforcement = "FAILED"
        BY <2>3, <2>4, <3>2
      <4>2. b \in raised \/ \E t \in Task : task[t].pc = "alert" /\ task[t].case = b
        BY <2>4, <4>1 DEF FailureIsRaised
      <4> QED
        BY <2>2, <3>2, <4>2
    <3> QED
      BY <3>1, <3>2
  <2> QED
    BY <2>2, <2>3, <2>4 DEF FailureIsRaised
<1>2. CASE Environment
  <2>1. ASSUME NEW c \in Cases, ClockRunsOut(c) \/ GraceElapses(c) PROVE FailureIsRaised'
    <3> DEFINE out == [cases[c] EXCEPT !.clock = "out"]
               quiet == [cases[c] EXCEPT !.quiet = TRUE]
    <3>1. \A row \in {out, quiet} : row \in Row /\ row.type = cases[c].type
                                    /\ row.enforcement = cases[c].enforcement
      <4>1. cases[c] \in Row
        BY RowsAreRows DEF Typed
      <4> QED
        BY <4>1 DEF Row, Clock
    <3>2. PICK row \in {out, quiet} : cases' = [cases EXCEPT ![c] = row]
      BY <2>1 DEF ClockRunsOut, GraceElapses
    <3>3. NothingFails
      BY <3>1, <3>2, RewrittenUnfailed
    <3> QED
      BY <2>1, <3>3, NobodyToldStep DEF ClockRunsOut, GraceElapses
  <2>2. ASSUME NEW h \in Holding, MirrorLapses(h) PROVE FailureIsRaised'
    BY <2>2, UnchangedUnfailed, NobodyToldStep DEF MirrorLapses
  <2>3. ASSUME TimeoutLapses \/ Rejoin PROVE FailureIsRaised'
    BY <2>3, UnchangedUnfailed, NobodyToldStep DEF TimeoutLapses, Rejoin
  <2> QED
    BY <1>2, <2>1, <2>2, <2>3 DEF Environment
<1>3. ASSUME NEW t \in Task, Crash(t) PROVE FailureIsRaised'
  BY <1>3, FaultyStep DEF Crash
<1>4. CASE UNCHANGED vars
  BY <1>4, UnchangedUnfailed, NobodyToldStep DEF vars
<1> QED
  BY <1>1, <1>2, <1>3, <1>4, RequestRaised, EnforceStepRaised, VoidStepRaised,
     SweepStepRaised DEF Next

\* With no crash and no lost write, a case that service.ts marks FAILED, on the
\* first attempt, a retry or in the sweep, is announced to staff, or the task
\* that marked it is just about to, though another task's verdict may race it.
THEOREM FailureIsRaisedAlways == Spec => []FailureIsRaised
<1>1. Init => FailureIsRaised
  <2>1. Init => Cases = {}
    BY EmptySeq DEF Init, Cases
  <2> QED
    BY <2>1 DEF FailureIsRaised
<1> QED
  BY InitTyped, NextTyped, <1>1, NextRaised, PTL DEF Spec

----------------------------------------------------------------------------
(* What is cleared, or void before its time, was reversed.                 *)

\* A row that lost its flag to the sweep, and one that lost it or is void.
Dropped(row) == holdsEnforcement(row.type) /\ ~row.active /\ ~row.voided
Gone(row) == holdsEnforcement(row.type) /\ (row.voided \/ ~row.active)

\* What the sweep will clear has its reversal, or is still on the page.
DueReversed ==
    Reversing =>
        \A c \in Overdue(later) : c \notin edited =>
            c \in lifted \/ \E row \in task[Sweeper].todo : row.id = c

ClearInv == UneditedWasReversed /\ DueReversed

\* Case c was reversed, or there is no need to: its time was up, or moved.
Released(c, log, tried, changed) ==
    \/ ~holdsEnforcement(log[c].type)
    \/ log[c].clock = "out"
    \/ c \in changed
    \/ \E u \in 1..Len(log) : /\ u > c
                              /\ log[u].type = REVERSALS[log[c].type]
                              /\ tried[u] > 0

\* A void marks its case only when the reversal it opened was attempted.
VoidTask(k, log, tried, changed) ==
    /\ k.pc = "mark" => Released(k.subject, log, tried, changed)
    /\ k.op = "void" =>
          /\ k.pc \in Enforced =>
                k.case > k.subject /\ log[k.case].type = REVERSALS[log[k.subject].type]
          /\ k.pc \in {"stamp", "alert"} => tried[k.case] > 0

VoidInv ==
    /\ \A c \in Cases : Gone(cases[c]) => Released(c, cases, asked, edited)
    /\ \A t \in Task : VoidTask(task[t], cases, asked, edited)

\* Cases stay, of the type they were; a clock that is out starts again only by
\* an edit; attempts are not forgotten.
Ages ==
    /\ Cases \subseteq Cases'
    /\ edited \subseteq edited'
    /\ \A c \in CaseId : asked[c] <= asked'[c]
    /\ \A c \in Cases : /\ cases'[c].type = cases[c].type
                        /\ cases[c].clock = "out" => cases'[c].clock = "out" \/ c \in edited'

NothingDrops ==
    \A c \in Cases' : Dropped(cases'[c]) => c \in Cases /\ Dropped(cases[c])

NothingFallsDue ==
    Reversing => \A c \in Overdue(later)' : c \notin edited' => c \in Overdue(later)

NothingGoes ==
    \A c \in Cases' : Gone(cases'[c]) => c \in Cases /\ Gone(cases[c])

Calm == Ages /\ NothingDrops /\ NothingFallsDue

\* A task that reverses goes on with the page it had.
HoldsPage(new, old) ==
    new.op = "reverse" => old.op = "reverse" /\ old.todo \subseteq new.todo

Moves(t, k) ==
    /\ task' = [task EXCEPT ![t] = k]
    /\ t = Sweeper => HoldsPage(k, task[t])
    /\ UNCHANGED lifted

LEMMA ClearingStep ==
    ASSUME Typed, ClearInv, Calm, NEW t \in Task, NEW k, Moves(t, k)
    PROVE  ClearInv'
<1>1. UneditedWasReversed'
  BY DEF ClearInv, UneditedWasReversed, Lapsed, Calm, Ages, NothingDrops, Dropped, Moves
<1>2. CASE t = Sweeper
  <2>1. task'[Sweeper] = k /\ HoldsPage(k, task[Sweeper]) /\ lifted' = lifted
    BY <1>2, OthersWork DEF Moves
  <2>2. Reversing' => Reversing /\ task[Sweeper].todo \subseteq task'[Sweeper].todo
    BY <2>1 DEF HoldsPage, Reversing
  <2>3. DueReversed'
    BY <2>1, <2>2 DEF ClearInv, DueReversed, Calm, Ages, NothingFallsDue
  <2> QED
    BY <1>1, <2>3 DEF ClearInv
<1>3. CASE t # Sweeper
  <2>1. task'[Sweeper] = task[Sweeper] /\ lifted' = lifted
    BY <1>3, OthersWork DEF Moves
  <2>2. DueReversed'
    BY <2>1 DEF ClearInv, DueReversed, Calm, Ages, NothingFallsDue, Reversing
  <2> QED
    BY <1>1, <2>2 DEF ClearInv
<1> QED
  BY <1>2, <1>3

LEMMA NoTaskClears ==
    ASSUME ClearInv, Calm, UNCHANGED <<lifted, task>>
    PROVE  ClearInv'
<1>1. UneditedWasReversed'
  BY DEF ClearInv, UneditedWasReversed, Lapsed, Calm, Ages, NothingDrops, Dropped
<1>2. DueReversed'
  BY DEF ClearInv, DueReversed, Calm, Ages, NothingFallsDue, Reversing
<1> QED
  BY <1>1, <1>2 DEF ClearInv

LEMMA ReleasedStays ==
    ASSUME Typed, Typed', Ages, NEW c \in Cases, Released(c, cases, asked, edited)
    PROVE  Released(c, cases', asked', edited')
<1>1. cases'[c].type = cases[c].type
      /\ (cases[c].clock = "out" => cases'[c].clock = "out" \/ c \in edited')
      /\ (c \in edited => c \in edited')
  BY DEF Ages
<1>2. ASSUME NEW u \in Cases, u > c, cases[u].type = REVERSALS[cases[c].type], asked[u] > 0
      PROVE  u \in Cases' /\ u > c /\ cases'[u].type = REVERSALS[cases'[c].type]
             /\ asked'[u] > 0
  <2>1. asked[u] \in Nat /\ asked'[u] \in Nat /\ asked[u] <= asked'[u]
    <3>1. u \in CaseId /\ asked' \in [CaseId -> Nat] /\ asked \in [CaseId -> Nat]
      BY CasesCount DEF Typed, TypeOK
    <3> QED
      BY <3>1 DEF Ages
  <2> QED
    BY <1>1, <1>2, <2>1 DEF Ages
<1> QED
  BY <1>1, <1>2 DEF Released, Cases

LEMMA VoidTaskStays ==
    ASSUME Typed, Typed', Ages, NEW k, Refers(k, cases), VoidTask(k, cases, asked, edited)
    PROVE  VoidTask(k, cases', asked', edited')
<1>1. k.op = "void" \/ k.pc = "mark" => k.subject \in Cases
  BY DEF Refers, Cases
<1>2. k.pc = "mark" => Released(k.subject, cases', asked', edited')
  BY <1>1, ReleasedStays DEF VoidTask
<1>3. ASSUME k.op = "void", k.pc \in Enforced
      PROVE  k.case > k.subject /\ cases'[k.case].type = REVERSALS[cases'[k.subject].type]
  <2>1. k.case \in Cases
    BY <1>3 DEF Refers, Cases
  <2> QED
    BY <1>1, <1>3, <2>1 DEF VoidTask, Ages
<1>4. ASSUME k.op = "void", k.pc \in {"stamp", "alert"} PROVE asked'[k.case] > 0
  <2>1. k.case \in CaseId /\ asked' \in [CaseId -> Nat] /\ asked \in [CaseId -> Nat]
    BY <1>4, CasesCount DEF Refers, Cases, Enforced, Typed, TypeOK
  <2>2. asked[k.case] \in Nat /\ asked'[k.case] \in Nat /\ asked[k.case] <= asked'[k.case]
    BY <2>1 DEF Ages
  <2> QED
    BY <1>4, <2>2 DEF VoidTask
<1> QED
  BY <1>2, <1>3, <1>4 DEF VoidTask

LEMMA VoidTasksStay ==
    ASSUME Typed, Typed', VoidInv, Ages, NEW t \in Task, NEW k,
           task' = [task EXCEPT ![t] = k], VoidTask(k, cases', asked', edited')
    PROVE  \A u \in Task : VoidTask(task'[u], cases', asked', edited')
<1> TAKE u \in Task
<1>1. CASE u = t
  <2>1. task'[u] = k
    BY <1>1 DEF Typed, TypeOK
  <2> QED
    BY <2>1
<1>2. CASE u # t
  <2>1. task'[u] = task[u] /\ Refers(task[u], cases)
        /\ VoidTask(task[u], cases, asked, edited)
    BY <1>2, TaskHere DEF VoidInv, Typed, TypeOK
  <2> QED
    BY <2>1, VoidTaskStays
<1> QED
  BY <1>1, <1>2

LEMMA GoneStay ==
    ASSUME Typed, Typed', VoidInv, Ages, NothingGoes
    PROVE  \A c \in Cases' : Gone(cases'[c]) => Released(c, cases', asked', edited')
  BY ReleasedStays DEF VoidInv, NothingGoes

LEMMA VoidingStep ==
    ASSUME Typed, Typed', VoidInv, Ages, NothingGoes, NEW t \in Task, NEW k, Moves(t, k),
           VoidTask(k, cases', asked', edited')
    PROVE  VoidInv'
  BY VoidTasksStay, GoneStay DEF VoidInv, Moves

LEMMA NoTaskVoids ==
    ASSUME Typed, Typed', VoidInv, Ages, NothingGoes, UNCHANGED task
    PROVE  VoidInv'
<1>1. \A u \in Task : Refers(task[u], cases) /\ VoidTask(task[u], cases, asked, edited)
  BY TaskHere DEF VoidInv
<1>2. \A u \in Task : VoidTask(task[u], cases', asked', edited')
  BY <1>1, VoidTaskStays
<1> QED
  BY <1>2, GoneStay DEF VoidInv

LEMMA AskedStays ==
    ASSUME Typed, UNCHANGED asked
    PROVE  \A c \in CaseId : asked[c] <= asked'[c]
<1>1. \A c \in CaseId : asked[c] \in Nat
  BY CasesCount DEF Typed
<1> QED
  BY <1>1

LEMMA OpenedIsCalm ==
    ASSUME Typed, NEW type \in ModActionType, NEW clock \in {"none", "running"},
           createAction(type, clock), UNCHANGED <<asked, edited, later>>
    PROVE  Calm /\ NothingGoes
<1>1. /\ Len(cases') = Len(cases) + 1
      /\ cases'[NextId] = NewRow(type, clock)
      /\ \A c \in Cases : cases'[c] = cases[c]
  BY Creation DEF Typed, Clock
<1>2. Cases' = Cases \cup {NextId}
  BY <1>1 DEF Cases, NextId, Typed, TypeOK
<1>3. ~Dropped(cases'[NextId]) /\ ~Gone(cases'[NextId]) /\ cases'[NextId].clock # "out"
  <2> DEFINE row == NewRow(type, clock)
  <2>1. ~Dropped(row)
    BY DEF Dropped, NewRow, holdsEnforcement, isActiveState, Holding, Lifting
  <2>2. ~Gone(row)
    BY DEF Gone, NewRow, holdsEnforcement, isActiveState, Holding, Lifting
  <2>3. row.clock # "out"
    BY DEF NewRow
  <2> QED
    BY <1>1, <2>1, <2>2, <2>3
<1>4. Ages
  BY <1>1, <1>2, AskedStays DEF Ages
<1>5. NothingDrops /\ NothingGoes
  BY <1>1, <1>2, <1>3 DEF NothingDrops, NothingGoes
<1>6. \A c \in Overdue(later)' : c \in Overdue(later)
  BY <1>1, <1>2, <1>3 DEF Overdue, ExpiredActive
<1> QED
  BY <1>4, <1>5, <1>6 DEF Calm, NothingFallsDue

LEMMA RewrittenIsCalm ==
    ASSUME Typed, NEW c \in Cases, NEW row \in Row, row.type = cases[c].type,
           row.clock = cases[c].clock, row.active = cases[c].active,
           row.voided = cases[c].voided,
           cases' = [cases EXCEPT ![c] = row], UNCHANGED <<asked, edited, later>>
    PROVE  Calm /\ NothingGoes
<1>1. Cases' = Cases /\ \A b \in Cases : cases'[b] = IF b = c THEN row ELSE cases[b]
  BY Rewriting DEF Typed
<1>2. \A b \in Cases : /\ cases'[b].type = cases[b].type
                       /\ cases'[b].clock = cases[b].clock
                       /\ cases'[b].active = cases[b].active
                       /\ cases'[b].voided = cases[b].voided
  BY <1>1
<1>3. Ages
  BY <1>1, <1>2, AskedStays DEF Ages
<1>4. NothingDrops /\ NothingGoes
  BY <1>1, <1>2 DEF NothingDrops, NothingGoes, Dropped, Gone
<1>5. \A b \in Overdue(later)' : b \in Overdue(later)
  BY <1>1, <1>2 DEF Overdue, ExpiredActive
<1> QED
  BY <1>3, <1>4, <1>5 DEF Calm, NothingFallsDue

LEMMA UnchangedIsCalm ==
    ASSUME UNCHANGED <<cases, edited, later>>, \A c \in CaseId : asked[c] <= asked'[c]
    PROVE  Calm /\ NothingGoes
<1>1. Cases' = Cases /\ cases' = cases
  BY DEF Cases
<1>2. Ages
  BY <1>1 DEF Ages
<1>3. NothingDrops /\ NothingGoes
  BY <1>1 DEF NothingDrops, NothingGoes
<1>4. \A b \in Overdue(later)' : b \in Overdue(later)
  BY <1>1 DEF Overdue, ExpiredActive
<1> QED
  BY <1>2, <1>3, <1>4 DEF Calm, NothingFallsDue

\* What a request leaves alone, and what its task does next.
LEMMA RequestStep ==
    ASSUME Typed, NEW t \in Staff, Request(t)
    PROVE  Calm /\ NothingGoes
<1>1. ASSUME NEW type \in StaffTypes, NEW clock \in StaffClocks, applyAction(t, type, clock)
      PROVE  Calm /\ NothingGoes
  BY <1>1, EnforcementAssumption, OpenedIsCalm DEF applyAction
<1>2. ASSUME NEW type \in StaffTypes, recordDiscordAction(t, type)
      PROVE  Calm /\ NothingGoes
  BY <1>2, EnforcementAssumption, OpenedIsCalm DEF recordDiscordAction
<1>3. ASSUME NEW c \in Cases, retryEnforcement(t, c) \/ voidAction(t, c)
      PROVE  Calm /\ NothingGoes
  BY <1>3, AskedStays, UnchangedIsCalm DEF retryEnforcement, voidAction
<1>4. ASSUME NEW c \in Cases, NEW clock \in Clock, updateAction(t, c, clock)
      PROVE  Calm /\ NothingGoes
  <2> DEFINE row == [cases[c] EXCEPT !.clock = clock]
  <2>1. /\ row \in Row /\ row.type = cases[c].type /\ row.active = cases[c].active
        /\ row.voided = cases[c].voided
    <3>1. cases[c] \in Row
      BY RowsAreRows DEF Typed
    <3> QED
      BY <3>1 DEF Row
  <2>2. /\ cases' = [cases EXCEPT ![c] = row] /\ edited' = edited \cup {c}
        /\ later' \in {later \ {c}, later \cup {c}} /\ UNCHANGED asked
    BY <1>4 DEF updateAction
  <2> HIDE DEF row
  <2>3. Cases' = Cases /\ \A b \in Cases : cases'[b] = IF b = c THEN row ELSE cases[b]
    BY <2>1, <2>2, Rewriting DEF Typed
  <2>4. Ages
    BY <2>1, <2>2, <2>3, AskedStays DEF Ages
  <2>5. NothingDrops /\ NothingGoes
    BY <2>1, <2>3 DEF NothingDrops, NothingGoes, Dropped, Gone
  <2>6. \A b \in Overdue(later)' : b \notin edited' => b \in Overdue(later)
    BY <2>2, <2>3 DEF Overdue, ExpiredActive
  <2> QED
    BY <2>4, <2>5, <2>6 DEF Calm, NothingFallsDue
<1> QED
  BY <1>1, <1>2, <1>3, <1>4 DEF Request

LEMMA RequestMoves ==
    ASSUME Typed, Typed', VoidInv, NEW t \in Staff, Request(t)
    PROVE  \E k : Moves(t, k) /\ VoidTask(k, cases', asked', edited')
<1>1. t # Sweeper /\ UNCHANGED lifted
  BY EnforcementAssumption DEF Request, applyAction, recordDiscordAction, retryEnforcement,
     voidAction, updateAction
<1>2. Ages
  BY RequestStep DEF Calm
<1>3. ASSUME NEW k, task' = [task EXCEPT ![t] = k], k.op # "void", k.pc # "mark"
      PROVE  Moves(t, k) /\ VoidTask(k, cases', asked', edited')
  BY <1>1, <1>3 DEF Moves, VoidTask
<1>4. ASSUME NEW type \in StaffTypes, NEW clock \in StaffClocks, applyAction(t, type, clock)
      PROVE  \E k : task' = [task EXCEPT ![t] = k] /\ k.op # "void" /\ k.pc # "mark"
  <2>1. Enforcing(Idle, "apply", NextId, 0).op = "apply"
        /\ Enforcing(Idle, "apply", NextId, 0).pc = "mirror"
    BY DEF Enforcing, Idle
  <2> QED
    BY <1>4, <2>1 DEF applyAction
<1>5. ASSUME NEW type \in StaffTypes, recordDiscordAction(t, type)
      PROVE  \E k : task' = [task EXCEPT ![t] = k] /\ k.op # "void" /\ k.pc # "mark"
  <2>1. Enforcing(Idle, "adopt", NextId, 0).op = "adopt"
        /\ Enforcing(Idle, "adopt", NextId, 0).pc = "mirror"
    BY DEF Enforcing, Idle
  <2> QED
    BY <1>5, <2>1 DEF recordDiscordAction
<1>6. ASSUME NEW c \in Cases, retryEnforcement(t, c)
      PROVE  \E k : task' = [task EXCEPT ![t] = k] /\ k.op # "void" /\ k.pc # "mark"
  <2>1. Enforcing(Idle, "retry", c, cases[c].attempts).op = "retry"
        /\ Enforcing(Idle, "retry", c, cases[c].attempts).pc = "mirror"
    BY DEF Enforcing, Idle
  <2> QED
    BY <1>6, <2>1 DEF retryEnforcement
<1>7. ASSUME NEW c \in Cases, NEW clock \in Clock, updateAction(t, c, clock)
      PROVE  \E k : task' = [task EXCEPT ![t] = k] /\ k.op # "void" /\ k.pc # "mark"
  <2> DEFINE k == [Idle EXCEPT !.op = "edit", !.subject = c, !.pc = "remirror"]
  <2>1. k.op = "edit" /\ k.pc = "remirror"
    BY DEF Idle
  <2> QED
    BY <1>7, <2>1 DEF updateAction
<1>8. ASSUME NEW c \in Cases, voidAction(t, c)
      PROVE  \E k : Moves(t, k) /\ VoidTask(k, cases', asked', edited')
  <2> DEFINE k == [Idle EXCEPT !.op = "void", !.subject = c,
                               !.pc = IF isInForce(cases[c]) THEN "lift" ELSE "mark"]
  <2>1. k.subject = c /\ k.pc = IF isInForce(cases[c]) THEN "lift" ELSE "mark"
    BY DEF Idle
  <2>2. task' = [task EXCEPT ![t] = k] /\ ~cases[c].voided /\ Moves(t, k)
    BY <1>1, <1>8 DEF voidAction, Moves
  <2> HIDE DEF k
  <2>3. ~isInForce(cases[c]) => Released(c, cases, asked, edited)
    <3>1. CASE ~holdsEnforcement(cases[c].type) \/ cases[c].clock = "out"
      BY <3>1 DEF Released
    <3>2. CASE holdsEnforcement(cases[c].type) /\ ~cases[c].active
      BY <3>2 DEF VoidInv, Gone
    <3> QED
      BY <2>2, <3>1, <3>2 DEF isInForce
  <2>4. k.pc = "mark" => Released(k.subject, cases', asked', edited')
    BY <1>2, <2>1, <2>3, ReleasedStays
  <2> QED
    BY <2>1, <2>2, <2>4 DEF VoidTask, Enforced
<1> QED
  BY <1>3, <1>4, <1>5, <1>6, <1>7, <1>8 DEF Request

LEMMA ResumeMoves ==
    ASSUME NEW k \in TaskState, NEW status
    PROVE  HoldsPage(Resume(k), k) /\ HoldsPage(AfterStamp(k, status), k)
<1>1. HoldsPage(Idle, k)
  BY DEF Idle, HoldsPage
<1>2. HoldsPage([k EXCEPT !.pc = "mark"], k) /\ HoldsPage([k EXCEPT !.pc = "alert"], k)
  BY DEF HoldsPage, TaskState
<1> DEFINE n == [k EXCEPT !.pc = "next", !.case = 0, !.base = 0, !.d = "none", !.g = "none"]
<1>3. HoldsPage(n, k)
  BY DEF HoldsPage, TaskState
<1>4. Resume(k) \in {Idle, n, [k EXCEPT !.pc = "mark"]}
  BY DEF Resume
<1>5. AfterStamp(k, status) \in {Resume(k), [k EXCEPT !.pc = "alert"]}
  BY DEF AfterStamp
<1> QED
  BY <1>1, <1>2, <1>3, <1>4, <1>5

\* The reversal a void opened is attempted by the time its enforcement ends.
LEMMA ResumeVoids ==
    ASSUME NEW k \in TaskState, NEW status, NEW log, NEW tried, NEW changed,
           VoidTask(k, log, tried, changed), k.pc \in {"stamp", "alert"},
           k.case \in 1..Len(log)
    PROVE  /\ VoidTask(Resume(k), log, tried, changed)
           /\ VoidTask(AfterStamp(k, status), log, tried, changed)
<1>1. VoidTask(Resume(k), log, tried, changed)
  <2>1. CASE k.op = "void"
    <3> DEFINE n == [k EXCEPT !.pc = "mark"]
    <3>1. Resume(k) = n /\ n.pc = "mark" /\ n.subject = k.subject
      BY <2>1 DEF Resume, TaskState
    <3> HIDE DEF n
    <3>2. k.case > k.subject /\ log[k.case].type = REVERSALS[log[k.subject].type]
          /\ tried[k.case] > 0
      BY <2>1 DEF VoidTask, Enforced
    <3>3. Released(n.subject, log, tried, changed)
      BY <3>1, <3>2 DEF Released
    <3> QED
      BY <3>1, <3>3 DEF VoidTask, Enforced
  <2>2. CASE k.op \in {"settle", "reverse"}
    <3> DEFINE n == [k EXCEPT !.pc = "next", !.case = 0, !.base = 0, !.d = "none", !.g = "none"]
    <3>1. Resume(k) = n /\ n.op = k.op /\ n.pc = "next"
      BY <2>2 DEF Resume, TaskState
    <3> HIDE DEF n
    <3> QED
      BY <2>2, <3>1 DEF VoidTask
  <2>3. CASE k.op \notin {"void", "settle", "reverse"}
    <3>1. Resume(k) = Idle /\ Idle.op = "none" /\ Idle.pc = "idle"
      BY <2>3 DEF Resume, Idle
    <3> QED
      BY <3>1 DEF VoidTask
  <2> QED
    BY <2>1, <2>2, <2>3
<1>2. VoidTask([k EXCEPT !.pc = "alert"], log, tried, changed)
  <2> DEFINE n == [k EXCEPT !.pc = "alert"]
  <2>1. n.pc = "alert" /\ n.op = k.op /\ n.case = k.case /\ n.subject = k.subject
    BY DEF TaskState
  <2> HIDE DEF n
  <2>2. VoidTask(n, log, tried, changed)
    BY <2>1 DEF VoidTask, Enforced
  <2> QED
    BY <2>2 DEF n
<1> QED
  BY <1>1, <1>2 DEF AfterStamp

LEMMA EnforceStepCalm ==
    ASSUME Typed, NEW t \in Task, EnforceStep(t)
    PROVE  Calm /\ NothingGoes
<1>1. CASE Mirror(t) \/ Discord(t) \/ alertStaff(t)
  BY <1>1, AskedStays, UnchangedIsCalm DEF Mirror, Discord, alertStaff
<1>2. CASE Game(t)
  <2>1. \A c \in CaseId : asked[c] \in Nat
    BY CasesCount DEF Typed
  <2>2. asked' = [asked EXCEPT ![task[t].case] = @ + 1] /\ asked \in [CaseId -> Nat]
    BY <1>2 DEF Game, Typed, TypeOK
  <2>3. \A c \in CaseId : asked[c] <= asked'[c]
    BY <2>1, <2>2
  <2> QED
    BY <1>2, <2>3, UnchangedIsCalm DEF Game
<1>3. CASE Stamp(t)
  <2> DEFINE k == task[t]
             status == Verdict(k.d, k.g)
             row == [cases[k.case] EXCEPT !.enforcement = status,
                                          !.attempts = k.base + 1, !.quiet = FALSE]
  <2>1. /\ k.case \in Cases
        /\ row \in Row /\ row.type = cases[k.case].type
        /\ UNCHANGED cases \/ cases' = [cases EXCEPT ![k.case] = row]
    BY <1>3, StampedRow
  <2>2. row.active = cases[k.case].active /\ row.voided = cases[k.case].voided
        /\ row.clock = cases[k.case].clock
    <3>1. cases[k.case] \in Row
      BY <2>1, RowsAreRows DEF Typed
    <3> QED
      BY <3>1 DEF Row
  <2>3. UNCHANGED <<asked, edited, later>>
    BY <1>3 DEF Stamp
  <2> HIDE DEF row, k
  <2>4. CASE UNCHANGED cases
    BY <2>3, <2>4, AskedStays, UnchangedIsCalm
  <2>5. CASE cases' = [cases EXCEPT ![k.case] = row]
    BY <2>1, <2>2, <2>3, <2>5, RewrittenIsCalm
  <2> QED
    BY <2>1, <2>4, <2>5
<1> QED
  BY <1>1, <1>2, <1>3 DEF EnforceStep

LEMMA EnforceStepMoves ==
    ASSUME Typed, Typed', VoidInv, NEW t \in Task, EnforceStep(t)
    PROVE  \E k : Moves(t, k) /\ VoidTask(k, cases', asked', edited')
<1>1. task[t] \in TaskState /\ TypeOK /\ Refers(task[t], cases)
  BY TaskHere DEF Typed
<1>2. UNCHANGED lifted
  BY DEF EnforceStep, Mirror, Discord, Game, Stamp, alertStaff
<1>3. VoidTask(task[t], cases', asked', edited')
  BY <1>1, EnforceStepCalm, VoidTaskStays DEF Calm, VoidInv
<1>4. ASSUME NEW k, task' = [task EXCEPT ![t] = k], HoldsPage(k, task[t])
      PROVE  Moves(t, k)
  BY <1>2, <1>4 DEF Moves
<1>5. CASE Mirror(t) \/ Discord(t)
  <2>1. task[t].pc \in {"mirror", "discord"}
        /\ \E pc, d : /\ pc \in {"discord", "game"}
                        /\ task' = [task EXCEPT ![t].pc = pc, ![t].d = d]
    BY <1>5 DEF Mirror, Discord
  <2>2. PICK pc, d : /\ pc \in {"discord", "game"}
                      /\ task' = [task EXCEPT ![t].pc = pc, ![t].d = d]
    BY <2>1
  <2> DEFINE k == [task[t] EXCEPT !.pc = pc, !.d = d]
  <2>3. /\ k.pc = pc /\ k.op = task[t].op /\ k.case = task[t].case
        /\ k.subject = task[t].subject /\ k.todo = task[t].todo
    BY <1>1 DEF TaskState
  <2>4. task' = [task EXCEPT ![t] = k]
    BY <1>1, <2>2 DEF TypeOK
  <2> HIDE DEF k
  <2>5. HoldsPage(k, task[t])
    BY <2>3 DEF HoldsPage
  <2>6. VoidTask(k, cases', asked', edited')
    BY <1>3, <2>1, <2>2, <2>3 DEF VoidTask, Enforced
  <2> QED
    BY <1>4, <2>4, <2>5, <2>6
<1>6. CASE Game(t)
  <2>1. PICK g : task' = [task EXCEPT ![t].pc = "stamp", ![t].g = g]
    BY <1>6 DEF Game
  <2> DEFINE k == [task[t] EXCEPT !.pc = "stamp", !.g = g]
  <2>2. /\ k.pc = "stamp" /\ k.op = task[t].op /\ k.case = task[t].case
        /\ k.subject = task[t].subject /\ k.todo = task[t].todo
    BY <1>1 DEF TaskState
  <2>3. task' = [task EXCEPT ![t] = k]
    BY <1>1, <2>1 DEF TypeOK
  <2> HIDE DEF k
  <2>4. asked'[task[t].case] > 0
    <3>1. task[t].case \in CaseId /\ asked \in [CaseId -> Nat]
      BY <1>1, <1>6, CasesCount DEF Game, Refers, Enforced, Cases, TypeOK
    <3>2. asked' = [asked EXCEPT ![task[t].case] = @ + 1]
      BY <1>6 DEF Game
    <3> QED
      BY <3>1, <3>2
  <2>5. HoldsPage(k, task[t])
    BY <2>2 DEF HoldsPage
  <2>6. VoidTask(k, cases', asked', edited')
    BY <1>3, <1>6, <2>2, <2>4 DEF VoidTask, Enforced, Game
  <2> QED
    BY <1>4, <2>3, <2>5, <2>6
<1>7. CASE Stamp(t) \/ alertStaff(t)
  <2> DEFINE status == Verdict(task[t].d, task[t].g)
  <2>1. /\ task[t].pc \in {"stamp", "alert"}
        /\ \/ task' = [task EXCEPT ![t] = AfterStamp(task[t], status)]
           \/ task' = [task EXCEPT ![t] = Resume(task[t])]
    <3>1. CASE Stamp(t)
      BY <3>1 DEF Stamp
    <3>2. CASE alertStaff(t)
      BY <3>2 DEF alertStaff
    <3> QED
      BY <1>7, <3>1, <3>2
  <2> HIDE DEF status
  <2>2. task[t].case \in 1..Len(cases')
    <3>1. task[t].case \in Cases /\ Cases \subseteq Cases'
      BY <1>1, <2>1, EnforceStepCalm DEF Refers, Enforced, Cases, Calm, Ages
    <3> QED
      BY <3>1 DEF Cases
  <2>3. /\ HoldsPage(Resume(task[t]), task[t])
        /\ HoldsPage(AfterStamp(task[t], status), task[t])
    BY <1>1, ResumeMoves
  <2>4. /\ VoidTask(Resume(task[t]), cases', asked', edited')
        /\ VoidTask(AfterStamp(task[t], status), cases', asked', edited')
    BY <1>1, <1>3, <2>1, <2>2, ResumeVoids
  <2> QED
    BY <1>4, <2>1, <2>3, <2>4
<1> QED
  BY <1>5, <1>6, <1>7 DEF EnforceStep

LEMMA VoidLiftStep ==
    ASSUME Typed, Typed', NEW t \in Staff, VoidLift(t)
    PROVE  /\ Calm /\ NothingGoes
           /\ \E k : Moves(t, k) /\ VoidTask(k, cases', asked', edited')
<1> DEFINE c == task[t].subject
           type == REVERSALS[cases[c].type]
           k == Enforcing(task[t], "void", NextId, 0)
<1>1. task[t] \in TaskState /\ c \in Cases /\ holdsEnforcement(cases[c].type)
  BY TaskHere DEF VoidLift, Refers, Cases
<1>2. /\ createAction(type, "none") /\ task' = [task EXCEPT ![t] = k]
      /\ UNCHANGED <<asked, edited, later, lifted>>
  BY DEF VoidLift
<1>3. type \in ModActionType
  BY <1>1 DEF REVERSALS, holdsEnforcement, ModActionType, Holding, Lifting
<1>4. k.op = "void" /\ k.pc = "mirror" /\ k.case = NextId /\ k.subject = c
  BY <1>1 DEF Enforcing, TaskState
<1> HIDE DEF k, type
<1>5. Calm /\ NothingGoes
  BY <1>2, <1>3, OpenedIsCalm
<1>6. /\ cases'[NextId].type = type /\ cases'[c].type = cases[c].type
      /\ NextId > c
  <2>1. cases'[NextId] = NewRow(type, "none") /\ cases'[c] = cases[c]
    BY <1>1, <1>2, <1>3, Creation DEF Typed, Clock
  <2>2. Len(cases) \in Nat /\ c \in 1..Len(cases)
    BY <1>1 DEF Typed, TypeOK, Cases
  <2> QED
    BY <2>1, <2>2 DEF NewRow, NextId
<1>7. VoidTask(k, cases', asked', edited')
  BY <1>4, <1>6 DEF VoidTask, Enforced, type
<1>8. Moves(t, k)
  BY <1>2, EnforcementAssumption DEF Moves
<1> QED
  BY <1>5, <1>7, <1>8

LEMMA RemirrorStep ==
    ASSUME Typed, NEW t \in Staff, Remirror(t)
    PROVE  /\ Calm /\ NothingGoes
           /\ \E k : Moves(t, k) /\ VoidTask(k, cases', asked', edited')
<1>1. Calm /\ NothingGoes
  BY AskedStays, UnchangedIsCalm DEF Remirror
<1>2. Moves(t, Idle) /\ Idle.op = "none" /\ Idle.pc = "idle"
  BY EnforcementAssumption DEF Remirror, Moves, Idle
<1> QED
  BY <1>1, <1>2 DEF VoidTask

\* The mark itself: the case is released by then.
LEMMA VoidMarkStep ==
    ASSUME Typed, Typed', NEW t \in Staff, VoidMark(t)
    PROVE  /\ Calm
           /\ \E k : Moves(t, k)
           /\ VoidInv => VoidInv'
<1> DEFINE c == task[t].subject
           row == Withdrawn(cases[c])
           k == [task[t] EXCEPT !.pc = "remirror"]
<1>1. task[t] \in TaskState /\ c \in Cases /\ task[t].pc = "mark"
  BY TaskHere DEF VoidMark, Refers, Cases
<1>2. /\ cases' = [cases EXCEPT ![c] = row] /\ task' = [task EXCEPT ![t] = k]
      /\ UNCHANGED <<asked, edited, later, lifted>>
  BY <1>1 DEF VoidMark, Typed, TypeOK
<1>3. /\ row \in Row /\ row.type = cases[c].type /\ row.clock = cases[c].clock
      /\ row.voided = TRUE /\ row.active = FALSE
  <2>1. cases[c] \in Row
    BY <1>1, RowsAreRows DEF Typed
  <2> QED
    BY <2>1 DEF Row, Withdrawn
<1>4. k.pc = "remirror"
  BY <1>1 DEF TaskState
<1> HIDE DEF row, k
<1>5. Cases' = Cases /\ \A b \in Cases : cases'[b] = IF b = c THEN row ELSE cases[b]
  BY <1>1, <1>2, <1>3, Rewriting DEF Typed
<1>6. Ages
  BY <1>2, <1>3, <1>5, AskedStays DEF Ages
<1>7. NothingDrops
  BY <1>3, <1>5 DEF NothingDrops, Dropped
<1>8. \A b \in Overdue(later)' : b \in Overdue(later)
  BY <1>2, <1>3, <1>5 DEF Overdue, ExpiredActive
<1>9. Moves(t, k)
  BY <1>2, EnforcementAssumption DEF Moves
<1>10. ASSUME VoidInv PROVE VoidInv'
  <2>1. VoidTask(k, cases', asked', edited')
    BY <1>4 DEF VoidTask, Enforced
  <2>2. \A u \in Task : VoidTask(task'[u], cases', asked', edited')
    BY <1>2, <1>6, <1>10, <2>1, VoidTasksStay
  <2>3. ASSUME NEW b \in Cases', Gone(cases'[b])
        PROVE  Released(b, cases', asked', edited')
    <3>1. CASE b = c
      <4>1. VoidTask(task[t], cases, asked, edited)
        BY <1>10 DEF VoidInv
      <4>2. Released(c, cases, asked, edited)
        BY <1>1, <4>1 DEF VoidTask
      <4> QED
        BY <1>1, <1>6, <3>1, <4>2, ReleasedStays
    <3>2. CASE b # c
      <4>1. b \in Cases /\ cases'[b] = cases[b]
        BY <1>5, <3>2
      <4> QED
        BY <1>6, <1>10, <2>3, <4>1, ReleasedStays DEF VoidInv
    <3> QED
      BY <3>1, <3>2
  <2> QED
    BY <2>2, <2>3 DEF VoidInv
<1> QED
  BY <1>6, <1>7, <1>8, <1>9, <1>10 DEF Calm, NothingFallsDue

\* The sweep before it clears anything.
SweepsOn == settleStalePending \/ SettleNext \/ reverseExpired \/ ReverseNext

LEMMA SettleNextStep ==
    ASSUME Typed, SettleNext
    PROVE  /\ Calm /\ NothingGoes
           /\ \E k : task' = [task EXCEPT ![Sweeper] = k]
                     /\ k.op = "settle" /\ k.pc \in {"mirror", "alert"}
<1> DEFINE k == task[Sweeper]
<1>1. PICK row \in k.todo :
         LET rest == [k EXCEPT !.todo = @ \ {row}] IN
         /\ row.id \in Cases /\ rest \in TaskState /\ rest.op = "settle"
         /\ \/ /\ task' = [task EXCEPT ![Sweeper] =
                              Enforcing(rest, "settle", row.id, row.attempts)]
               /\ UNCHANGED cases
            \/ /\ task' = [task EXCEPT ![Sweeper] =
                              [rest EXCEPT !.pc = "alert", !.case = row.id]]
               /\ \/ UNCHANGED cases
                  \/ cases' = [cases EXCEPT ![row.id] =
                                     [cases[row.id] EXCEPT !.enforcement = "FAILED"]]
  BY SettledRow
<1> DEFINE rest == [k EXCEPT !.todo = @ \ {row}]
           failed == [cases[row.id] EXCEPT !.enforcement = "FAILED"]
           try == Enforcing(rest, "settle", row.id, row.attempts)
           fail == [rest EXCEPT !.pc = "alert", !.case = row.id]
<1>2. try.op = "settle" /\ try.pc = "mirror"
  BY <1>1 DEF Enforcing, TaskState
<1>3. fail.op = "settle" /\ fail.pc = "alert"
  BY <1>1 DEF TaskState
<1>4. /\ failed \in Row /\ failed.type = cases[row.id].type
      /\ failed.clock = cases[row.id].clock
      /\ failed.active = cases[row.id].active /\ failed.voided = cases[row.id].voided
  <2>1. cases[row.id] \in Row
    BY <1>1, RowsAreRows DEF Typed
  <2> QED
    BY <2>1 DEF Row, EnforcementStatus
<1>5. UNCHANGED <<asked, edited, later>>
  BY DEF SettleNext
<1>6. row.id \in Cases
      /\ (UNCHANGED cases \/ cases' = [cases EXCEPT ![row.id] = failed])
      /\ (task' = [task EXCEPT ![Sweeper] = try] \/ task' = [task EXCEPT ![Sweeper] = fail])
  BY <1>1
<1> HIDE DEF failed, try, fail
<1>7. CASE UNCHANGED cases
  <2>1. Calm /\ NothingGoes
    BY <1>5, <1>7, AskedStays, UnchangedIsCalm
  <2> QED
    BY <1>2, <1>3, <1>6, <2>1
<1>8. CASE cases' = [cases EXCEPT ![row.id] = failed]
  <2>1. Calm /\ NothingGoes
    BY <1>4, <1>5, <1>6, <1>8, RewrittenIsCalm
  <2> QED
    BY <1>2, <1>3, <1>6, <2>1
<1> QED
  BY <1>6, <1>7, <1>8

LEMMA SweepsOnStep ==
    ASSUME Typed, SweepsOn
    PROVE  /\ Calm /\ NothingGoes
           /\ \E k : task' = [task EXCEPT ![Sweeper] = k] /\ k.op # "void" /\ k.pc # "mark"
<1>1. task[Sweeper] \in TaskState /\ Refers(task[Sweeper], cases) /\ Sweeper \in Task
  BY TaskHere DEF Typed
<1>2. CASE settleStalePending
  <2> DEFINE k == [Idle EXCEPT !.op = "settle", !.pc = "next", !.todo = Page(listStalePending)]
  <2>1. k.op = "settle" /\ k.pc = "next"
    BY DEF Idle
  <2>2. Calm /\ NothingGoes
    BY <1>2, AskedStays, UnchangedIsCalm DEF settleStalePending
  <2> QED
    BY <1>2, <2>1, <2>2 DEF settleStalePending
<1>3. CASE SettleNext
  BY <1>3, SettleNextStep
<1>4. CASE reverseExpired
  <2>1. PICK page : task' = [task EXCEPT ![Sweeper] =
                                [Idle EXCEPT !.op = "reverse", !.pc = "next",
                                             !.todo = Page(page)]]
    BY <1>4 DEF reverseExpired
  <2> DEFINE k == [Idle EXCEPT !.op = "reverse", !.pc = "next", !.todo = Page(page)]
  <2>2. k.op = "reverse" /\ k.pc = "next"
    BY DEF Idle
  <2>3. UNCHANGED <<cases, edited, asked>> /\ ~Reversing
    BY <1>4 DEF reverseExpired, Reversing
  <2>4. Ages /\ NothingDrops /\ NothingGoes
    BY <2>3, AskedStays DEF Ages, NothingDrops, NothingGoes, Cases
  <2>5. NothingFallsDue
    BY <2>3 DEF NothingFallsDue
  <2> QED
    BY <2>1, <2>2, <2>4, <2>5 DEF Calm
<1>5. CASE ReverseNext
  <2>1. PICK row \in task[Sweeper].todo :
         /\ createAction(REVERSALS[cases[row.id].type], "none")
         /\ task' = [task EXCEPT ![Sweeper] =
               Enforcing([task[Sweeper] EXCEPT !.todo = @ \ {row}], "reverse", NextId, 0)]
    BY <1>5 DEF ReverseNext
  <2> DEFINE type == REVERSALS[cases[row.id].type]
             rest == [task[Sweeper] EXCEPT !.todo = @ \ {row}]
             k == Enforcing(rest, "reverse", NextId, 0)
  <2>2. type \in ModActionType
    BY <1>1, <1>5, <2>1 DEF Refers, ReverseNext, REVERSALS, holdsEnforcement, ModActionType,
                            Holding, Lifting
  <2>3. k.op = "reverse" /\ k.pc = "mirror"
    BY <1>1 DEF Enforcing, TaskState
  <2>4. UNCHANGED <<asked, edited, later>>
    BY <1>5 DEF ReverseNext
  <2>5. Calm /\ NothingGoes
    BY <2>1, <2>2, <2>4, OpenedIsCalm
  <2> QED
    BY <2>1, <2>3, <2>5
<1> QED
  BY <1>2, <1>3, <1>4, <1>5 DEF SweepsOn

\* What the sweep clears had its clock run out.
LEMMA ClearedRows ==
    ASSUME Typed, deactivateExpired
    PROVE  /\ Ages
           /\ Cases' = Cases
           /\ \A c \in Cases : c \notin Overdue(later) => cases'[c] = cases[c]
           /\ \A c \in Overdue(later) : /\ cases'[c].voided = cases[c].voided
                                        /\ cases[c].clock = "out"
<1>1. Cases' = Cases /\ \A c \in Cases : \/ cases'[c] = cases[c]
                                         \/ cases'[c] = [cases[c] EXCEPT !.active = FALSE]
  BY DeactivatedRows DEF Typed
<1>2. \A c \in Cases : /\ cases'[c].type = cases[c].type
                       /\ cases'[c].clock = cases[c].clock
                       /\ cases'[c].voided = cases[c].voided
  <2> TAKE c \in Cases
  <2>1. cases[c] \in Row
    BY RowsAreRows DEF Typed
  <2> QED
    BY <1>1, <2>1 DEF Row
<1>3. \A c \in Cases : c \notin Overdue(later) => cases'[c] = cases[c]
  BY DEF deactivateExpired
<1>4. UNCHANGED <<asked, edited>>
  BY DEF deactivateExpired
<1>5. Ages
  BY <1>1, <1>2, <1>4, AskedStays DEF Ages
<1>6. \A c \in Overdue(later) : c \in Cases /\ cases[c].clock = "out"
  BY DEF Overdue, ExpiredActive
<1> QED
  BY <1>1, <1>2, <1>3, <1>5, <1>6

LEMMA SweepStepVoids ==
    ASSUME Typed, Typed', VoidInv, SweepStep
    PROVE  VoidInv'
<1>1. CASE SweepsOn
  <2>1. PICK k : task' = [task EXCEPT ![Sweeper] = k] /\ k.op # "void" /\ k.pc # "mark"
    BY <1>1, SweepsOnStep
  <2>2. Ages /\ NothingGoes
    BY <1>1, SweepsOnStep DEF Calm
  <2>3. VoidTask(k, cases', asked', edited')
    BY <2>1 DEF VoidTask
  <2> QED
    BY <2>1, <2>2, <2>3, VoidTasksStay, GoneStay DEF VoidInv
<1>2. CASE deactivateExpired
  <2>1. task' = [task EXCEPT ![Sweeper] = Idle] /\ Idle.op = "none" /\ Idle.pc = "idle"
    BY <1>2 DEF deactivateExpired, Idle
  <2>2. VoidTask(Idle, cases', asked', edited')
    BY <2>1 DEF VoidTask
  <2>3. Ages /\ Cases' = Cases
    BY <1>2, ClearedRows
  <2>4. \A u \in Task : VoidTask(task'[u], cases', asked', edited')
    BY <2>1, <2>2, <2>3, VoidTasksStay
  <2>5. ASSUME NEW c \in Cases, Gone(cases'[c]) PROVE Released(c, cases, asked, edited)
    <3>1. CASE c \in Overdue(later)
      <4>1. cases[c].clock = "out"
        BY <1>2, <3>1, ClearedRows
      <4> QED
        BY <4>1 DEF Released
    <3>2. CASE c \notin Overdue(later)
      <4>1. cases'[c] = cases[c]
        BY <1>2, <3>2, ClearedRows
      <4> QED
        BY <2>5, <4>1 DEF VoidInv
    <3> QED
      BY <3>1, <3>2
  <2>6. \A c \in Cases' : Gone(cases'[c]) => Released(c, cases', asked', edited')
    BY <2>3, <2>5, ReleasedStays
  <2> QED
    BY <2>4, <2>6 DEF VoidInv
<1> QED
  BY <1>1, <1>2 DEF SweepStep, SweepsOn

\* The overdue rows fit into one page of the sweep.
PageHoldsOverdue == Cardinality(ExpiredActive) <= SweepLimit

\* When the overdue rows fit into a page, the page is all of them.
LEMMA PageIsWhole ==
    ASSUME Typed, PageHoldsOverdue,
           NEW page \in kSubset(Min({SweepLimit, Cardinality(ExpiredActive)}), ExpiredActive)
    PROVE  page = ExpiredActive
<1> DEFINE n == Cardinality(ExpiredActive)
<1>1. IsFiniteSet(ExpiredActive)
  <2>1. IsFiniteSet(Cases)
    BY FS_Interval DEF Cases, Typed, TypeOK
  <2> QED
    BY <2>1, FS_Subset DEF ExpiredActive
<1>2. n \in Nat
  BY <1>1, FS_CardinalityType
<1>3. Min({SweepLimit, n}) = n
  BY <1>2, EnforcementAssumption DEF Min, PageHoldsOverdue
<1>4. page \in SUBSET ExpiredActive /\ Cardinality(page) = n
  BY <1>3 DEF kSubset
<1> QED
  BY <1>1, <1>4, FS_Subset

LEMMA SweepStepClears ==
    ASSUME Typed, ClearInv, PageHoldsOverdue, SweepStep
    PROVE  ClearInv'
<1>1. task[Sweeper] \in TaskState /\ Sweeper \in Task /\ TypeOK
  BY TaskHere DEF Typed
<1>2. CASE settleStalePending \/ SettleNext
  <2>1. PICK k : task' = [task EXCEPT ![Sweeper] = k] /\ k.op = "settle"
    <3>1. CASE settleStalePending
      <4> DEFINE n == [Idle EXCEPT !.op = "settle", !.pc = "next",
                                   !.todo = Page(listStalePending)]
      <4>1. n.op = "settle"
        BY DEF Idle
      <4> QED
        BY <3>1, <4>1 DEF settleStalePending
    <3>2. CASE SettleNext
      BY <3>2, SettleNextStep
    <3> QED
      BY <1>2, <3>1, <3>2
  <2>2. Calm
    BY <1>2, SweepsOnStep DEF SweepsOn
  <2>3. Moves(Sweeper, k)
    BY <1>2, <2>1 DEF Moves, HoldsPage, settleStalePending, SettleNext
  <2> QED
    BY <1>1, <2>2, <2>3, ClearingStep
<1>3. CASE reverseExpired
  <2>1. PICK page \in kSubset(Min({SweepLimit, Cardinality(ExpiredActive)}), ExpiredActive) :
         task' = [task EXCEPT ![Sweeper] =
                     [Idle EXCEPT !.op = "reverse", !.pc = "next", !.todo = Page(page)]]
    BY <1>3 DEF reverseExpired
  <2>2. page = ExpiredActive
    BY PageIsWhole
  <2>3. task'[Sweeper].todo = Page(ExpiredActive)
    <3> DEFINE k == [Idle EXCEPT !.op = "reverse", !.pc = "next", !.todo = Page(page)]
    <3>1. k.todo = Page(page)
      BY DEF Idle
    <3>2. task'[Sweeper] = k
      BY <1>1, <2>1 DEF TypeOK
    <3> HIDE DEF k
    <3> QED
      BY <2>2, <3>1, <3>2
  <2>4. UNCHANGED <<cases, edited, lifted>>
    BY <1>3 DEF reverseExpired
  <2>5. DueReversed'
    <3>1. ASSUME NEW c \in ExpiredActive PROVE \E row \in Page(ExpiredActive) : row.id = c
      <4> DEFINE row == [id |-> c, attempts |-> cases[c].attempts]
      <4>1. row \in Page(ExpiredActive) /\ row.id = c
        BY DEF Page
      <4> QED
        BY <4>1
    <3>2. \A c \in Overdue(later)' : c \in ExpiredActive
      BY <2>4 DEF Overdue, ExpiredActive, Cases
    <3> QED
      BY <2>3, <3>1, <3>2 DEF DueReversed
  <2>6. UneditedWasReversed'
    BY <2>4 DEF ClearInv, UneditedWasReversed, Lapsed, Cases
  <2> QED
    BY <2>5, <2>6 DEF ClearInv
<1>4. CASE ReverseNext
  <2>1. PICK row \in task[Sweeper].todo :
         /\ task' = [task EXCEPT ![Sweeper] =
               Enforcing([task[Sweeper] EXCEPT !.todo = @ \ {row}], "reverse", NextId, 0)]
         /\ lifted' = lifted \cup {row.id}
    BY <1>4 DEF ReverseNext
  <2> DEFINE rest == [task[Sweeper] EXCEPT !.todo = @ \ {row}]
             k == Enforcing(rest, "reverse", NextId, 0)
  <2>2. k.todo = task[Sweeper].todo \ {row}
    BY <1>1 DEF Enforcing, TaskState
  <2>3. task'[Sweeper] = k
    BY <1>1, <2>1 DEF TypeOK
  <2> HIDE DEF k
  <2>4. Calm
    BY <1>4, SweepsOnStep DEF SweepsOn
  <2>5. UneditedWasReversed'
    BY <2>1, <2>4 DEF ClearInv, UneditedWasReversed, Lapsed, Calm, Ages, NothingDrops, Dropped
  <2>6. Reversing
    BY <1>4 DEF ReverseNext, Reversing
  <2>7. ASSUME NEW c \in Overdue(later)', c \notin edited'
        PROVE  c \in lifted' \/ \E other \in task'[Sweeper].todo : other.id = c
    <3>1. c \in Overdue(later) /\ c \notin edited
      BY <2>4, <2>6, <2>7 DEF Calm, Ages, NothingFallsDue
    <3>2. c \in lifted \/ \E other \in task[Sweeper].todo : other.id = c
      BY <2>6, <3>1 DEF ClearInv, DueReversed
    <3> QED
      BY <2>1, <2>2, <2>3, <3>2
  <2>8. DueReversed'
    BY <2>7 DEF DueReversed
  <2> QED
    BY <2>5, <2>8 DEF ClearInv
<1>5. CASE deactivateExpired
  <2>1. /\ Reversing /\ task[Sweeper].todo = {}
        /\ task' = [task EXCEPT ![Sweeper] = Idle]
        /\ UNCHANGED <<lifted, edited>>
    BY <1>5 DEF deactivateExpired, Reversing
  <2>2. Cases' = Cases /\ \A c \in Cases : c \notin Overdue(later) => cases'[c] = cases[c]
    BY <1>5, ClearedRows
  <2>3. \A c \in Overdue(later) : c \notin edited => c \in lifted
    BY <2>1 DEF ClearInv, DueReversed
  <2>4. UneditedWasReversed'
    <3> SUFFICES ASSUME NEW c \in Cases, Lapsed(c)', c \notin edited PROVE c \in lifted
      BY <2>1, <2>2 DEF UneditedWasReversed
    <3>1. CASE c \in Overdue(later)
      BY <2>3, <3>1
    <3>2. CASE c \notin Overdue(later)
      BY <2>2, <3>2 DEF ClearInv, UneditedWasReversed, Lapsed
    <3> QED
      BY <3>1, <3>2
  <2>5. DueReversed'
    BY <1>1, <2>1 DEF DueReversed, Reversing, TypeOK, Idle
  <2> QED
    BY <2>4, <2>5 DEF ClearInv
<1> QED
  BY <1>2, <1>3, <1>4, <1>5 DEF SweepStep

LEMMA ClockRunsOutCalm ==
    ASSUME Typed, NEW c \in Cases, ClockRunsOut(c)
    PROVE  Calm /\ NothingGoes
<1> DEFINE row == [cases[c] EXCEPT !.clock = "out"]
<1>1. /\ row \in Row /\ row.type = cases[c].type /\ row.clock = "out"
      /\ row.active = cases[c].active /\ row.voided = cases[c].voided
  <2>1. cases[c] \in Row
    BY RowsAreRows DEF Typed
  <2> QED
    BY <2>1 DEF Row, Clock
<1>2. /\ cases' = [cases EXCEPT ![c] = row] /\ UNCHANGED <<asked, edited>>
      /\ later' = IF Reversing THEN later \cup {c} ELSE later
  BY DEF ClockRunsOut
<1> HIDE DEF row
<1>3. Cases' = Cases /\ \A b \in Cases : cases'[b] = IF b = c THEN row ELSE cases[b]
  BY <1>1, <1>2, Rewriting DEF Typed
<1>4. Ages
  BY <1>1, <1>2, <1>3, AskedStays DEF Ages
<1>5. NothingDrops /\ NothingGoes
  BY <1>1, <1>3 DEF NothingDrops, NothingGoes, Dropped, Gone
<1>6. NothingFallsDue
  BY <1>2, <1>3 DEF NothingFallsDue, Overdue, ExpiredActive
<1> QED
  BY <1>4, <1>5, <1>6 DEF Calm

LEMMA EnvironmentCalm ==
    ASSUME Typed, Environment
    PROVE  Calm /\ NothingGoes /\ UNCHANGED <<lifted, task>>
<1>1. ASSUME NEW c \in Cases, ClockRunsOut(c)
      PROVE  Calm /\ NothingGoes /\ UNCHANGED <<lifted, task>>
  <2>1. UNCHANGED <<lifted, task>>
    BY <1>1 DEF ClockRunsOut
  <2> QED
    BY <1>1, <2>1, ClockRunsOutCalm
<1>2. ASSUME NEW c \in Cases, GraceElapses(c)
      PROVE  Calm /\ NothingGoes /\ UNCHANGED <<lifted, task>>
  <2> DEFINE row == [cases[c] EXCEPT !.quiet = TRUE]
  <2>1. /\ row \in Row /\ row.type = cases[c].type /\ row.clock = cases[c].clock
        /\ row.active = cases[c].active /\ row.voided = cases[c].voided
    <3>1. cases[c] \in Row
      BY RowsAreRows DEF Typed
    <3> QED
      BY <3>1 DEF Row
  <2>2. /\ cases' = [cases EXCEPT ![c] = row]
        /\ UNCHANGED <<asked, edited, later, lifted, task>>
    BY <1>2 DEF GraceElapses
  <2> HIDE DEF row
  <2> QED
    BY <2>1, <2>2, RewrittenIsCalm
<1>3. ASSUME NEW h \in Holding, MirrorLapses(h)
      PROVE  Calm /\ NothingGoes /\ UNCHANGED <<lifted, task>>
  BY <1>3, AskedStays, UnchangedIsCalm DEF MirrorLapses
<1>4. ASSUME TimeoutLapses \/ Rejoin
      PROVE  Calm /\ NothingGoes /\ UNCHANGED <<lifted, task>>
  BY <1>4, AskedStays, UnchangedIsCalm DEF TimeoutLapses, Rejoin
<1> QED
  BY <1>1, <1>2, <1>3, <1>4 DEF Environment

LEMMA setEnforcementManuallyCalm ==
    ASSUME Typed, NEW c \in Cases, NEW status \in EnforcementStatus,
           setEnforcementManually(c, status)
    PROVE  Calm /\ NothingGoes /\ UNCHANGED <<lifted, task>>
<1> DEFINE row == [cases[c] EXCEPT !.enforcement = status]
<1>1. /\ row \in Row /\ row.type = cases[c].type /\ row.clock = cases[c].clock
      /\ row.active = cases[c].active /\ row.voided = cases[c].voided
  <2>1. cases[c] \in Row
    BY RowsAreRows DEF Typed
  <2> QED
    BY <2>1 DEF Row
<1>2. /\ cases' = [cases EXCEPT ![c] = row]
      /\ UNCHANGED <<asked, edited, later, lifted, task>>
  BY DEF setEnforcementManually
<1> HIDE DEF row
<1> QED
  BY <1>1, <1>2, RewrittenIsCalm

LEMMA CrashCalm ==
    ASSUME Typed, NEW t \in Task, Crash(t)
    PROVE  Calm /\ NothingGoes /\ Moves(t, Idle) /\ VoidTask(Idle, cases', asked', edited')
<1>1. Calm /\ NothingGoes
  BY AskedStays, UnchangedIsCalm DEF Crash
<1>2. Moves(t, Idle)
  BY DEF Crash, Moves, HoldsPage, Idle
<1>3. VoidTask(Idle, cases', asked', edited')
  <2>1. Idle.op = "none" /\ Idle.pc = "idle"
    BY DEF Idle
  <2> QED
    BY <2>1 DEF VoidTask
<1> QED
  BY <1>1, <1>2, <1>3

LEMMA StutterCalm ==
    ASSUME Typed, UNCHANGED vars
    PROVE  Calm /\ NothingGoes /\ UNCHANGED <<lifted, task>>
  BY AskedStays, UnchangedIsCalm DEF vars

LEMMA NextVoids == Typed /\ VoidInv /\ [Next]_vars => VoidInv'
<1> SUFFICES ASSUME Typed, VoidInv, [Next]_vars PROVE VoidInv'
  OBVIOUS
<1>0. Typed'
  BY NextTyped
<1>1. ASSUME NEW t \in Staff, Request(t) PROVE VoidInv'
  <2>1. PICK k : Moves(t, k) /\ VoidTask(k, cases', asked', edited')
    BY <1>0, <1>1, RequestMoves
  <2> QED
    BY <1>0, <1>1, <2>1, RequestStep, VoidingStep DEF Calm
<1>2. ASSUME NEW c \in Cases, NEW status \in EnforcementStatus \ {"PENDING"},
             setEnforcementManually(c, status)
      PROVE  VoidInv'
  BY <1>0, <1>2, setEnforcementManuallyCalm, NoTaskVoids DEF Calm
<1>3. ASSUME NEW t \in Task, EnforceStep(t) PROVE VoidInv'
  <2>1. PICK k : Moves(t, k) /\ VoidTask(k, cases', asked', edited')
    BY <1>0, <1>3, EnforceStepMoves
  <2> QED
    BY <1>0, <1>3, <2>1, EnforceStepCalm, VoidingStep DEF Calm
<1>4. ASSUME NEW t \in Staff, VoidStep(t) PROVE VoidInv'
  <2>1. CASE VoidLift(t) \/ Remirror(t)
    <3>1. PICK k : Moves(t, k) /\ VoidTask(k, cases', asked', edited')
      BY <1>0, <2>1, VoidLiftStep, RemirrorStep
    <3>2. Ages /\ NothingGoes
      BY <1>0, <2>1, VoidLiftStep, RemirrorStep DEF Calm
    <3> QED
      BY <1>0, <3>1, <3>2, VoidingStep
  <2>2. CASE VoidMark(t)
    BY <1>0, <2>2, VoidMarkStep
  <2> QED
    BY <1>4, <2>1, <2>2 DEF VoidStep
<1>5. CASE SweepStep
  BY <1>0, <1>5, SweepStepVoids
<1>6. CASE Environment
  BY <1>0, <1>6, EnvironmentCalm, NoTaskVoids DEF Calm
<1>7. ASSUME NEW t \in Task, Crash(t) PROVE VoidInv'
  BY <1>0, <1>7, CrashCalm, VoidingStep DEF Calm
<1>8. CASE UNCHANGED vars
  BY <1>0, <1>8, StutterCalm, NoTaskVoids DEF Calm
<1> QED
  BY <1>1, <1>2, <1>3, <1>4, <1>5, <1>6, <1>7, <1>8 DEF Next

\* voidAction compensates first, for every number of tasks and whatever races
\* it: a ban or mute void before its time, of the length it was issued with, has
\* a reversal, a later case of its own, that was put to both surfaces.
THEOREM VoidedWasReversedAlways == Spec => []VoidedWasReversed
<1>1. Init => VoidInv
  <2> SUFFICES ASSUME Init PROVE VoidInv
    OBVIOUS
  <2>1. Cases = {} /\ \A t \in Task : task[t] = Idle
    BY EmptySeq DEF Init, Cases
  <2>2. Idle.op = "none" /\ Idle.pc = "idle"
    BY DEF Idle
  <2> QED
    BY <2>1, <2>2 DEF VoidInv, VoidTask
<1>2. VoidInv => VoidedWasReversed
  BY DEF VoidInv, VoidedWasReversed, Gone, Released, Reversed, Cases
<1> QED
  BY InitTyped, NextTyped, <1>1, <1>2, NextVoids, PTL DEF Spec

LEMMA NextClears == Typed /\ ClearInv /\ VoidInv /\ PageHoldsOverdue /\ [Next]_vars => ClearInv'
<1> SUFFICES ASSUME Typed, ClearInv, VoidInv, PageHoldsOverdue, [Next]_vars PROVE ClearInv'
  OBVIOUS
<1>0. Typed'
  BY NextTyped
<1>1. ASSUME NEW t \in Staff, Request(t) PROVE ClearInv'
  <2>1. PICK k : Moves(t, k)
    BY <1>0, <1>1, RequestMoves
  <2> QED
    BY <1>1, <2>1, RequestStep, ClearingStep
<1>2. ASSUME NEW c \in Cases, NEW status \in EnforcementStatus \ {"PENDING"},
             setEnforcementManually(c, status)
      PROVE  ClearInv'
  BY <1>2, setEnforcementManuallyCalm, NoTaskClears
<1>3. ASSUME NEW t \in Task, EnforceStep(t) PROVE ClearInv'
  <2>1. PICK k : Moves(t, k)
    BY <1>0, <1>3, EnforceStepMoves
  <2> QED
    BY <1>3, <2>1, EnforceStepCalm, ClearingStep
<1>4. ASSUME NEW t \in Staff, VoidStep(t) PROVE ClearInv'
  <2>1. PICK k : Moves(t, k)
    BY <1>0, <1>4, VoidLiftStep, RemirrorStep, VoidMarkStep DEF VoidStep
  <2>2. Calm
    BY <1>0, <1>4, VoidLiftStep, RemirrorStep, VoidMarkStep DEF VoidStep
  <2> QED
    BY <2>1, <2>2, ClearingStep
<1>5. CASE SweepStep
  BY <1>5, SweepStepClears
<1>6. CASE Environment
  BY <1>6, EnvironmentCalm, NoTaskClears
<1>7. ASSUME NEW t \in Task, Crash(t) PROVE ClearInv'
  BY <1>7, CrashCalm, ClearingStep
<1>8. CASE UNCHANGED vars
  BY <1>8, StutterCalm, NoTaskClears
<1> QED
  BY <1>1, <1>2, <1>3, <1>4, <1>5, <1>6, <1>7, <1>8 DEF Next

\* As long as no more rows are overdue at once than one page of the sweep
\* reads, deactivateExpired clears no flag of a row whose duration nobody changed
\* unless reverseExpired wrote its reversal first.  Without that hypothesis, and
\* for an edited row, it does: the run EnforcementExpiryPage shows the first.
THEOREM UneditedWasReversedWithinAPage ==
    Spec /\ []PageHoldsOverdue => []UneditedWasReversed
<1>1. Init => VoidInv /\ ClearInv
  <2> SUFFICES ASSUME Init PROVE VoidInv /\ ClearInv
    OBVIOUS
  <2>1. Cases = {} /\ \A t \in Task : task[t] = Idle
    BY EmptySeq DEF Init, Cases
  <2>2. Idle.op = "none" /\ Idle.pc = "idle"
    BY DEF Idle
  <2>3. ~Reversing
    BY <2>1, <2>2 DEF Reversing
  <2>4. VoidInv
    BY <2>1, <2>2 DEF VoidInv, VoidTask
  <2> QED
    BY <2>1, <2>3, <2>4 DEF ClearInv, UneditedWasReversed, DueReversed
<1>2. ClearInv => UneditedWasReversed
  BY DEF ClearInv
<1> QED
  BY InitTyped, NextTyped, <1>1, <1>2, NextVoids, NextClears, PTL DEF Spec
=============================================================================
