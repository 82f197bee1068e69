--------------------------- MODULE JobRunnerProofs ---------------------------
(***************************************************************************)
(* Proofs about JobRunner, for any runners, retries and bounds.  The lease *)
(* is exclusive because an unlapsed lease is the token in the store, and a *)
(* release that finds another token there leaves it.                       *)
(***************************************************************************)
EXTENDS JobRunner, TLAPS

RunState == [pc : Pc, token : Nat, attempts : 0..(MaxRetries + 1), status : Status]

LEMMA IdleIsFine == Idle \in RunState /\ Idle.token = 0 /\ Idle.pc = "idle"
  BY RunnerAssumption DEF Idle, Call, RunState, Pc, Status

\* Acquire and AcquireUnheard: a fresh token goes into a free store.
LEMMA DrawKeepsInv ==
    ASSUME JobIInv, NEW r \in Runner, NEW new \in RunState,
           \/ new = Idle
           \/ /\ store' = drawn + 1 /\ new.token = drawn + 1
              /\ new.pc = "granted" /\ new.attempts = 0,
           run[r].pc = "idle",
           (store = 0 /\ store' = drawn + 1) \/ store' = store,
           run' = [run EXCEPT ![r] = new],
           drawn' = drawn + 1, UNCHANGED <<journal, done, lapsed>>,
           outcome' \in [Runner -> Status \cup {"SKIPPED_LOCKED", "rejected"}],
           faults' \in Nat
    PROVE  JobIInv'
<1>1. /\ store \in 0..drawn /\ drawn \in Nat
      /\ run \in [Runner -> RunState] /\ \A s \in Runner : run[s].token \in 0..drawn
      /\ journal \subseteq [token : 0..drawn, status : {"COMPLETED", "FAILED"}]
      /\ done \subseteq 0..drawn /\ lapsed \subseteq 0..drawn
  BY DEF JobIInv, JobTypeOK, Token, RunState
<1>2. run'[r] = new /\ \A s \in Runner \ {r} : run'[s] = run[s]
  BY <1>1
<1>3. new = Idle \/ (/\ store' = drawn + 1 /\ new.token = drawn + 1
                     /\ new.pc = "granted" /\ new.attempts = 0 /\ store = 0)
  BY <1>1
<1>4. JobTypeOK'
  <2>1. run' \in [Runner -> RunState]
    BY <1>1
  <2>2. \A s \in Runner : run'[s].token \in 0..drawn'
    BY <1>1, <1>2, <1>3, IdleIsFine
  <2>3. journal' \subseteq [token : 0..drawn', status : {"COMPLETED", "FAILED"}]
        /\ done' \subseteq 0..drawn' /\ lapsed' \subseteq 0..drawn'
        /\ store' \in 0..drawn' /\ drawn' \in Nat
    BY <1>1
  <2> QED
    BY <2>1, <2>2, <2>3 DEF JobTypeOK, Token, RunState
<1>5. drawn + 1 \notin done /\ drawn + 1 \notin lapsed /\ drawn + 1 # 0
      /\ \A row \in journal : row.token # drawn + 1
  BY <1>1
<1>6. LeaseInv'
  <2>1. \A s \in Runner : s # r /\ Running(s)' => run[s].token \in 1..drawn
    BY <1>1, <1>2 DEF JobIInv, LeaseInv, Running
  <2>2. \A s \in Runner : s # r /\ Running(s)' /\ run'[s].token \notin lapsed =>
           store = run[s].token
    BY <1>2 DEF JobIInv, LeaseInv, Running
  <2>3. \A s, q \in Runner : s # r /\ q # r /\ Running(s)' /\ Running(q)'
                             /\ run'[s].token = run'[q].token => s = q
    BY <1>2 DEF JobIInv, LeaseInv, Running
  <2>4. Running(r)' => new.token = drawn + 1 /\ store' = drawn + 1 /\ store = 0
    BY <1>2, <1>3, IdleIsFine DEF Running
  <2>5. store = 0 => \A s \in Runner : s # r /\ Running(s)' => run'[s].token \in lapsed
    BY <1>1, <1>2, <2>1, <2>2
  <2>6. \A s \in Runner : Running(s)' => run'[s].token # 0
    BY <1>1, <1>2, <2>1, <2>4
  <2>7. \A s \in Runner : Running(s)' /\ run'[s].token \notin lapsed => store' = run'[s].token
    BY <1>1, <1>2, <2>2, <2>4, <2>5
  <2>8. \A s \in Runner : s # r /\ Running(s)' => run'[s].token # drawn + 1
    BY <1>1, <1>2, <2>1
  <2>9. \A s, q \in Runner : Running(s)' /\ Running(q)'
                             /\ run'[s].token = run'[q].token => s = q
    BY <1>2, <2>3, <2>4, <2>8
  <2> QED
    BY <2>6, <2>7, <2>9 DEF LeaseInv
<1>7. StatusInv'
  <2>1. ASSUME NEW s \in Runner, s # r
        PROVE  run'[s] = run[s]
    BY <1>2, <2>1
  <2>2. CASE new = Idle
    BY <1>2, <2>1, <2>2, IdleIsFine DEF JobIInv, StatusInv, RetriesLeft
  <2>3. CASE new.token = drawn + 1 /\ new.pc = "granted" /\ new.attempts = 0
    BY <1>2, <1>5, <2>1, <2>3 DEF JobIInv, StatusInv, RetriesLeft
  <2> QED
    BY <1>3, <2>2, <2>3
<1> QED
  BY <1>4, <1>6, <1>7 DEF JobIInv, JournalIsTrue

\* The steps of a call that draws nothing: it keeps its token or ends.
LEMMA StepKeepsLease ==
    ASSUME JobIInv, NEW r \in Runner, NEW new \in RunState, Running(r),
           new = Idle \/ new.token = run[r].token,
           run' = [run EXCEPT ![r] = new], drawn' = drawn, lapsed' = lapsed,
           store' = store \/ (new = Idle /\ store' = Freed(run[r].token)),
           outcome' \in [Runner -> Status \cup {"SKIPPED_LOCKED", "rejected"}],
           faults' \in Nat, done' \subseteq Token,
           journal' \subseteq [token : Token, status : {"COMPLETED", "FAILED"}]
    PROVE  JobTypeOK' /\ LeaseInv'
<1>1. /\ store \in 0..drawn /\ drawn \in Nat
      /\ run \in [Runner -> RunState] /\ \A s \in Runner : run[s].token \in 0..drawn
      /\ lapsed \subseteq 0..drawn
  BY DEF JobIInv, JobTypeOK, Token, RunState
<1>2. run'[r] = new /\ \A s \in Runner \ {r} : run'[s] = run[s]
  BY <1>1
<1>3. store' \in {store, 0} /\ (store' # store => new = Idle /\ store = run[r].token)
  BY DEF Freed
<1>4. JobTypeOK'
  <2>1. run' \in [Runner -> RunState]
    BY <1>1
  <2>2. \A s \in Runner : run'[s].token \in 0..drawn
    BY <1>1, <1>2, IdleIsFine
  <2>3. store' \in 0..drawn
    BY <1>1, <1>3
  <2> QED
    BY <1>1, <2>1, <2>2, <2>3 DEF JobTypeOK, Token, RunState
<1>5. \A s \in Runner : Running(s)' => Running(s) /\ run'[s].token = run[s].token
  BY <1>2, IdleIsFine DEF Running
<1>6. \A s \in Runner : Running(s)' /\ run'[s].token \notin lapsed => store' = run'[s].token
  <2> SUFFICES ASSUME NEW s \in Runner, Running(s)', run'[s].token \notin lapsed
               PROVE  store' = run'[s].token
    OBVIOUS
  <2>1. Running(s) /\ run'[s].token = run[s].token /\ store = run[s].token
    BY <1>5 DEF JobIInv, LeaseInv
  <2>2. CASE store' = store
    BY <2>1, <2>2
  <2>3. CASE store' # store
    <3>1. s = r
      BY <1>3, <2>1, <2>3 DEF JobIInv, LeaseInv
    <3> QED
      BY <1>2, <1>3, <2>3, <3>1, IdleIsFine DEF Running
  <2> QED
    BY <2>2, <2>3
<1>7. LeaseInv'
  BY <1>5, <1>6 DEF JobIInv, LeaseInv
<1> QED
  BY <1>4, <1>7

\* The other calls' stories do not change when one call moves on.
LEMMA StepKeepsStatus ==
    ASSUME JobIInv, NEW r \in Runner, NEW new \in RunState, Running(r),
           run' = [run EXCEPT ![r] = new],
           done' = done \/ done' = done \cup {run[r].token},
           journal' \subseteq journal \cup {Row(r)},
           /\ new.pc \in {"granted", "working", "backoff"} =>
                 /\ new.token \notin done'
                 /\ \A row \in journal' : row.token # new.token
           /\ new.pc \in {"record", "release"} =>
                 /\ new.status \in {"COMPLETED", "FAILED"}
                 /\ new.status = "COMPLETED" <=> new.token \in done'
           /\ new.pc = "granted" => new.attempts = 0
           /\ new.pc = "backoff" => RetriesLeft(new.attempts)
    PROVE  StatusInv'
<1>1. run'[r] = new /\ \A s \in Runner \ {r} : run'[s] = run[s]
  BY DEF JobIInv, JobTypeOK, RunState
<1>2. ASSUME NEW s \in Runner, s # r, Running(s)
      PROVE  run[s].token # run[r].token
  BY <1>2 DEF JobIInv, LeaseInv
<1>3. ASSUME NEW s \in Runner, s # r, run[s].pc \in {"granted", "working", "backoff"}
      PROVE  run[s].token \notin done' /\ \A row \in journal' : row.token # run[s].token
  <2>1. run[s].token # run[r].token
    BY <1>2, <1>3 DEF Running
  <2> QED
    BY <1>3, <2>1 DEF JobIInv, StatusInv, Row
<1>4. ASSUME NEW s \in Runner, s # r, run[s].pc \in {"record", "release"}
      PROVE  run[s].token \in done' <=> run[s].token \in done
  BY <1>2, <1>4 DEF Running
<1>5. ASSUME NEW s \in Runner, s # r
      PROVE  /\ run'[s].pc \in {"granted", "working", "backoff"} =>
                   /\ run'[s].token \notin done'
                   /\ \A row \in journal' : row.token # run'[s].token
             /\ run'[s].pc \in {"record", "release"} =>
                   /\ run'[s].status \in {"COMPLETED", "FAILED"}
                   /\ run'[s].status = "COMPLETED" <=> run'[s].token \in done'
             /\ run'[s].pc = "granted" => run'[s].attempts = 0
             /\ run'[s].pc = "backoff" => RetriesLeft(run'[s].attempts)
  <2>1. run'[s] = run[s]
    BY <1>1, <1>5
  <2> QED
    BY <1>3, <1>4, <1>5, <2>1 DEF JobIInv, StatusInv
<1>6. /\ run'[r].pc \in {"granted", "working", "backoff"} =>
            /\ run'[r].token \notin done'
            /\ \A row \in journal' : row.token # run'[r].token
      /\ run'[r].pc \in {"record", "release"} =>
            /\ run'[r].status \in {"COMPLETED", "FAILED"}
            /\ run'[r].status = "COMPLETED" <=> run'[r].token \in done'
      /\ run'[r].pc = "granted" => run'[r].attempts = 0
      /\ run'[r].pc = "backoff" => RetriesLeft(run'[r].attempts)
  BY <1>1
<1> QED
  <2> SUFFICES ASSUME NEW s \in Runner
               PROVE  (/\ run[s].pc \in {"granted", "working", "backoff"} =>
                            /\ run[s].token \notin done
                            /\ \A row \in journal : row.token # run[s].token
                       /\ run[s].pc \in {"record", "release"} =>
                            /\ run[s].status \in {"COMPLETED", "FAILED"}
                            /\ run[s].status = "COMPLETED" <=> run[s].token \in done
                       /\ run[s].pc = "granted" => run[s].attempts = 0
                       /\ run[s].pc = "backoff" => RetriesLeft(run[s].attempts))'
    BY DEF StatusInv
  <2>1. CASE s = r
    BY <1>6, <2>1
  <2>2. CASE s # r
    BY <1>5, <2>2
  <2> QED
    BY <2>1, <2>2

----------------------------------------------------------------------------
(* The actions.                                                            *)

LEMMA RunFacts ==
    ASSUME JobIInv
    PROVE  /\ run \in [Runner -> RunState]
           /\ outcome \in [Runner -> Status \cup {"SKIPPED_LOCKED", "rejected"}]
           /\ faults \in Nat /\ drawn \in Nat /\ done \subseteq Token
           /\ journal \subseteq [token : Token, status : {"COMPLETED", "FAILED"}]
           /\ \A r \in Runner : run[r].token \in Token
  BY DEF JobIInv, JobTypeOK, RunState

LEMMA AskingKeepsInv ==
    ASSUME JobIInv, NEW r \in Runner, Acquire(r) \/ AcquireUnheard(r) \/ Skip(r)
    PROVE  JobIInv'
<1> DEFINE granted == Call("granted", drawn + 1)
<1>1. granted \in RunState /\ granted.token = drawn + 1
      /\ granted.pc = "granted" /\ granted.attempts = 0
  <2>1. drawn + 1 \in Nat /\ 0 \in 0..(MaxRetries + 1)
    BY RunFacts, RunnerAssumption
  <2> QED
    BY <2>1 DEF Call, RunState, Pc, Status
<1> HIDE DEF granted
<1>2. run[r].pc = "idle" /\ drawn' = drawn + 1 /\ UNCHANGED <<journal, done, lapsed>>
  BY DEF Acquire, AcquireUnheard, Skip
<1>3. CASE Acquire(r)
  <2>1. store = 0 /\ store' = drawn + 1 /\ run' = [run EXCEPT ![r] = granted]
        /\ outcome' = outcome /\ faults' = faults
    BY <1>3 DEF Acquire, granted
  <2> QED
    BY <1>1, <1>2, <2>1, RunFacts, DrawKeepsInv
<1>4. CASE AcquireUnheard(r) \/ Skip(r)
  <2>1. /\ (store = 0 /\ store' = drawn + 1) \/ store' = store
        /\ run' = [run EXCEPT ![r] = Idle]
    BY <1>4 DEF AcquireUnheard, Skip, Ends
  <2>2. outcome' \in [Runner -> Status \cup {"SKIPPED_LOCKED", "rejected"}]
    BY <1>4, RunFacts DEF AcquireUnheard, Skip, Ends
  <2>3. faults' \in Nat
    BY <1>4, RunFacts DEF AcquireUnheard, Skip, Fault
  <2> QED
    BY <1>2, <2>1, <2>2, <2>3, IdleIsFine, DrawKeepsInv
<1> QED
  BY <1>3, <1>4

\* Begin, Handler*, Record*: the call keeps its token.
LEMMA WorkKeepsInv ==
    ASSUME JobIInv, NEW r \in Runner, NEW new \in RunState, Running(r),
           new.token = run[r].token, new.pc # "idle",
           run' = [run EXCEPT ![r] = new], UNCHANGED <<store, drawn, outcome, lapsed>>,
           faults' \in Nat,
           done' = done \/ done' = done \cup {run[r].token},
           journal' \subseteq journal \cup {Row(r)}, journal \subseteq journal',
           journal' # journal => run[r].pc = "record",
           done' # done => run[r].pc = "working",
           /\ new.pc \in {"granted", "working", "backoff"} =>
                 /\ new.token \notin done'
                 /\ \A row \in journal' : row.token # new.token
           /\ new.pc \in {"record", "release"} =>
                 /\ new.status \in {"COMPLETED", "FAILED"}
                 /\ new.status = "COMPLETED" <=> new.token \in done'
           /\ new.pc = "granted" => new.attempts = 0
           /\ new.pc = "backoff" => RetriesLeft(new.attempts)
    PROVE  JobIInv'
<1>1. StatusInv'
  BY StepKeepsStatus
<1>2. done' \subseteq Token
  BY RunFacts
<1>3. journal' \subseteq [token : Token, status : {"COMPLETED", "FAILED"}]
  <2>1. CASE journal' = journal
    BY <2>1, RunFacts
  <2>2. CASE journal' # journal
    <3>1. run[r].pc = "record"
      BY <2>2
    <3>2. run[r].status \in {"COMPLETED", "FAILED"}
      BY <3>1 DEF JobIInv, StatusInv
    <3>3. Row(r) \in [token : Token, status : {"COMPLETED", "FAILED"}]
      BY <3>2, RunFacts DEF Row
    <3> QED
      BY <3>3, RunFacts
  <2> QED
    BY <2>1, <2>2
<1>4. JobTypeOK' /\ LeaseInv'
  <2>1. outcome' \in [Runner -> Status \cup {"SKIPPED_LOCKED", "rejected"}]
    BY RunFacts
  <2>2. drawn' = drawn /\ lapsed' = lapsed /\ store' = store
    OBVIOUS
  <2> QED
    BY <1>2, <1>3, <2>1, <2>2, StepKeepsLease
<1>5. JournalIsTrue'
  <2> SUFFICES ASSUME NEW row \in journal'
               PROVE  row.status = "COMPLETED" <=> row.token \in done'
    BY DEF JournalIsTrue
  <2>1. CASE row \in journal
    <3>1. row.status = "COMPLETED" <=> row.token \in done
      BY <2>1 DEF JobIInv, JournalIsTrue
    <3>2. CASE done' = done
      BY <3>1, <3>2
    <3>3. CASE done' # done
      <4>1. row.token # run[r].token
        BY <2>1, <3>3 DEF JobIInv, StatusInv
      <4> QED
        BY <3>1, <4>1
    <3> QED
      BY <3>2, <3>3
  <2>2. CASE row \notin journal
    <3>1. row = Row(r) /\ run[r].pc = "record" /\ done' = done
      BY <2>2
    <3> QED
      BY <3>1 DEF Row, JobIInv, StatusInv
  <2> QED
    BY <2>1, <2>2
<1> QED
  BY <1>1, <1>4, <1>5 DEF JobIInv

LEMMA BeginKeepsInv ==
    ASSUME JobIInv, NEW r \in Runner, Begin(r)
    PROVE  JobIInv'
<1> DEFINE new == [run[r] EXCEPT !.pc = "working", !.attempts = @ + 1]
<1>1. run[r] \in RunState /\ run[r].pc \in {"granted", "backoff"} /\ run[r].attempts \in Nat
  BY RunFacts DEF RunState, Begin
<1>2. run[r].attempts <= MaxRetries
  BY <1>1, RunnerAssumption DEF JobIInv, StatusInv, RetriesLeft
<1>3. new \in RunState /\ new.token = run[r].token /\ new.pc = "working"
  <2>1. run[r].attempts + 1 \in 0..(MaxRetries + 1)
    BY <1>1, <1>2, RunnerAssumption
  <2> QED
    BY <1>1, <2>1 DEF RunState, Pc
<1>4. run' = [run EXCEPT ![r] = new] /\ UNCHANGED <<store, drawn, outcome, journal, done, lapsed, faults>>
  BY RunFacts DEF Begin
<1>5. run[r].token \notin done /\ \A row \in journal : row.token # run[r].token
  BY <1>1 DEF JobIInv, StatusInv
<1>6. Running(r)
  BY <1>1 DEF Running
<1> HIDE DEF new
<1> QED
  BY <1>3, <1>4, <1>5, <1>6, RunFacts, WorkKeepsInv

LEMMA HandlerKeepsInv ==
    ASSUME JobIInv, NEW r \in Runner, HandlerReturns(r) \/ HandlerThrows(r)
    PROVE  JobIInv'
<1>1. run[r] \in RunState /\ run[r].pc = "working" /\ Running(r)
      /\ UNCHANGED <<store, drawn, outcome, journal, lapsed, faults>>
  BY RunFacts DEF HandlerReturns, HandlerThrows, Running
<1>2. run[r].token \notin done /\ \A row \in journal : row.token # run[r].token
  BY <1>1 DEF JobIInv, StatusInv
<1>3. CASE HandlerReturns(r)
  <2> DEFINE new == [run[r] EXCEPT !.pc = "record", !.status = "COMPLETED"]
  <2>1. new \in RunState /\ new.token = run[r].token /\ new.pc = "record"
        /\ new.status = "COMPLETED"
    BY <1>1 DEF RunState, Pc, Status
  <2>2. run' = [run EXCEPT ![r] = new] /\ done' = done \cup {run[r].token}
    BY <1>3, RunFacts DEF HandlerReturns
  <2> HIDE DEF new
  <2> QED
    BY <1>1, <1>2, <2>1, <2>2, RunFacts, WorkKeepsInv
<1>4. CASE HandlerThrows(r)
  <2>1. done' = done
    BY <1>4 DEF HandlerThrows
  <2>2. CASE RetriesLeft(run[r].attempts) /\ Goes(r, "backoff")
    <3> DEFINE new == [run[r] EXCEPT !.pc = "backoff"]
    <3>1. new \in RunState /\ new.token = run[r].token /\ new.pc = "backoff"
          /\ new.attempts = run[r].attempts
      BY <1>1 DEF RunState, Pc
    <3>2. run' = [run EXCEPT ![r] = new]
      BY <2>2, RunFacts DEF Goes
    <3> HIDE DEF new
    <3> QED
      BY <1>1, <1>2, <2>1, <2>2, <3>1, <3>2, RunFacts, WorkKeepsInv
  <2>3. CASE run' = [run EXCEPT ![r].pc = "record", ![r].status = "FAILED"]
    <3> DEFINE new == [run[r] EXCEPT !.pc = "record", !.status = "FAILED"]
    <3>1. new \in RunState /\ new.token = run[r].token /\ new.pc = "record"
          /\ new.status = "FAILED"
      BY <1>1 DEF RunState, Pc, Status
    <3>2. run' = [run EXCEPT ![r] = new]
      BY <2>3, RunFacts
    <3> HIDE DEF new
    <3> QED
      BY <1>1, <1>2, <2>1, <3>1, <3>2, RunFacts, WorkKeepsInv
  <2> QED
    BY <1>4, <2>2, <2>3 DEF HandlerThrows
<1> QED
  BY <1>3, <1>4

LEMMA RecordKeepsInv ==
    ASSUME JobIInv, NEW r \in Runner, Record(r) \/ RecordFails(r)
    PROVE  JobIInv'
<1> DEFINE new == [run[r] EXCEPT !.pc = "release"]
<1>1. run[r] \in RunState /\ run[r].pc = "record" /\ Running(r)
      /\ UNCHANGED <<store, drawn, outcome, done, lapsed>>
  BY RunFacts DEF Record, RecordFails, Running
<1>2. faults' \in Nat
  BY RunFacts DEF Record, RecordFails, Fault
<1>3. journal' \in {journal, journal \cup {Row(r)}}
  BY DEF Record, RecordFails
<1>4. new \in RunState /\ new.token = run[r].token /\ new.pc = "release"
      /\ new.status = run[r].status
  BY <1>1 DEF RunState, Pc
<1>5. run' = [run EXCEPT ![r] = new]
  BY RunFacts DEF Record, RecordFails, Goes, AfterSinkError
<1>6. /\ run[r].status \in {"COMPLETED", "FAILED"}
      /\ run[r].status = "COMPLETED" <=> run[r].token \in done
  BY <1>1 DEF JobIInv, StatusInv
<1> HIDE DEF new
<1> QED
  BY <1>1, <1>2, <1>3, <1>4, <1>5, <1>6, WorkKeepsInv

LEMMA EndKeepsInv ==
    ASSUME JobIInv, NEW r \in Runner, Release(r) \/ ReleaseFails(r) \/ Crash(r)
    PROVE  JobIInv'
<1>1. /\ Running(r) /\ UNCHANGED <<drawn, journal, done, lapsed>>
      /\ run' = [run EXCEPT ![r] = Idle]
      /\ store' \in {store, Freed(run[r].token)}
  BY DEF Release, ReleaseFails, Crash, Running, Ends
<1>2. faults' \in Nat
  BY RunFacts DEF Release, ReleaseFails, Crash, Fault
<1>3. outcome' \in [Runner -> Status \cup {"SKIPPED_LOCKED", "rejected"}]
  <2>1. run[r].status \in Status
    BY RunFacts DEF RunState
  <2> QED
    BY <2>1, RunFacts DEF Release, ReleaseFails, Crash, Ends, Status
<1>4. JobTypeOK' /\ LeaseInv'
  <2>1. drawn' = drawn /\ lapsed' = lapsed /\ done' \subseteq Token
        /\ journal' \subseteq [token : Token, status : {"COMPLETED", "FAILED"}]
        /\ (store' = store \/ store' = Freed(run[r].token))
    BY <1>1, RunFacts
  <2>2. Running(r) /\ run' = [run EXCEPT ![r] = Idle] /\ Idle \in RunState
    BY <1>1, IdleIsFine
  <2> QED
    BY <1>2, <1>3, <2>1, <2>2, StepKeepsLease
<1>5. StatusInv'
  BY <1>1, IdleIsFine, StepKeepsStatus
<1> QED
  BY <1>1, <1>4, <1>5 DEF JobIInv, JournalIsTrue

LEMMA LapseKeepsInv ==
    ASSUME JobIInv, Lapse
    PROVE  JobIInv'
<1>1. store' = 0 /\ lapsed' = lapsed \cup {store} /\ store \in Token
      /\ UNCHANGED <<drawn, run, outcome, journal, done, faults>>
  BY DEF Lapse, JobIInv, JobTypeOK
<1>2. JobTypeOK'
  BY <1>1 DEF JobIInv, JobTypeOK, Token
<1>3. LeaseInv'
  BY <1>1 DEF JobIInv, LeaseInv, Running
<1> QED
  BY <1>1, <1>2, <1>3 DEF JobIInv, StatusInv, JournalIsTrue

\* The invariant holds in every reachable state.
THEOREM Invariance == JobSpec => []JobIInv
<1>1. JobInit => JobIInv
  <2> SUFFICES ASSUME JobInit PROVE JobIInv
    OBVIOUS
  <2>1. JobTypeOK
    BY IdleIsFine DEF JobInit, JobTypeOK, Token, Status, RunState
  <2> QED
    BY <2>1, IdleIsFine DEF JobInit, JobIInv, LeaseInv, StatusInv, JournalIsTrue, Running
<1>2. JobIInv /\ [JobNext]_jobVars => JobIInv'
  <2> SUFFICES ASSUME JobIInv, [JobNext]_jobVars PROVE JobIInv'
    OBVIOUS
  <2>1. ASSUME NEW r \in Runner, Step(r) PROVE JobIInv'
    BY <2>1, BeginKeepsInv, HandlerKeepsInv, RecordKeepsInv, EndKeepsInv DEF Step
  <2>2. CASE UNCHANGED jobVars
    BY <2>2 DEF jobVars, JobIInv, JobTypeOK, Token, LeaseInv, StatusInv, JournalIsTrue, Running
  <2> QED
    BY <2>1, <2>2, AskingKeepsInv, EndKeepsInv, LapseKeepsInv DEF JobNext
<1> QED
  BY <1>1, <1>2, PTL DEF JobSpec

\* Types, and the bound on a call's attempts.
THEOREM TypeCorrectness == JobSpec => []JobTypeOK
<1>1. JobIInv => JobTypeOK
  BY DEF JobIInv
<1> QED
  BY <1>1, Invariance, PTL

\* For any number of runners and whatever lapses, dies or is not heard: of the
\* calls whose lease has not run out there is at most one.
THEOREM LeaseIsExclusiveAlways == JobSpec => []LeaseIsExclusive
<1>1. JobIInv => LeaseIsExclusive
  BY DEF JobIInv, LeaseInv, LeaseIsExclusive
<1> QED
  BY <1>1, Invariance, PTL

\* A handler that returned is not called again by its call of run().
THEOREM ReturnedIsNotRetriedAlways == JobSpec => []ReturnedIsNotRetried
<1>1. JobIInv => ReturnedIsNotRetried
  BY DEF JobIInv, StatusInv, ReturnedIsNotRetried
<1> QED
  BY <1>1, Invariance, PTL

\* The job log never has a call both COMPLETED and FAILED, nor the wrong one.
THEOREM JournalIsTrueAlways == JobSpec => []JournalIsTrue
<1>1. JobIInv => JournalIsTrue
  BY DEF JobIInv
<1> QED
  BY <1>1, Invariance, PTL

\* Every handler at work is within its lease, which run() does not see to: it
\* neither renews the lease nor bounds the handler by it.
HandlersFitTheLease == \A r \in Runner : run[r].pc = "working" => run[r].token \notin lapsed

\* What the comments of both sweeps say of the lock is true as long as handlers
\* fit their lease, for any number of runners and with every crash, lost answer
\* and failed release: the run JobRunnerOverrun shows the only way it is not.
THEOREM SweepsAloneWithinTheLease == JobSpec => [](HandlersFitTheLease => SweepsAlone)
<1>1. JobIInv => (HandlersFitTheLease => SweepsAlone)
  BY DEF JobIInv, LeaseInv, HandlersFitTheLease, SweepsAlone, Running
<1> QED
  BY <1>1, Invariance, PTL
=============================================================================
