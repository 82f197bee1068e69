----------------------------- MODULE JobRunner -----------------------------
(***************************************************************************)
(* One background job under its Redis lock: JobRunner.run of               *)
(* packages/jobs/src/runner.ts over RedisLock of packages/redis.  Runners  *)
(* are the places that start the job: the ticks of a timer, instances of a *)
(* bot, the workers of a queue.  A tick does not wait for the one before,  *)
(* so a runner is one call at a time and there may be several per process. *)
(*                                                                         *)
(* Abstractions.  randomUUID draws a token nobody drew before.  A lease    *)
(* may lapse at any time after it is granted: nothing in run() bounds the  *)
(* handler, its retries or its backoff by lockTtlMs, and nothing renews    *)
(* the lease.  What the handler does is a matter of other modules.         *)
(***************************************************************************)
EXTENDS Integers, FiniteSets

CONSTANTS
    Runner,      \* calls of run() that may be under way together
    MaxRetries,  \* maxRetries of the job
    MaxRuns,     \* bound: how often the lock is asked for
    MaxFaults    \* bound: crashes and Redis or Postgres calls that fail

ASSUME RunnerAssumption ==
    /\ MaxRetries \in Nat
    /\ MaxRuns \in Nat
    /\ MaxFaults \in Nat

VARIABLES
    store,    \* the token under the lock key in Redis, or 0
    drawn,    \* tokens drawn so far: 1..drawn
    run,      \* where each call of run() is
    outcome,  \* how each runner's latest call ended
    journal,  \* the rows of the job log
    done,     \* tokens of the calls whose handler has returned
    lapsed,   \* tokens whose lease ran out
    faults    \* crashes and failed calls so far

jobVars == <<store, drawn, run, outcome, journal, done, lapsed, faults>>

Call(pc, token) == [pc |-> pc, token |-> token, attempts |-> 0, status |-> "none"]

Idle == Call("idle", 0)

Fault == faults < MaxFaults /\ faults' = faults + 1

----------------------------------------------------------------------------
(* The lock.                                                               *)

Ends(r, how) ==
    /\ run' = [run EXCEPT ![r] = Idle]
    /\ outcome' = [outcome EXCEPT ![r] = how]

\* SET key token NX PX ttl, and its answer.
Acquire(r) ==
    /\ run[r].pc = "idle"
    /\ drawn < MaxRuns
    /\ store = 0
    /\ drawn' = drawn + 1
    /\ store' = drawn + 1
    /\ run' = [run EXCEPT ![r] = Call("granted", drawn + 1)]
    /\ UNCHANGED <<outcome, journal, done, lapsed, faults>>

\* The key is set, the answer is lost and run() rejects: nobody will release.
AcquireUnheard(r) ==
    /\ run[r].pc = "idle"
    /\ drawn < MaxRuns
    /\ store = 0
    /\ Fault
    /\ drawn' = drawn + 1
    /\ store' = drawn + 1
    /\ Ends(r, "rejected")
    /\ UNCHANGED <<journal, done, lapsed>>

Skip(r) ==
    /\ run[r].pc = "idle"
    /\ drawn < MaxRuns
    /\ store # 0
    /\ drawn' = drawn + 1
    /\ Ends(r, "SKIPPED_LOCKED")
    /\ UNCHANGED <<store, journal, done, lapsed, faults>>

\* Slip: the key is deleted, whoever holds it.
FreedAnyway(token) == 0

\* RELEASE_LOCK: deleted only if it still holds this token.
Freed(token) == IF store = token THEN 0 ELSE store

Release(r) ==
    /\ run[r].pc = "release"
    /\ store' = Freed(run[r].token)
    /\ Ends(r, run[r].status)
    /\ UNCHANGED <<drawn, journal, done, lapsed, faults>>

\* The release throws in the finally block, carried out or not: run() rejects
\* whatever the job came to.
ReleaseFails(r) ==
    /\ run[r].pc = "release"
    /\ Fault
    /\ store' \in {store, Freed(run[r].token)}
    /\ Ends(r, "rejected")
    /\ UNCHANGED <<drawn, journal, done, lapsed>>

\* Slip: only a key whose holder is alive runs out.
LapseOfLiving ==
    /\ store # 0
    /\ \E r \in Runner : run[r].token = store
    /\ store' = 0
    /\ lapsed' = lapsed \cup {store}
    /\ UNCHANGED <<drawn, run, outcome, journal, done, faults>>

\* PX: the key runs out, whoever set it.
Lapse ==
    /\ store # 0
    /\ store' = 0
    /\ lapsed' = lapsed \cup {store}
    /\ UNCHANGED <<drawn, run, outcome, journal, done, faults>>

----------------------------------------------------------------------------
(* The attempts.                                                           *)

Goes(r, pc) == run' = [run EXCEPT ![r].pc = pc]

Begin(r) ==
    /\ run[r].pc \in {"granted", "backoff"}
    /\ run' = [run EXCEPT ![r].pc = "working", ![r].attempts = @ + 1]
    /\ UNCHANGED <<store, drawn, outcome, journal, done, lapsed, faults>>

HandlerReturns(r) ==
    /\ run[r].pc = "working"
    /\ done' = done \cup {run[r].token}
    /\ run' = [run EXCEPT ![r].pc = "record", ![r].status = "COMPLETED"]
    /\ UNCHANGED <<store, drawn, outcome, journal, lapsed, faults>>

RetriesLeft(attempts) == attempts <= MaxRetries

\* A PermanentJobError is not retried; anything else is while retries are left.
HandlerThrows(r) ==
    /\ run[r].pc = "working"
    /\ \E permanent \in BOOLEAN :
          IF ~permanent /\ RetriesLeft(run[r].attempts)
          THEN Goes(r, "backoff")
          ELSE run' = [run EXCEPT ![r].pc = "record", ![r].status = "FAILED"]
    /\ UNCHANGED <<store, drawn, outcome, journal, done, lapsed, faults>>

Row(r) == [token |-> run[r].token, status |-> run[r].status]

Record(r) ==
    /\ run[r].pc = "record"
    /\ journal' = journal \cup {Row(r)}
    /\ Goes(r, "release")
    /\ UNCHANGED <<store, drawn, outcome, done, lapsed, faults>>

\* Slip: a throwing sink is a throwing handler.
AfterSinkErrorRetry == "backoff"

AfterSinkError == "release"

\* The sink throws, the row written or not; record() catches it.
RecordFails(r) ==
    /\ run[r].pc = "record"
    /\ Fault
    /\ journal' \in {journal, journal \cup {Row(r)}}
    /\ Goes(r, AfterSinkError)
    /\ UNCHANGED <<store, drawn, outcome, done, lapsed>>

\* The process dies.  Its key stays until it runs out.
Crash(r) ==
    /\ run[r].pc # "idle"
    /\ Fault
    /\ Ends(r, "none")
    /\ UNCHANGED <<store, drawn, journal, done, lapsed>>

----------------------------------------------------------------------------

JobInit ==
    /\ store = 0
    /\ drawn = 0
    /\ run = [r \in Runner |-> Idle]
    /\ outcome = [r \in Runner |-> "none"]
    /\ journal = {}
    /\ done = {}
    /\ lapsed = {}
    /\ faults = 0

Step(r) ==
    \/ Begin(r)
    \/ HandlerReturns(r)
    \/ HandlerThrows(r)
    \/ Record(r)
    \/ RecordFails(r)
    \/ Release(r)
    \/ ReleaseFails(r)

JobNext ==
    \/ \E r \in Runner :
          Acquire(r) \/ AcquireUnheard(r) \/ Skip(r) \/ Step(r) \/ Crash(r)
    \/ Lapse

JobSpec == JobInit /\ [][JobNext]_jobVars

\* Redis runs keys out, and a call that is under way goes on.  Nobody has to
\* start a job.
JobFairSpec == JobSpec /\ WF_jobVars(Lapse) /\ \A r \in Runner : WF_jobVars(Step(r))

----------------------------------------------------------------------------
(* Properties.                                                             *)

Token == 0..drawn
Pc == {"idle", "granted", "working", "backoff", "record", "release"}
Status == {"none", "COMPLETED", "FAILED"}

\* Every variable has its type; a call makes at most one attempt and
\* maxRetries more.
JobTypeOK ==
    /\ store \in Token
    /\ drawn \in Nat
    /\ run \in [Runner -> [pc : Pc, token : Nat, attempts : 0..(MaxRetries + 1),
                           status : Status]]
    /\ \A r \in Runner : run[r].token \in Token
    /\ outcome \in [Runner -> Status \cup {"SKIPPED_LOCKED", "rejected"}]
    /\ journal \subseteq [token : Token, status : {"COMPLETED", "FAILED"}]
    /\ done \subseteq Token
    /\ lapsed \subseteq Token
    /\ faults \in Nat

Running(r) == run[r].pc # "idle"

\* Of the calls under way at most one has a lease that has not run out: what a
\* call that outlived its lease does at its end never takes the lock away from
\* its successor and so lets a third one in.
LeaseIsExclusive ==
    \A r, s \in Runner :
        /\ Running(r) /\ run[r].token \notin lapsed
        /\ Running(s) /\ run[s].token \notin lapsed
        => r = s

\* A handler that returned is not called again by the same call of run(),
\* although recording its success may throw.
ReturnedIsNotRetried ==
    \A r \in Runner : run[r].pc \in {"working", "backoff"} => run[r].token \notin done

\* The job log tells one story of a call, and the true one.
JournalIsTrue ==
    \A row \in journal : row.status = "COMPLETED" <=> row.token \in done

\* The lock always becomes free again, whoever died holding it.
LockIsFreed == []<>(store = 0)

----------------------------------------------------------------------------
(* The strengthening under which the invariants are inductive.             *)

\* An unlapsed lease is the one in the store; nobody shares a token.
LeaseInv ==
    /\ \A r \in Runner : Running(r) => run[r].token # 0
    /\ \A r \in Runner :
          Running(r) /\ run[r].token \notin lapsed => store = run[r].token
    /\ \A r, s \in Runner :
          Running(r) /\ Running(s) /\ run[r].token = run[s].token => r = s

\* The status a call carries is what its handler came to.
StatusInv ==
    \A r \in Runner :
        /\ run[r].pc \in {"granted", "working", "backoff"} =>
              /\ run[r].token \notin done
              /\ \A row \in journal : row.token # run[r].token
        /\ run[r].pc \in {"record", "release"} =>
              /\ run[r].status \in {"COMPLETED", "FAILED"}
              /\ run[r].status = "COMPLETED" <=> run[r].token \in done
        /\ run[r].pc = "granted" => run[r].attempts = 0
        /\ run[r].pc = "backoff" => RetriesLeft(run[r].attempts)

JobIInv == JobTypeOK /\ LeaseInv /\ StatusInv /\ JournalIsTrue

----------------------------------------------------------------------------
(* What the admin bot says of the lock, and it does not do.                *)

\* "So a second admin-bot instance does not double-run the sweep" (composition.ts):
\* no two handlers run at once.
SweepsAlone ==
    \A r, s \in Runner : run[r].pc = "working" /\ run[s].pc = "working" => r = s
=============================================================================
