---------------------------- MODULE EventContest ----------------------------
(***************************************************************************)
(* What a tracked event says one participant gained: the poll trackEvents  *)
(* (packages/jobs/src/event-tracking.ts) through refreshProfiles           *)
(* (progression.ts), the snapshots and the score they leave                *)
(* (packages/db/src/repositories/jobs.ts), and the claim in Redis that is  *)
(* meant to keep one pass from the other (apps/workers/src/jobs.ts).       *)
(*                                                                         *)
(* The claim lapses by itself: two passes may then score at the same time, *)
(* each of them in several round trips.                                    *)
(*                                                                         *)
(* Abstractions.  One participant and one metric: no row is shared by two  *)
(* of either.  The metric is a number that Hypixel may also take back.     *)
(* The reading of the live profile goes to a table of its own.             *)
(***************************************************************************)
EXTENDS Naturals, Integers

CONSTANTS
    Poll,      \* passes that may be under way together
    Worth,     \* the figures a profile may show
    Unknown,   \* a reading that lacks the figure: null
    Absent,    \* no row, no key
    MaxPasses, \* bound: passes
    MaxFailures \* bound: writes that fail, workers that die

Scores == [baseline : Worth, current : Worth, delta : Int]

ASSUME EventContestAssumption ==
    /\ Worth \subseteq Int /\ Unknown \notin Worth
    /\ Absent \notin Worth \cup {Unknown} /\ Absent \notin Poll /\ Absent \notin Scores
    /\ MaxPasses \in Nat /\ MaxFailures \in Nat

Readings == Worth \cup {Unknown}

VARIABLES
    worth,     \* what the profile shows now
    running,   \* the event is LIVE
    claim,     \* event poll claim: the pass whose token is stored, or Absent
    poll,      \* where each pass stands, what it read and what row it saw
    starting,    \* the figure of the EVENT_BASELINE snapshot
    standing,   \* the figure of the EVENT_FINAL snapshot
    score,     \* the EventScore row
    passes, failures,
    disturbed  \* a write failed, or a pass wrote beside another

contestRowVars == <<starting, standing, score>>
contestVars == <<worth, running, claim, poll, contestRowVars, passes, failures, disturbed>>

Resting == [at |-> "rest", value |-> Unknown, seen |-> Absent]

Step(p, from, to) ==
    /\ poll[p].at = from
    /\ poll' = [poll EXCEPT ![p].at = to]

----------------------------------------------------------------------------
(* The pass, one round trip at a time.                                     *)

\* listLiveTracked, then claimPoll: SET NX, and no pass without it.
ClaimPoll(p) ==
    /\ running /\ claim = Absent
    /\ passes < MaxPasses
    /\ Step(p, "rest", "capture")
    /\ claim' = p
    /\ passes' = passes + 1
    /\ disturbed' = (disturbed \/ \E other \in Poll : poll[other].at # "rest")
    /\ UNCHANGED <<worth, running, contestRowVars, failures>>

\* refreshProfiles reads the profile, and the figure may be missing from it.
ReadProfile(p) ==
    /\ poll[p].at = "capture"
    /\ \E value \in {worth, Unknown} :
          poll' = [poll EXCEPT ![p] = [@ EXCEPT !.at = "baseline", !.value = value]]
    /\ UNCHANGED <<worth, running, claim, contestRowVars, passes, failures, disturbed>>

\* Read lately, unreadable, or with nothing to score: the turn is over.
Skip(p) ==
    /\ \/ poll[p].at = "capture"
       \/ poll[p].at = "create" /\ poll[p].value = Unknown
    /\ poll' = [poll EXCEPT ![p].at = "release"]
    /\ UNCHANGED <<worth, running, claim, contestRowVars, passes, failures, disturbed>>

\* Slip: the newest reading replaces the baseline, as it does the final.
BaselineLatest(value) == value

\* Created if absent; the unique index answers a second one.
Baseline(value) == IF starting = Absent THEN value ELSE starting

WriteBaseline(p) ==
    /\ Step(p, "baseline", "final")
    /\ starting' = Baseline(poll[p].value)
    /\ UNCHANGED <<worth, running, claim, standing, score, passes, failures, disturbed>>

WriteFinal(p) ==
    /\ Step(p, "final", "create")
    /\ standing' = poll[p].value
    /\ UNCHANGED <<worth, running, claim, starting, score, passes, failures, disturbed>>

\* upsertScore tries the insert first.
CreateScore(p) ==
    /\ poll[p].value # Unknown
    /\ Step(p, "create", IF score = Absent THEN "release" ELSE "read")
    /\ score' = IF score = Absent
                THEN [baseline |-> poll[p].value, current |-> poll[p].value, delta |-> 0]
                ELSE score
    /\ UNCHANGED <<worth, running, claim, starting, standing, passes, failures, disturbed>>

\* A reading identical to the stored one is not a write.
ReadScore(p) ==
    /\ poll[p].at = "read"
    /\ poll' = [poll EXCEPT ![p] =
           [@ EXCEPT !.at = IF score.current = poll[p].value THEN "release" ELSE "update",
                     !.seen = score]]
    /\ UNCHANGED <<worth, running, claim, contestRowVars, passes, failures, disturbed>>

Gain(p) == poll[p].value - poll[p].seen.baseline

UpdateScore(p) ==
    /\ Step(p, "update", "release")
    /\ score' = [score EXCEPT !.current = poll[p].value, !.delta = Gain(p)]
    /\ UNCHANGED <<worth, running, claim, starting, standing, passes, failures, disturbed>>

\* One participant's failure is reported and costs no more than the turn.
ScoringFails(p) ==
    /\ poll[p].at \in {"baseline", "final", "create", "read", "update"}
    /\ failures < MaxFailures
    /\ failures' = failures + 1
    /\ poll' = [poll EXCEPT ![p].at = "release"]
    /\ disturbed' = TRUE
    /\ UNCHANGED <<worth, running, claim, contestRowVars, passes>>

\* Owner-checked: the claim of a later pass is left alone.
ReleasePoll(p) ==
    /\ poll[p].at = "release"
    /\ poll' = [poll EXCEPT ![p] = Resting]
    /\ claim' = IF claim = p THEN Absent ELSE claim
    /\ UNCHANGED <<worth, running, contestRowVars, passes, failures, disturbed>>

----------------------------------------------------------------------------
(* The world.                                                              *)

\* The TTL runs out, whether or not its pass is still at work.
ClaimLapses ==
    /\ claim # Absent
    /\ claim' = Absent
    /\ UNCHANGED <<worth, running, poll, contestRowVars, passes, failures, disturbed>>

WorkerDies(p) ==
    /\ poll[p].at # "rest"
    /\ failures < MaxFailures
    /\ failures' = failures + 1
    /\ poll' = [poll EXCEPT ![p] = Resting]
    /\ disturbed' = TRUE
    /\ UNCHANGED <<worth, running, claim, contestRowVars, passes>>

Plays ==
    /\ worth' \in Worth \ {worth}
    /\ UNCHANGED <<running, claim, poll, contestRowVars, passes, failures, disturbed>>

\* The passes under way do not ask again.
EventEnds ==
    /\ running
    /\ running' = FALSE
    /\ UNCHANGED <<worth, claim, poll, contestRowVars, passes, failures, disturbed>>

----------------------------------------------------------------------------

ContestInit ==
    /\ worth \in Worth
    /\ running = TRUE /\ claim = Absent
    /\ poll = [p \in Poll |-> Resting]
    /\ starting = Absent /\ standing = Absent /\ score = Absent
    /\ passes = 0 /\ failures = 0 /\ disturbed = FALSE

Turn(p) ==
    \/ ClaimPoll(p) \/ ReadProfile(p) \/ Skip(p)
    \/ WriteBaseline(p) \/ WriteFinal(p)
    \/ CreateScore(p) \/ ReadScore(p) \/ UpdateScore(p)
    \/ ScoringFails(p) \/ ReleasePoll(p)

ContestNext ==
    \/ \E p \in Poll : Turn(p) \/ WorkerDies(p)
    \/ ClaimLapses
    \/ Plays
    \/ EventEnds

ContestSpec == ContestInit /\ [][ContestNext]_contestVars

----------------------------------------------------------------------------
(* Properties.                                                             *)

Stops == {"rest", "capture", "baseline", "final", "create", "read", "update", "release"}

\* Every variable has its type.
ContestTypeOK ==
    /\ worth \in Worth /\ running \in BOOLEAN /\ claim \in Poll \cup {Absent}
    /\ poll \in [Poll -> [at : Stops, value : Readings, seen : Scores \cup {Absent}]]
    /\ starting \in Readings \cup {Absent} /\ standing \in Readings \cup {Absent}
    /\ score \in Scores \cup {Absent}
    /\ passes \in Nat /\ failures \in Nat /\ disturbed \in BOOLEAN

\* A participant's gain is the distance from the starting line, and the line
\* is what the baseline saved, unless a write failed or two passes met.
GainHolds ==
    score # Absent =>
        /\ score.delta = score.current - score.baseline
        /\ starting # Absent
        /\ ~disturbed => starting \in {score.baseline, Unknown}

\* "Baselines are set on first write and never after": whatever pass comes
\* late, is cut short or scores beside another, no starting line moves and the
\* gain on the board is the distance from it.
GainIsTrue ==
    [][/\ GainHolds'
       /\ starting # Absent => starting' = starting
       /\ score # Absent => score' # Absent /\ score'.baseline = score.baseline]_contestVars
=============================================================================
