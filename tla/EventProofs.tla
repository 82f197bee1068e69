---------------------------- MODULE EventProofs -----------------------------
(* Theorems about EventContest, for every set of passes and figures, about *)
(* EventSignup, for every set of members, presses and capacities, and      *)
(* about EventBoard, for every set of publishes, hosts and mishaps.        *)
EXTENDS EventContest, EventSignup, EventBoard, TLAPS, FiniteSetTheorems, SequenceTheorems

\* A pass acts on rows that are there: from its baseline on there is a
\* baseline, it has a figure to write, and the row it saw is still the one it will judge by.
RowsAreThere ==
    \A p \in Poll :
        /\ poll[p].at \in {"final", "create", "read", "update"} => starting # Absent
        /\ poll[p].at \in {"read", "update"} =>
              score # Absent /\ poll[p].value # Unknown
        /\ poll[p].at = "update" =>
              poll[p].seen # Absent /\ poll[p].seen.baseline = score.baseline

\* While nothing was disturbed one pass works at a time, and a baseline that
\* has no score yet is its own reading.
OneAtATime ==
    ~disturbed =>
        /\ \A p, q \in Poll : poll[p].at # "rest" /\ poll[q].at # "rest" => p = q
        /\ starting \in Worth /\ score = Absent =>
              \E p \in Poll : poll[p].at \in {"final", "create"} /\ poll[p].value = starting

ContestInv == ContestTypeOK /\ RowsAreThere /\ OneAtATime /\ GainHolds

\* What the actions may do to the starting line and to the score.
LinesStand ==
    /\ starting # Absent => starting' = starting
    /\ score # Absent => score' # Absent /\ score'.baseline = score.baseline

\* The invariant holds at first.
LEMMA ContestInitInv == ContestInit => ContestInv
<1> SUFFICES ASSUME ContestInit
             PROVE  ContestInv
  OBVIOUS
<1>1. poll \in [Poll -> [at : Stops, value : Readings, seen : Scores \cup {Absent}]]
  BY DEF ContestInit, Resting, Stops, Readings
<1>2. ContestTypeOK
  BY <1>1 DEF ContestInit, ContestTypeOK
<1>3. \A p \in Poll : poll[p].at = "rest"
  BY DEF ContestInit, Resting
<1>4. RowsAreThere /\ OneAtATime /\ GainHolds
  BY <1>3, EventContestAssumption
     DEF ContestInit, RowsAreThere, OneAtATime, GainHolds, Readings
<1> QED
  BY <1>2, <1>4 DEF ContestInv

\* An update writes a score.
LEMMA ContestScoreWritten ==
    ASSUME ContestTypeOK, RowsAreThere, NEW p \in Poll, UpdateScore(p)
    PROVE  score \in Scores /\ score' \in Scores
<1> USE EventContestAssumption DEF ContestTypeOK
<1>1. poll[p] \in [at : Stops, value : Readings, seen : Scores \cup {Absent}]
  OBVIOUS
<1>2. /\ poll[p].value \in Worth /\ score \in Scores
      /\ poll[p].seen.baseline \in Worth
  BY <1>1 DEF UpdateScore, Step, RowsAreThere, Readings, Scores
<1>3. poll[p].value \in Int /\ poll[p].seen.baseline \in Int
  BY <1>2
<1>4. Gain(p) \in Int
  BY <1>3 DEF Gain
<1> QED
  BY <1>2, <1>4 DEF UpdateScore, Step, Scores

\* Types are kept by every step.
LEMMA ContestTypeStep ==
    ASSUME ContestTypeOK, RowsAreThere, [ContestNext]_contestVars
    PROVE  ContestTypeOK'
<1> USE EventContestAssumption DEF ContestTypeOK, Stops, Readings, Scores
<1>1. ASSUME NEW p \in Poll, Turn(p)
      PROVE  ContestTypeOK'
  <2>1. CASE ClaimPoll(p)
    BY <2>1 DEF ClaimPoll, Step, contestRowVars
  <2>2. CASE ReadProfile(p)
    <3>1. PICK value \in {worth, Unknown} :
             poll' = [poll EXCEPT ![p] = [@ EXCEPT !.at = "baseline", !.value = value]]
      BY <2>2 DEF ReadProfile
    <3>2. [poll[p] EXCEPT !.at = "baseline", !.value = value]
             \in [at : Stops, value : Readings, seen : Scores \cup {Absent}]
      OBVIOUS
    <3>3. poll' \in [Poll -> [at : Stops, value : Readings, seen : Scores \cup {Absent}]]
      BY <3>1, <3>2
    <3> QED
      BY <2>2, <3>3 DEF ReadProfile, contestRowVars
  <2>3. CASE Skip(p)
    BY <2>3 DEF Skip, contestRowVars
  <2>4. CASE WriteBaseline(p)
    BY <2>4 DEF WriteBaseline, Baseline, Step
  <2>5. CASE WriteFinal(p)
    BY <2>5 DEF WriteFinal, Step
  <2>6. CASE CreateScore(p)
    BY <2>6 DEF CreateScore, Step
  <2>7. CASE ReadScore(p)
    <3> DEFINE to == IF score.current = poll[p].value THEN "release" ELSE "update"
    <3>1. score \in Scores /\ to \in Stops
      BY <2>7 DEF ReadScore, RowsAreThere
    <3>2. [poll[p] EXCEPT !.at = to, !.seen = score]
             \in [at : Stops, value : Readings, seen : Scores \cup {Absent}]
      <4>1. poll[p] \in [at : Stops, value : Readings, seen : Scores \cup {Absent}]
        OBVIOUS
      <4> HIDE DEF to, ContestTypeOK, Stops, Readings, Scores
      <4> QED
        BY <3>1, <4>1
    <3>3. poll' \in [Poll -> [at : Stops, value : Readings, seen : Scores \cup {Absent}]]
      BY <2>7, <3>2 DEF ReadScore
    <3> QED
      BY <2>7, <3>3 DEF ReadScore, contestRowVars
  <2>8. CASE UpdateScore(p)
    <3>1. score' \in Scores
      BY <2>8, ContestScoreWritten
    <3>2. poll' = [poll EXCEPT ![p].at = "release"]
      BY <2>8 DEF UpdateScore, Step
    <3>3. poll' \in [Poll -> [at : Stops, value : Readings, seen : Scores \cup {Absent}]]
      BY <3>2
    <3> QED
      BY <2>8, <3>1, <3>3 DEF UpdateScore
  <2>9. CASE ScoringFails(p)
    BY <2>9 DEF ScoringFails, contestRowVars
  <2>10. CASE ReleasePoll(p)
    BY <2>10 DEF ReleasePoll, Resting, contestRowVars
  <2> QED
    BY <1>1, <2>1, <2>2, <2>3, <2>4, <2>5, <2>6, <2>7, <2>8, <2>9, <2>10 DEF Turn
<1>2. ASSUME NEW p \in Poll, WorkerDies(p)
      PROVE  ContestTypeOK'
  BY <1>2 DEF WorkerDies, Resting, contestRowVars
<1>3. CASE ClaimLapses \/ Plays \/ EventEnds \/ UNCHANGED contestVars
  BY <1>3 DEF ClaimLapses, Plays, EventEnds, contestVars, contestRowVars
<1> QED
  BY <1>1, <1>2, <1>3 DEF ContestNext

\* No step moves a starting line.
LEMMA ContestLinesStand ==
    ASSUME ContestTypeOK, RowsAreThere, [ContestNext]_contestVars
    PROVE  LinesStand
<1> USE DEF LinesStand
<1>1. ASSUME NEW p \in Poll, CreateScore(p)
      PROVE  LinesStand
  BY <1>1 DEF CreateScore
<1>2. ASSUME NEW p \in Poll, UpdateScore(p)
      PROVE  LinesStand
  <2>1. score \in Scores /\ score' \in Scores
    BY <1>2, ContestScoreWritten
  <2>2. score'.baseline = score.baseline
    BY <1>2, <2>1 DEF UpdateScore, Scores
  <2> QED
    BY <1>2, <2>1, <2>2, EventContestAssumption DEF UpdateScore
<1>3. ASSUME NEW p \in Poll, WriteBaseline(p)
      PROVE  LinesStand
  BY <1>3 DEF WriteBaseline, Baseline
<1>4. ASSUME NEW p \in Poll,
             \/ ClaimPoll(p) \/ ReadProfile(p) \/ Skip(p) \/ WriteFinal(p) \/ ReadScore(p)
             \/ ScoringFails(p) \/ ReleasePoll(p) \/ WorkerDies(p)
      PROVE  LinesStand
  BY <1>4 DEF ClaimPoll, ReadProfile, Skip, WriteFinal, ReadScore, ScoringFails, ReleasePoll,
              WorkerDies, contestRowVars
<1>5. CASE ClaimLapses \/ Plays \/ EventEnds \/ UNCHANGED contestVars
  BY <1>5 DEF ClaimLapses, Plays, EventEnds, contestVars, contestRowVars
<1> QED
  BY <1>1, <1>2, <1>3, <1>4, <1>5 DEF ContestNext, Turn

\* The rows a pass acts on stay there.
LEMMA ContestRowsStep ==
    ASSUME ContestInv, [ContestNext]_contestVars
    PROVE  RowsAreThere'
<1>1. ContestTypeOK /\ ContestTypeOK' /\ RowsAreThere /\ LinesStand
  BY ContestTypeStep, ContestLinesStand DEF ContestInv
<1> USE <1>1, EventContestAssumption DEF RowsAreThere, LinesStand
<1>2. ASSUME NEW p \in Poll,
             poll' = [poll EXCEPT ![p] = poll'[p]],
             /\ poll'[p].at \in {"final", "create", "read", "update"} => starting' # Absent
             /\ poll'[p].at \in {"read", "update"} => score' # Absent /\ poll'[p].value # Unknown
             /\ poll'[p].at = "update" =>
                   poll'[p].seen # Absent /\ poll'[p].seen.baseline = score'.baseline
      PROVE  RowsAreThere'
  <2> SUFFICES ASSUME NEW q \in Poll, q # p
               PROVE  poll'[q] = poll[q]
    BY <1>2
  <2> QED
    BY <1>2 DEF ContestTypeOK
<1>3. ASSUME NEW p \in Poll, Turn(p)
      PROVE  RowsAreThere'
  <2>1. CASE ClaimPoll(p)
    BY <2>1, <1>2 DEF ClaimPoll, Step, ContestTypeOK
  <2>2. CASE ReadProfile(p)
    BY <2>2, <1>2 DEF ReadProfile, ContestTypeOK
  <2>3. CASE Skip(p)
    BY <2>3, <1>2 DEF Skip, ContestTypeOK
  <2>4. CASE WriteBaseline(p)
    BY <2>4, <1>2 DEF WriteBaseline, Baseline, Step, ContestTypeOK, Readings
  <2>5. CASE WriteFinal(p)
    BY <2>5, <1>2 DEF WriteFinal, Step, ContestTypeOK
  <2>6. CASE CreateScore(p)
    BY <2>6, <1>2 DEF CreateScore, Step, ContestTypeOK
  <2>7. CASE ReadScore(p)
    BY <2>7, <1>2 DEF ReadScore, ContestTypeOK, contestRowVars
  <2>8. CASE UpdateScore(p)
    BY <2>8, <1>2 DEF UpdateScore, Step, ContestTypeOK
  <2>9. CASE ScoringFails(p)
    BY <2>9, <1>2 DEF ScoringFails, ContestTypeOK
  <2>10. CASE ReleasePoll(p)
    BY <2>10, <1>2 DEF ReleasePoll, Resting, ContestTypeOK
  <2> QED
    BY <1>3, <2>1, <2>2, <2>3, <2>4, <2>5, <2>6, <2>7, <2>8, <2>9, <2>10 DEF Turn
<1>4. ASSUME NEW p \in Poll, WorkerDies(p)
      PROVE  RowsAreThere'
  BY <1>4, <1>2 DEF WorkerDies, Resting, ContestTypeOK
<1>5. CASE ClaimLapses \/ Plays \/ EventEnds \/ UNCHANGED contestVars
  BY <1>5 DEF ClaimLapses, Plays, EventEnds, contestVars, contestRowVars
<1> QED
  BY <1>3, <1>4, <1>5 DEF ContestNext

\* Undisturbed, the pass that saved the baseline is the one that scores it.
LEMMA ContestAloneStep ==
    ASSUME ContestInv, [ContestNext]_contestVars
    PROVE  OneAtATime'
<1>1. ContestTypeOK /\ RowsAreThere /\ OneAtATime /\ LinesStand
  BY ContestLinesStand DEF ContestInv
<1> USE <1>1, EventContestAssumption DEF ContestTypeOK
<1>2. ASSUME NEW p \in Poll, ~disturbed', ~disturbed,
             poll[p].at # "rest",
             poll' = [poll EXCEPT ![p] = poll'[p]],
             starting' \in Worth /\ score' = Absent =>
                 poll'[p].at \in {"final", "create"} /\ poll'[p].value = starting'
      PROVE  OneAtATime'
  BY <1>2 DEF OneAtATime
<1>3. ASSUME NEW p \in Poll, Turn(p), ~disturbed'
      PROVE  OneAtATime'
  <2>1. CASE ClaimPoll(p)
    BY <1>3, <2>1 DEF ClaimPoll, Step, OneAtATime, contestRowVars
  <2>2. ASSUME ~disturbed, poll[p].at # "rest", starting \in Worth, score = Absent
        PROVE  poll[p].at \in {"final", "create"} /\ poll[p].value = starting
    BY <2>2 DEF OneAtATime
  <2>3. CASE ReadProfile(p)
    BY <1>2, <1>3, <2>2, <2>3 DEF ReadProfile, contestRowVars
  <2>4. CASE Skip(p)
    BY <1>2, <1>3, <2>2, <2>4 DEF Skip, contestRowVars
  <2>5. CASE WriteBaseline(p)
    <3>1. /\ poll[p].at = "baseline" /\ poll' = [poll EXCEPT ![p].at = "final"]
          /\ starting' = IF starting = Absent THEN poll[p].value ELSE starting
          /\ UNCHANGED <<score, disturbed>>
      BY <2>5 DEF WriteBaseline, Baseline, Step
    <3>2. poll'[p].at = "final" /\ poll'[p].value = poll[p].value
          /\ poll' = [poll EXCEPT ![p] = poll'[p]]
      BY <3>1
    <3>3. ASSUME starting' \in Worth, score' = Absent
          PROVE  poll'[p].value = starting'
      <4>1. CASE starting = Absent
        BY <3>1, <3>2, <4>1
      <4>2. CASE starting # Absent
        BY <1>3, <2>2, <3>1, <3>3, <4>2
      <4> QED
        BY <4>1, <4>2
    <3> QED
      BY <1>2, <1>3, <3>1, <3>2, <3>3
  <2>6. CASE WriteFinal(p)
    BY <1>2, <1>3, <2>2, <2>6 DEF WriteFinal, Step
  <2>7. CASE CreateScore(p)
    <3>1. score' # Absent
      <4>1. poll[p].value \in Worth
        BY <2>7 DEF CreateScore, Readings
      <4>2. CASE score = Absent
        BY <2>7, <4>1, <4>2 DEF CreateScore, Scores
      <4>3. CASE score # Absent
        BY <4>3, <2>7 DEF CreateScore
      <4> QED
        BY <4>2, <4>3
    <3> QED
      BY <1>2, <1>3, <2>7, <3>1 DEF CreateScore, Step
  <2>8. CASE ReadScore(p)
    BY <1>2, <1>3, <2>2, <2>8 DEF ReadScore, contestRowVars
  <2>9. CASE UpdateScore(p)
    BY <1>2, <1>3, <2>9, ContestScoreWritten DEF UpdateScore, Step
  <2>10. CASE ScoringFails(p)
    BY <1>3, <2>10 DEF ScoringFails
  <2>11. CASE ReleasePoll(p)
    BY <1>2, <1>3, <2>2, <2>11 DEF ReleasePoll, contestRowVars
  <2> QED
    BY <1>3, <2>1, <2>3, <2>4, <2>5, <2>6, <2>7, <2>8, <2>9, <2>10, <2>11 DEF Turn
<1>4. ASSUME NEW p \in Poll, WorkerDies(p)
      PROVE  OneAtATime'
  BY <1>4 DEF WorkerDies, OneAtATime
<1>5. CASE ClaimLapses \/ Plays \/ EventEnds \/ UNCHANGED contestVars
  BY <1>5 DEF ClaimLapses, Plays, EventEnds, contestVars, contestRowVars, OneAtATime
<1>6. disturbed' => OneAtATime'
  BY DEF OneAtATime
<1> QED
  BY <1>3, <1>4, <1>5, <1>6 DEF ContestNext

\* The gain stays the distance from the starting line.
LEMMA ContestGainStep ==
    ASSUME ContestInv, [ContestNext]_contestVars
    PROVE  GainHolds'
<1>1. ContestTypeOK /\ RowsAreThere /\ OneAtATime /\ GainHolds
  BY DEF ContestInv
<1> USE <1>1, EventContestAssumption DEF ContestTypeOK
<1>2. ASSUME NEW p \in Poll, CreateScore(p)
      PROVE  GainHolds'
  <2>1. poll[p].value \in Worth /\ starting # Absent /\ starting' = starting
    BY <1>2 DEF CreateScore, Step, RowsAreThere, Readings
  <2>2. CASE score # Absent
    BY <1>2, <2>2 DEF CreateScore, GainHolds
  <2>3. CASE score = Absent
    <3>1. score' = [baseline |-> poll[p].value, current |-> poll[p].value, delta |-> 0]
      BY <1>2, <2>3 DEF CreateScore
    <3>2. score'.delta = score'.current - score'.baseline
      <4>1. poll[p].value \in Int
        BY <2>1
      <4> QED
        BY <3>1, <4>1
    <3>3. ASSUME ~disturbed'
          PROVE  starting' \in {score'.baseline, Unknown}
      <4>1. ~disturbed /\ poll[p].at = "create"
        BY <1>2, <3>3 DEF CreateScore, Step
      <4>2. CASE starting \in Worth
        BY <2>1, <2>3, <3>1, <4>1, <4>2 DEF OneAtATime
      <4> QED
        BY <2>1, <4>2 DEF Readings
    <3> QED
      BY <2>1, <3>2, <3>3 DEF GainHolds
  <2> QED
    BY <2>2, <2>3
<1>3. ASSUME NEW p \in Poll, UpdateScore(p)
      PROVE  GainHolds'
  <2>1. /\ score \in Scores /\ score # Absent /\ starting' = starting /\ disturbed' = disturbed
        /\ poll[p].seen.baseline = score.baseline
    BY <1>3, ContestScoreWritten DEF UpdateScore, Step, RowsAreThere
  <2>2. /\ score'.current = poll[p].value /\ score'.baseline = score.baseline
        /\ score'.delta = poll[p].value - score.baseline
    BY <1>3, <2>1 DEF UpdateScore, Gain, Scores
  <2> QED
    BY <2>1, <2>2 DEF GainHolds
<1>4. ASSUME NEW p \in Poll, WriteBaseline(p)
      PROVE  GainHolds'
  BY <1>4 DEF WriteBaseline, Baseline, GainHolds
<1>5. ASSUME NEW p \in Poll,
             \/ ClaimPoll(p) \/ ReadProfile(p) \/ Skip(p) \/ WriteFinal(p) \/ ReadScore(p)
             \/ ScoringFails(p) \/ ReleasePoll(p) \/ WorkerDies(p)
      PROVE  GainHolds'
  BY <1>5 DEF ClaimPoll, ReadProfile, Skip, WriteFinal, ReadScore, ScoringFails, ReleasePoll,
              WorkerDies, contestRowVars, GainHolds
<1>6. CASE ClaimLapses \/ Plays \/ EventEnds \/ UNCHANGED contestVars
  BY <1>6 DEF ClaimLapses, Plays, EventEnds, contestVars, contestRowVars, GainHolds
<1> QED
  BY <1>2, <1>3, <1>4, <1>5, <1>6 DEF ContestNext, Turn

\* The invariant is inductive.
LEMMA ContestInductive ==
    ASSUME ContestInv, [ContestNext]_contestVars
    PROVE  ContestInv'
BY ContestTypeStep, ContestRowsStep, ContestAloneStep, ContestGainStep DEF ContestInv

\* Every variable of the contest has its type: a score, once there, is a row
\* with a figure in it, and no reading that lacks one gets into it.
THEOREM ContestTypeCorrect == ContestSpec => []ContestTypeOK
<1>1. ContestInv => ContestTypeOK
  BY DEF ContestInv
<1> QED
  BY ContestInitInv, ContestInductive, <1>1, PTL DEF ContestSpec

\* upsertScore and writeBaseline need no lock: however many passes score a
\* participant at once, fail or die, no starting line moves and the gain is the
\* distance from it.
THEOREM ContestGainIsTrue == ContestSpec => GainIsTrue
<1>1. ContestInv /\ [ContestNext]_contestVars =>
         [/\ GainHolds'
          /\ starting # Absent => starting' = starting
          /\ score # Absent => score' # Absent /\ score'.baseline = score.baseline]_contestVars
  BY ContestGainStep, ContestLinesStand DEF ContestInv, LinesStand
<1> QED
  BY ContestInitInv, ContestInductive, <1>1, PTL DEF ContestSpec, GainIsTrue

----------------------------------------------------------------------------
(* The seats of an event.                                                  *)

\* Presses that were granted a seat and have not written it yet.
Granted == {k \in Press : press[k].at = "upsert" /\ press[k].state = "GOING"}

\* A press judges by a capacity the event has had, and the seats taken and
\* granted are within the bound.
SignupInv ==
    /\ SignupTypeOK
    /\ capacity <= widest
    /\ \A k \in Press : press[k].at = "count" => press[k].seats <= widest
    /\ Cardinality(Going) + Cardinality(Granted) < widest + Cardinality(Press)

\* The sets the bound counts are finite.
LEMMA SignupFinite ==
    ASSUME NEW G \in SUBSET Guest, NEW H \in SUBSET Press
    PROVE  /\ IsFiniteSet(G) /\ Cardinality(G) \in Nat
           /\ IsFiniteSet(H) /\ Cardinality(H) \in Nat
           /\ Cardinality(H) <= Cardinality(Press) /\ Cardinality(Press) \in Nat \ {0}
<1>1. IsFiniteSet(Guest) /\ IsFiniteSet(Press) /\ Press # {}
  BY EventSignupAssumption
<1>2. IsFiniteSet(G) /\ IsFiniteSet(H) /\ Cardinality(H) <= Cardinality(Press)
  BY <1>1, FS_Subset
<1>3. Cardinality(G) \in Nat /\ Cardinality(H) \in Nat /\ Cardinality(Press) \in Nat
  BY <1>1, <1>2, FS_CardinalityType
<1>4. Cardinality(Press) # 0
  BY <1>1, FS_EmptySet
<1> QED
  BY <1>2, <1>3, <1>4

\* The invariant holds at first.
LEMMA SignupInitInv == SignupInit => SignupInv
<1> SUFFICES ASSUME SignupInit
             PROVE  SignupInv
  OBVIOUS
<1>1. SignupTypeOK
  BY EventSignupAssumption DEF SignupInit, SignupTypeOK, NoPress, States
<1>2. Going = {} /\ Granted = {}
  BY DEF SignupInit, Going, Granted, NoPress
<1>3. Cardinality(Going) = 0 /\ Cardinality(Granted) = 0
  BY <1>2, FS_EmptySet
<1>4. capacity <= widest /\ widest \in Nat \ {0}
  BY EventSignupAssumption DEF SignupInit
<1>5. \A k \in Press : press[k].at # "count"
  BY DEF SignupInit, NoPress
<1>6. Cardinality(Press) \in Nat \ {0}
  BY SignupFinite
<1> QED
  BY <1>1, <1>3, <1>4, <1>5, <1>6 DEF SignupInv

\* Types are kept by every step.
LEMMA SignupTypeStep ==
    ASSUME SignupTypeOK, [SignupNext]_eventSignupVars
    PROVE  SignupTypeOK'
<1> DEFINE Presses == [at : {"idle", "toggle", "event", "count", "upsert"},
                       who : Guest \cup {"nobody"}, state : States \cup {"TOGGLE"}, seats : Nat]
<1>1. ASSUME NEW k \in Press, NEW from, NEW answer \in Presses, Follow(k, from, answer),
             answer.at \in {"event", "count", "upsert"} => answer.state \in States,
             UNCHANGED <<capacity, closed, widest>>, rsvp' \in [Guest -> States \cup {"none"}],
             presses' \in Nat
      PROVE  SignupTypeOK'
  BY <1>1 DEF SignupTypeOK, Follow
<1>2. ASSUME NEW k \in Press, NEW m \in Guest,
             NEW state \in {"TOGGLE", "GOING", "MAYBE", "NOT_GOING"}, Answer(k, m, state)
      PROVE  SignupTypeOK'
  BY <1>1, <1>2 DEF Answer, SignupTypeOK, States
<1>3. ASSUME NEW k \in Press, ToggleTarget(k)
      PROVE  SignupTypeOK'
  <2>1. press[k] \in Presses
    BY DEF SignupTypeOK
  <2> DEFINE chosen == IF Registered(press[k].who) THEN "NOT_GOING" ELSE "GOING"
  <2>2. chosen \in States
    BY DEF States
  <2> HIDE DEF chosen
  <2>3. [press[k] EXCEPT !.at = "event", !.state = chosen] \in Presses
    BY <2>1, <2>2
  <2> QED
    BY <1>1, <1>3, <2>1, <2>2, <2>3 DEF ToggleTarget, SignupTypeOK, chosen
<1>4. ASSUME NEW k \in Press, ReadEventForRsvp(k)
      PROVE  SignupTypeOK'
  <2>1. press[k] \in Presses /\ capacity \in Nat
    BY EventSignupAssumption DEF SignupTypeOK
  <2>2. NoPress \in Presses /\ [press[k] EXCEPT !.at = "count", !.seats = capacity] \in Presses
    BY <2>1 DEF NoPress
  <2>3. press[k].state \in States
    BY <1>4 DEF ReadEventForRsvp, Follow, SignupTypeOK
  <2> QED
    BY <1>1, <1>4, <2>1, <2>2, <2>3 DEF ReadEventForRsvp, SignupTypeOK, NoPress
<1>5. ASSUME NEW k \in Press, CountGoing(k)
      PROVE  SignupTypeOK'
  <2>1. press[k] \in Presses /\ press[k].state \in States
    BY <1>5 DEF CountGoing, Follow, SignupTypeOK
  <2>2. ASSUME NEW state \in States
        PROVE  [press[k] EXCEPT !.at = "upsert", !.state = state] \in Presses
    BY <2>1
  <2>3. PICK state \in States :
           Follow(k, "count", [press[k] EXCEPT !.at = "upsert", !.state = state])
    BY <1>5, <2>1 DEF CountGoing, States
  <2> QED
    BY <1>1, <1>5, <2>1, <2>2, <2>3 DEF CountGoing, SignupTypeOK
<1>6. ASSUME NEW k \in Press, UpsertRsvp(k)
      PROVE  SignupTypeOK'
  <2>1. press[k].state \in States
    BY <1>6 DEF UpsertRsvp, Follow, SignupTypeOK
  <2>2. rsvp' \in [Guest -> States \cup {"none"}]
    BY <1>6, <2>1 DEF UpsertRsvp, SignupTypeOK
  <2>3. NoPress \in Presses
    BY DEF NoPress
  <2> QED
    BY <1>1, <1>6, <2>2, <2>3 DEF UpsertRsvp, SignupTypeOK, NoPress
<1>7. ASSUME NEW n \in Seats, Resize(n)
      PROVE  SignupTypeOK'
  BY <1>7 DEF Resize, SignupTypeOK
<1>8. CASE CloseEvent \/ UNCHANGED eventSignupVars
  BY <1>8 DEF CloseEvent, eventSignupVars, SignupTypeOK
<1> QED
  <2> HIDE DEF Presses
  <2> QED
    BY <1>2, <1>3, <1>4, <1>5, <1>6, <1>7, <1>8 DEF SignupNext

\* The seats taken and granted stay within the bound.
LEMMA SignupSeatsStep ==
    ASSUME SignupInv, [SignupNext]_eventSignupVars
    PROVE  SignupInv'
<1> DEFINE Bounded == Cardinality(Going) + Cardinality(Granted) < widest + Cardinality(Press)
<1>1. SignupTypeOK /\ SignupTypeOK' /\ Bounded
  BY SignupTypeStep DEF SignupInv
<1>2. /\ IsFiniteSet(Going) /\ Cardinality(Going) \in Nat
      /\ IsFiniteSet(Granted) /\ Cardinality(Granted) \in Nat
      /\ Cardinality(Press) \in Nat \ {0}
  <2>1. Going \in SUBSET Guest /\ Granted \in SUBSET Press
    BY DEF Going, Granted
  <2> QED
    BY <2>1, SignupFinite
<1>3. /\ Cardinality(Going') \in Nat /\ Cardinality(Granted') \in Nat
      /\ Cardinality(Granted') <= Cardinality(Press)
  <2>1. Going' \in SUBSET Guest /\ Granted' \in SUBSET Press
    BY DEF Going, Granted
  <2> QED
    BY <2>1, SignupFinite
<1>4. capacity \in Nat /\ widest \in Nat /\ capacity' \in Nat /\ widest' \in Nat
  BY <1>1, EventSignupAssumption DEF SignupTypeOK
<1>5. capacity <= widest /\ \A k \in Press : press[k].at = "count" => press[k].seats <= widest
  BY DEF SignupInv
<1>6. ASSUME Going' = Going, Granted' \subseteq Granted, widest <= widest'
      PROVE  Bounded'
  <2>1. Cardinality(Granted') <= Cardinality(Granted)
    BY <1>2, <1>6, FS_Subset
  <2> QED
    BY <1>1, <1>2, <1>3, <1>4, <1>6, <2>1
<1> HIDE DEF Bounded
<1> DEFINE Judged == /\ capacity <= widest
                     /\ \A k \in Press : press[k].at = "count" => press[k].seats <= widest
<1>7. ASSUME NEW k \in Press, NEW from, NEW answer, Follow(k, from, answer),
             UNCHANGED <<rsvp, capacity, widest>>,
             answer.at = "count" => answer.seats <= widest,
             answer.at # "upsert"
      PROVE  Judged' /\ Bounded'
  <2>1. press' = [press EXCEPT ![k] = answer] /\ DOMAIN press = Press
    BY <1>1, <1>7 DEF Follow, SignupTypeOK
  <2>2. Going' = Going /\ Granted' \subseteq Granted
    BY <1>7, <2>1 DEF Going, Granted
  <2>3. Judged'
    BY <1>5, <1>7, <2>1
  <2> QED
    BY <1>4, <1>6, <1>7, <2>2, <2>3
<1>8. ASSUME NEW k \in Press, NEW m \in Guest,
             NEW state \in {"TOGGLE", "GOING", "MAYBE", "NOT_GOING"}, Answer(k, m, state)
      PROVE  Judged' /\ Bounded'
  <2> HIDE DEF Judged
  <2> QED
    BY <1>7, <1>8 DEF Answer
<1>9. ASSUME NEW k \in Press, ToggleTarget(k)
      PROVE  Judged' /\ Bounded'
  <2> DEFINE answer == [press[k] EXCEPT !.at = "event",
                           !.state = IF Registered(press[k].who) THEN "NOT_GOING" ELSE "GOING"]
  <2>1. answer.at = "event"
    BY <1>1 DEF SignupTypeOK
  <2>2. Follow(k, "toggle", answer) /\ UNCHANGED <<rsvp, capacity, widest>>
    BY <1>9 DEF ToggleTarget
  <2> HIDE DEF answer, Judged
  <2> QED
    BY <1>7, <2>1, <2>2
<1>10. ASSUME NEW k \in Press, ReadEventForRsvp(k)
       PROVE  Judged' /\ Bounded'
  <2> DEFINE answer == IF closed THEN NoPress
                       ELSE [press[k] EXCEPT !.at = "count", !.seats = capacity]
  <2>1. answer.at # "upsert" /\ (answer.at = "count" => answer.seats <= widest)
    BY <1>1, <1>5 DEF SignupTypeOK, NoPress
  <2>2. Follow(k, "event", answer) /\ UNCHANGED <<rsvp, capacity, widest>>
    BY <1>10 DEF ReadEventForRsvp
  <2> HIDE DEF answer, Judged
  <2> QED
    BY <1>7, <2>1, <2>2
<1>11. ASSUME NEW k \in Press, CountGoing(k)
       PROVE  Judged' /\ Bounded'
  <2> DEFINE full == press[k].state = "GOING" /\ AtCapacity(press[k].seats)
             answer == [press[k] EXCEPT !.at = "upsert",
                            !.state = IF full THEN "WAITLIST" ELSE @]
  <2>1. /\ press' = [press EXCEPT ![k] = answer] /\ press[k].at = "count"
        /\ UNCHANGED <<rsvp, capacity, widest>>
    BY <1>11 DEF CountGoing, Follow
  <2>2. answer.at = "upsert" /\ answer.state = IF full THEN "WAITLIST" ELSE press[k].state
    BY <1>1 DEF SignupTypeOK
  <2> HIDE DEF answer
  <2>3. Judged'
    BY <1>1, <1>5, <2>1, <2>2 DEF SignupTypeOK
  <2>4. Going' = Going
    BY <2>1 DEF Going
  <2>5. CASE answer.state # "GOING"
    <3>1. Granted' \subseteq Granted
      BY <1>1, <2>1, <2>5 DEF Granted, SignupTypeOK
    <3> QED
      BY <1>4, <1>6, <2>1, <2>3, <2>4, <3>1
  <2>6. CASE answer.state = "GOING"
    <3>1. ~AtCapacity(press[k].seats) /\ press[k].seats \in Nat /\ press[k].seats <= widest
      BY <1>1, <1>5, <2>1, <2>2, <2>6 DEF SignupTypeOK
    <3>2. Cardinality(Going) < widest
      BY <1>2, <1>4, <3>1 DEF AtCapacity
    <3>3. Bounded'
      BY <1>2, <1>3, <1>4, <2>1, <2>4, <3>2 DEF Bounded
    <3> QED
      BY <2>3, <3>3
  <2> QED
    BY <2>5, <2>6
<1>12. ASSUME NEW k \in Press, UpsertRsvp(k)
       PROVE  Judged' /\ Bounded'
  <2>1. /\ press' = [press EXCEPT ![k] = NoPress] /\ press[k].at = "upsert"
        /\ rsvp' = [rsvp EXCEPT ![press[k].who] = press[k].state]
        /\ UNCHANGED <<capacity, widest>>
    BY <1>12 DEF UpsertRsvp, Follow
  <2>2. Judged'
    BY <1>1, <1>5, <2>1 DEF SignupTypeOK, NoPress
  <2>3. CASE press[k].state # "GOING"
    <3>1. Going' \subseteq Going /\ Granted' \subseteq Granted
      BY <1>1, <2>1, <2>3 DEF Going, Granted, SignupTypeOK, NoPress
    <3>2. Cardinality(Going') <= Cardinality(Going) /\ Cardinality(Granted') <= Cardinality(Granted)
      BY <1>2, <3>1, FS_Subset
    <3>3. Bounded'
      BY <1>1, <1>2, <1>3, <1>4, <2>1, <3>2 DEF Bounded
    <3> QED
      BY <2>2, <3>3
  <2>4. CASE press[k].state = "GOING"
    <3>1. Going' \subseteq Going \cup {press[k].who}
      BY <1>1, <2>1 DEF Going, SignupTypeOK
    <3>2. Granted' = Granted \ {k} /\ k \in Granted
      BY <1>1, <2>1, <2>4 DEF Granted, SignupTypeOK, NoPress
    <3>3. Cardinality(Going') <= Cardinality(Going) + 1
      <4>1. IsFiniteSet(Going \cup {press[k].who})
        BY <1>2, FS_AddElement
      <4>2. Cardinality(Going \cup {press[k].who}) \in {Cardinality(Going), Cardinality(Going) + 1}
        BY <1>2, FS_AddElement
      <4> QED
        BY <1>2, <1>3, <3>1, <4>1, <4>2, FS_Subset
    <3>4. Cardinality(Granted') = Cardinality(Granted) - 1
      BY <1>2, <3>2, FS_RemoveElement
    <3>5. Bounded'
      BY <1>1, <1>2, <1>3, <1>4, <2>1, <3>3, <3>4 DEF Bounded
    <3> QED
      BY <2>2, <3>5
  <2> QED
    BY <2>3, <2>4
<1>13. ASSUME NEW n \in Seats, Resize(n)
       PROVE  Judged' /\ Bounded'
  <2>1. UNCHANGED <<rsvp, press>> /\ capacity' = n /\ n \in Nat
    BY <1>13, EventSignupAssumption DEF Resize
  <2>2. widest <= widest' /\ capacity' <= widest'
    BY <1>4, <1>13, <2>1 DEF Resize
  <2>3. Going' = Going /\ Granted' = Granted
    BY <2>1 DEF Going, Granted
  <2>4. Bounded'
    BY <1>6, <2>2, <2>3
  <2>5. \A k \in Press : press[k].seats \in Nat
    BY <1>1 DEF SignupTypeOK
  <2> QED
    BY <1>4, <1>5, <2>1, <2>2, <2>4, <2>5
<1>14. ASSUME CloseEvent \/ UNCHANGED eventSignupVars
       PROVE  Judged' /\ Bounded'
  <2>1. UNCHANGED <<rsvp, capacity, press, widest>>
    BY <1>14 DEF CloseEvent, eventSignupVars
  <2>2. Going' = Going /\ Granted' = Granted
    BY <2>1 DEF Going, Granted
  <2>3. Bounded'
    BY <1>4, <1>6, <2>1, <2>2
  <2> QED
    BY <1>5, <2>1, <2>3
<1>15. Judged' /\ Bounded'
  <2> HIDE DEF Judged
  <2> QED
    BY <1>8, <1>9, <1>10, <1>11, <1>12, <1>13, <1>14 DEF SignupNext
<1> QED
  BY <1>1, <1>15 DEF SignupInv, Bounded

\* However many members press at once and however the capacity is changed,
\* the event is overbooked by fewer members than can press together.
THEOREM SignupSeatsAreBounded == SignupSpec => []SeatsAreBounded
<1>1. SignupInv => SeatsAreBounded
  <2> SUFFICES ASSUME SignupInv
               PROVE  SeatsAreBounded
    OBVIOUS
  <2>1. Going \in SUBSET Guest /\ Granted \in SUBSET Press
    BY DEF Going, Granted
  <2>2. Cardinality(Going) \in Nat /\ Cardinality(Granted) \in Nat /\ Cardinality(Press) \in Nat
    BY <2>1, SignupFinite
  <2>3. widest \in Nat
    BY EventSignupAssumption DEF SignupInv, SignupTypeOK
  <2> QED
    BY <2>2, <2>3 DEF SignupInv, SeatsAreBounded
<1> QED
  BY SignupInitInv, SignupSeatsStep, <1>1, PTL DEF SignupSpec

----------------------------------------------------------------------------
(* The event board.                                                        *)

\* A publish that edits or binds has a board.
BoardsAreNamed ==
    \A d \in Redraw : redrawing[d].at \in {"edit", "bind"} => redrawing[d].board # 0

\* While nothing is muddled one publish is under way.  It was drawn from the
\* status the row still has, if that is a last one or the board is final; and
\* the board it is about to bind shows what it drew.
DrawnInOrder ==
    ~muddled =>
        /\ \A d, e \in Redraw : Busy(d) /\ Busy(e) => d = e
        /\ \A d \in Redraw :
              LET draw == redrawing[d] IN
              /\ Busy(d) /\ (Over(draw.shows) \/ boardFinal) => draw.shows = stage
              /\ draw.at = "bind" => boards[draw.board].shows = draw.shows

BoardInv == EventBoardTypeOK /\ BoardsAreNamed /\ DrawnInOrder /\ ResultIsShown

Board == [shows : Stage, gone : BOOLEAN]

\* A publish, where n boards have been posted.
Draw(n) == [at : {"idle", "edit", "find", "post", "bind"}, shows : Stage,
            board : 0..n, adopted : BOOLEAN]

LEMMA BoardInitInv == EventBoardInit => BoardInv
<1> SUFFICES ASSUME EventBoardInit PROVE BoardInv
  OBVIOUS
<1>1. /\ NoDraw \in Draw(0) /\ NoDraw.at = "idle"
      /\ boards = <<>> /\ Len(boards) = 0 /\ boards \in Seq(Board)
      /\ \A d \in Redraw : redrawing[d] = NoDraw
  BY EmptySeq DEF EventBoardInit, NoDraw, Draw, Stage, Board
<1>2. redrawing \in [Redraw -> Draw(Len(boards))]
  BY <1>1 DEF EventBoardInit
<1>3. /\ hosting \in [Host -> Stage \cup {"none"}] /\ due \in Stage \cup {"none"}
      /\ pinned \in 0..Len(boards) /\ stage \in Stage
  BY <1>1 DEF EventBoardInit, Stage
<1>4. EventBoardTypeOK
  BY <1>1, <1>2, <1>3 DEF EventBoardInit, EventBoardTypeOK, Draw, Board
<1>5. \A d \in Redraw : ~Busy(d) /\ redrawing[d].at = "idle"
  BY <1>1 DEF Busy
<1>6. BoardsAreNamed /\ DrawnInOrder
  BY <1>5 DEF BoardsAreNamed, DrawnInOrder
<1>7. ResultIsShown
  BY DEF EventBoardInit, ResultIsShown
<1> QED
  BY <1>4, <1>6, <1>7 DEF BoardInv

\* What the type invariant says, in the words of the proof.
LEMMA BoardTypes ==
    ASSUME BoardInv
    PROVE  /\ boards \in Seq(Board) /\ Len(boards) \in Nat /\ DOMAIN boards = 1..Len(boards)
           /\ \A b \in 1..Len(boards) : boards[b] \in Board
           /\ redrawing \in [Redraw -> Draw(Len(boards))]
           /\ \A d \in Redraw : redrawing[d] \in Draw(Len(boards))
           /\ pinned \in 0..Len(boards) /\ boardFinal \in BOOLEAN /\ stage \in Stage
<1>1. boards \in Seq(Board) /\ redrawing \in [Redraw -> Draw(Len(boards))]
  BY DEF BoardInv, EventBoardTypeOK, Board, Draw
<1>2. Len(boards) \in Nat /\ DOMAIN boards = 1..Len(boards)
      /\ \A b \in 1..Len(boards) : boards[b] \in Board
  BY <1>1
<1> QED
  BY <1>1, <1>2 DEF BoardInv, EventBoardTypeOK

\* A publish that is under way takes its next step.  While nothing is muddled
\* it is the only one, so it answers for the board by itself.
LEMMA PublishGoesOn ==
    ASSUME BoardInv, NEW d \in Redraw, Busy(d),
           NEW new \in Draw(Len(boards')), Drawing(d, new),
           new.at \in {"edit", "bind"} => new.board # 0,
           new.at # "idle" => new.shows = redrawing[d].shows,
           new.at = "bind" => boards'[new.board].shows = new.shows,
           boardFinal' /\ new.at # "idle" => boardFinal,
           boards' \in Seq(Board), Len(boards) <= Len(boards'),
           pinned' \in 0..Len(boards'), boardFinal' \in BOOLEAN,
           boardFinal' /\ ~muddled => /\ pinned' # 0 /\ Over(stage)
                                      /\ boards'[pinned'].shows = stage,
           UNCHANGED <<stage, hour, workVars, redraws, muddled>>, mishaps' \in Nat
    PROVE  BoardInv'
<1>1. Len(boards') \in Nat /\ Len(boards) \in Nat
      /\ redrawing \in [Redraw -> Draw(Len(boards))]
  BY BoardTypes
<1>2. /\ redrawing'[d] = new
      /\ \A e \in Redraw : e # d => redrawing'[e] = redrawing[e]
  BY <1>1 DEF Drawing
<1>3. Draw(Len(boards)) \subseteq Draw(Len(boards'))
  BY <1>1 DEF Draw
<1>4. redrawing' \in [Redraw -> Draw(Len(boards'))]
  BY <1>1, <1>3 DEF Drawing
<1>5. EventBoardTypeOK'
  BY <1>4 DEF BoardInv, EventBoardTypeOK, Board, Draw, workVars
<1>6. BoardsAreNamed'
  BY <1>2 DEF BoardInv, BoardsAreNamed
<1>7. ~muddled => \A e \in Redraw : e # d => ~Busy(e)
  BY DEF BoardInv, DrawnInOrder
<1>8. DrawnInOrder'
  <2> SUFFICES ASSUME ~muddled
               PROVE  /\ \A a, b \in Redraw :
                            redrawing'[a].at # "idle" /\ redrawing'[b].at # "idle" => a = b
                      /\ \A a \in Redraw :
                            LET draw == redrawing'[a] IN
                            /\ draw.at # "idle" /\ (Over(draw.shows) \/ boardFinal')
                                  => draw.shows = stage
                            /\ draw.at = "bind" => boards'[draw.board].shows = draw.shows
    BY DEF DrawnInOrder, Busy
  <2>1. \A e \in Redraw : e # d => redrawing'[e].at = "idle"
    BY <1>2, <1>7 DEF Busy
  <2>2. new.at # "idle" /\ (Over(new.shows) \/ boardFinal') => new.shows = stage
    BY DEF BoardInv, DrawnInOrder
  <2> QED
    BY <1>2, <2>1, <2>2
<1>9. ResultIsShown'
  BY DEF ResultIsShown
<1> QED
  BY <1>5, <1>6, <1>8, <1>9 DEF BoardInv

LEMMA NoDrawIsADraw ==
    ASSUME NEW n \in Nat
    PROVE  NoDraw \in Draw(n) /\ NoDraw.at = "idle"
  BY DEF NoDraw, Draw, Stage

LEMMA MishapCounted ==
    ASSUME BoardInv, UNCHANGED mishaps \/ \E what : GoesWrong(what)
    PROVE  mishaps' \in Nat
  BY DEF BoardInv, EventBoardTypeOK, GoesWrong

LEMMA PublishStep ==
    ASSUME BoardInv, NEW d \in Redraw, Publish(d)
    PROVE  BoardInv'
<1> DEFINE draw == redrawing[d]
<1>1. /\ boards \in Seq(Board) /\ Len(boards) \in Nat /\ DOMAIN boards = 1..Len(boards)
      /\ \A b \in 1..Len(boards) : boards[b] \in Board
      /\ redrawing \in [Redraw -> Draw(Len(boards))]
      /\ draw \in Draw(Len(boards))
      /\ pinned \in 0..Len(boards) /\ boardFinal \in BOOLEAN /\ stage \in Stage
      /\ (draw.at \in {"edit", "bind"} => draw.board # 0)
      /\ (boardFinal /\ ~muddled => /\ pinned # 0 /\ Over(stage)
                                    /\ boards[pinned].shows = stage)
  BY BoardTypes DEF BoardInv, BoardsAreNamed, ResultIsShown
<1>2. ~muddled /\ Busy(d) => /\ (Over(draw.shows) \/ boardFinal => draw.shows = stage)
                             /\ (draw.at = "bind" => boards[draw.board].shows = draw.shows)
  BY DEF BoardInv, DrawnInOrder
<1>3. CASE ReadEvent(d)
  <2> DEFINE new == [at |-> IF pinned = 0 THEN "find" ELSE "edit",
                     shows |-> stage, board |-> pinned, adopted |-> FALSE]
  <2>1. new \in Draw(Len(boards)) /\ new.at \in {"find", "edit"}
        /\ (new.at = "edit" => new.board # 0) /\ new.shows = stage
    BY <1>1 DEF Draw
  <2> HIDE DEF new
  <2>2. redrawing' = [redrawing EXCEPT ![d] = new]
    BY <1>3 DEF ReadEvent, Drawing, new
  <2>3. redrawing'[d] = new /\ \A e \in Redraw : e # d => redrawing'[e] = redrawing[e]
    BY <1>1, <2>2
  <2>4. redrawing' \in [Redraw -> Draw(Len(boards))]
    BY <1>1, <2>1, <2>2
  <2>5. UNCHANGED <<stage, pinned, boardFinal, hour, boards, hosting, due, mishaps>>
        /\ redraws' \in Nat /\ muddled' = (muddled \/ \E other \in Redraw : Busy(other))
    BY <1>3 DEF ReadEvent, eventRowVars, workVars, BoardInv, EventBoardTypeOK
  <2>6. EventBoardTypeOK'
    BY <2>4, <2>5 DEF BoardInv, EventBoardTypeOK, Draw
  <2>7. BoardsAreNamed'
    BY <2>1, <2>3 DEF BoardInv, BoardsAreNamed
  <2>8. ~muddled' => ~muddled /\ \A e \in Redraw : e # d => redrawing'[e].at = "idle"
    BY <2>3, <2>5 DEF Busy
  <2>9. DrawnInOrder'
    BY <2>1, <2>3, <2>5, <2>8 DEF DrawnInOrder, Busy
  <2>10. ResultIsShown'
    BY <2>5, <2>8 DEF BoardInv, ResultIsShown
  <2> QED
    BY <2>6, <2>7, <2>9, <2>10 DEF BoardInv
<1>4. CASE EditBoard(d)
  <2> DEFINE new == [draw EXCEPT !.at = "bind"]
             board == [boards[draw.board] EXCEPT !.shows = draw.shows]
  <2>1. draw.board \in 1..Len(boards) /\ Busy(d)
    BY <1>1, <1>4 DEF EditBoard, Draw, Busy
  <2>2. new \in Draw(Len(boards)) /\ new.at = "bind" /\ new.board = draw.board
        /\ new.shows = draw.shows
    BY <1>1 DEF Draw
  <2>3. board \in Board /\ board.shows = draw.shows
    BY <1>1, <2>1 DEF Board, Draw
  <2>4. boards' = [boards EXCEPT ![draw.board] = board] /\ Drawing(d, new)
        /\ UNCHANGED <<eventRowVars, workVars, redraws, mishaps, muddled>>
    BY <1>4 DEF EditBoard
  <2> HIDE DEF new, board
  <2>5. /\ boards' \in Seq(Board) /\ Len(boards') = Len(boards)
        /\ \A b \in 1..Len(boards) : boards'[b] = IF b = draw.board THEN board ELSE boards[b]
    BY <1>1, <2>1, <2>3, <2>4, ExceptSeq
  <2>6. boardFinal /\ ~muddled => boards'[pinned].shows = stage
    BY <1>1, <1>2, <2>1, <2>3, <2>5
  <2> QED
    BY <1>1, <2>1, <2>2, <2>3, <2>4, <2>5, <2>6, MishapCounted, PublishGoesOn DEF eventRowVars
<1>5. CASE EditFails(d)
  <2> DEFINE new == [draw EXCEPT !.at = IF draw.adopted THEN "post" ELSE "find"]
  <2>1. new \in Draw(Len(boards)) /\ new.at \in {"post", "find"} /\ new.shows = draw.shows
    BY <1>1 DEF Draw
  <2>2. Busy(d) /\ Drawing(d, new)
        /\ UNCHANGED <<stage, hour, boards, workVars, redraws, muddled>>
    BY <1>5 DEF EditFails, Busy
  <2> HIDE DEF new
  <2>3. boardFinal' \in BOOLEAN /\ pinned' \in 0..Len(boards')
        /\ (boardFinal' => boardFinal /\ pinned' = pinned)
    <3>1. boardFinal' = (boardFinal /\ ~draw.adopted)
      BY <1>5 DEF EditFails
    <3>2. boardFinal' \in BOOLEAN /\ (boardFinal' => boardFinal /\ ~draw.adopted)
      BY <3>1, Zenon
    <3>3. pinned' = (IF draw.adopted THEN 0 ELSE pinned) /\ boards' = boards
      BY <1>5 DEF EditFails
    <3> QED
      BY <1>1, <3>2, <3>3
  <2>4. boardFinal' /\ ~muddled => /\ pinned' # 0 /\ Over(stage)
                                   /\ boards'[pinned'].shows = stage
    BY <1>1, <2>2, <2>3
  <2>5. mishaps' \in Nat
    BY <1>5, MishapCounted DEF EditFails
  <2>6. new \in Draw(Len(boards')) /\ boards' \in Seq(Board) /\ Len(boards) <= Len(boards')
    BY <1>1, <2>1, <2>2
  <2> QED
    BY <2>1, <2>2, <2>3, <2>4, <2>5, <2>6, PublishGoesOn
<1>6. CASE FindBoard(d)
  <2>1. PICK b \in IF Recognised = {} THEN {0} ELSE Recognised :
           Drawing(d, [draw EXCEPT !.at = IF b = 0 THEN "post" ELSE "edit",
                                   !.board = b, !.adopted = b # 0])
    BY <1>6 DEF FindBoard
  <2> DEFINE new == [draw EXCEPT !.at = IF b = 0 THEN "post" ELSE "edit",
                                 !.board = b, !.adopted = b # 0]
  <2>2. b \in 0..Len(boards)
    BY <1>1 DEF Recognised
  <2>3. new \in Draw(Len(boards)) /\ new.at \in {"post", "edit"} /\ new.shows = draw.shows
        /\ (new.at = "edit" => new.board # 0)
    BY <1>1, <2>2 DEF Draw
  <2>4. Busy(d) /\ Drawing(d, new)
        /\ UNCHANGED <<eventRowVars, boards, workVars, redraws, mishaps, muddled>>
    BY <1>6, <2>1 DEF FindBoard, Busy
  <2> HIDE DEF new
  <2> QED
    BY <1>1, <2>3, <2>4, MishapCounted, PublishGoesOn DEF eventRowVars
<1>7. CASE PostBoard(d)
  <2> DEFINE new == [draw EXCEPT !.at = "bind", !.board = Len(boards) + 1]
             board == [shows |-> draw.shows, gone |-> FALSE]
  <2>1. board \in Board /\ board.shows = draw.shows
    BY <1>1 DEF Board, Draw
  <2>2. boards' = Append(boards, board) /\ Drawing(d, new) /\ Busy(d)
        /\ UNCHANGED <<eventRowVars, workVars, redraws, mishaps, muddled>>
    BY <1>7 DEF PostBoard, Busy
  <2>3. /\ boards' \in Seq(Board) /\ Len(boards') = Len(boards) + 1
        /\ \A b \in 1..Len(boards) : boards'[b] = boards[b]
        /\ boards'[Len(boards) + 1] = board
    BY <1>1, <2>1, <2>2, AppendProperties
  <2>4. new \in Draw(Len(boards'))
        /\ new.at = "bind" /\ new.board = Len(boards) + 1
        /\ new.shows = draw.shows /\ new.board # 0
    <3>0. draw \in Draw(Len(boards)) /\ Len(boards) \in Nat
      BY <1>1
    <3>1. new.at = "bind" /\ new.board = Len(boards) + 1 /\ new.shows = draw.shows
      BY <3>0 DEF Draw
    <3> DEFINE bound == [draw EXCEPT !.at = "bind"]
    <3>2. bound \in Draw(Len(boards) + 1)
      BY <3>0 DEF Draw
    <3>3. new = [bound EXCEPT !.board = Len(boards) + 1]
      OBVIOUS
    <3>4. new \in Draw(Len(boards) + 1)
      <4> HIDE DEF bound, new
      <4> QED
        BY <3>0, <3>2, <3>3 DEF Draw
    <3> QED
      BY <1>1, <2>3, <3>1, <3>4
  <2> HIDE DEF new, board
  <2>5. pinned' \in 0..Len(boards') /\ Len(boards) <= Len(boards')
        /\ (boardFinal /\ ~muddled => boards'[pinned].shows = stage)
    BY <1>1, <2>2, <2>3 DEF eventRowVars
  <2>6. UNCHANGED <<stage, pinned, boardFinal, hour, mishaps>> /\ mishaps' \in Nat
    BY <2>2, MishapCounted DEF eventRowVars
  <2>7. boardFinal' /\ ~muddled => /\ pinned' # 0 /\ Over(stage)
                                   /\ boards'[pinned'].shows = stage
    BY <1>1, <2>5, <2>6
  <2> QED
    BY <1>1, <2>1, <2>2, <2>3, <2>4, <2>5, <2>6, <2>7, PublishGoesOn
<1>8. CASE PostFails(d)
  <2>1. Busy(d) /\ Drawing(d, NoDraw)
        /\ UNCHANGED <<stage, hour, boards, workVars, redraws, muddled>>
    BY <1>8 DEF PostFails, Busy
  <2>2. NoDraw \in Draw(Len(boards')) /\ NoDraw.at = "idle"
    BY <1>1, <2>1, NoDrawIsADraw
  <2>3. mishaps' \in Nat
    BY <1>8, MishapCounted DEF PostFails
  <2>4. pinned' \in 0..Len(boards') /\ boardFinal' \in BOOLEAN
        /\ boards' \in Seq(Board) /\ Len(boards) <= Len(boards') /\ ~boardFinal'
    <3>1. boardFinal' = FALSE
      BY <1>8 DEF PostFails
    <3>2. boardFinal' \in BOOLEAN /\ ~boardFinal'
      BY <3>1, Zenon
    <3> QED
      BY <1>1, <1>8, <2>1, <3>2 DEF PostFails
  <2> QED
    BY <2>1, <2>2, <2>3, <2>4, PublishGoesOn
<1>9. CASE BindBoard(d)
  <2>1. Busy(d) /\ Drawing(d, NoDraw) /\ pinned' = draw.board /\ boardFinal' = Over(draw.shows)
        /\ UNCHANGED <<stage, hour, boards, workVars, redraws, mishaps, muddled>>
        /\ draw.at = "bind"
    BY <1>9 DEF BindBoard, Busy, IsFinal
  <2>2. pinned' \in 0..Len(boards') /\ boardFinal' \in BOOLEAN
    BY <1>1, <2>1 DEF Draw, Over
  <2>3. boardFinal' /\ ~muddled => /\ pinned' # 0 /\ Over(stage)
                                   /\ boards'[pinned'].shows = stage
    BY <1>1, <1>2, <2>1
  <2> QED
    BY <1>1, <2>1, <2>2, <2>3, NoDrawIsADraw, MishapCounted, PublishGoesOn
<1>10. CASE BindFails(d)
  <2>1. Busy(d) /\ Drawing(d, NoDraw)
        /\ UNCHANGED <<eventRowVars, boards, workVars, redraws, muddled>>
        /\ (\E what : GoesWrong(what))
    BY <1>10 DEF BindFails, Busy
  <2> QED
    BY <1>1, <2>1, NoDrawIsADraw, MishapCounted, PublishGoesOn DEF eventRowVars
<1> QED
  BY <1>3, <1>4, <1>5, <1>6, <1>7, <1>8, <1>9, <1>10 DEF Publish

\* The status is written: unless a finished event is written again, no board
\* was final and no publish had drawn a last status.
LEMMA StatusStep ==
    ASSUME BoardInv, NEW to \in Stage, SetStatus(to),
           hour' \in {"before", "running", "over"},
           hosting' \in [Host -> Stage \cup {"none"}], due' \in Stage \cup {"none"}
    PROVE  BoardInv'
<1>1. UNCHANGED <<pinned, boardFinal, boards, redrawing, redraws, mishaps>> /\ stage' = to
      /\ muddled' = (muddled \/ Over(stage))
  BY DEF SetStatus
<1>2. ~muddled' => ~muddled /\ ~Over(stage) /\ ~boardFinal
  BY <1>1 DEF BoardInv, ResultIsShown
<1>3. EventBoardTypeOK'
  BY <1>1 DEF BoardInv, EventBoardTypeOK, Over
<1>4. BoardsAreNamed'
  BY <1>1 DEF BoardInv, BoardsAreNamed
<1>5. DrawnInOrder'
  BY <1>1, <1>2 DEF BoardInv, DrawnInOrder, Busy
<1>6. ResultIsShown'
  BY <1>1, <1>2 DEF ResultIsShown
<1> QED
  BY <1>3, <1>4, <1>5, <1>6 DEF BoardInv

\* Steps that move neither the row's board nor a publish.
LEMMA AsideStep ==
    ASSUME BoardInv, UNCHANGED <<stage, pinned, boardFinal, boards, redrawing, redraws,
                                 mishaps, muddled>>,
           hour' \in {"before", "running", "over"},
           hosting' \in [Host -> Stage \cup {"none"}], due' \in Stage \cup {"none"}
    PROVE  BoardInv'
  BY DEF BoardInv, EventBoardTypeOK, BoardsAreNamed, DrawnInOrder, ResultIsShown, Busy

LEMMA HostAndSweepStep ==
    ASSUME BoardInv,
           \/ \E h \in Host : \/ \E to \in {"LIVE", "COMPLETED", "CANCELLED"} : HostReads(h, to)
                              \/ HostWrites(h)
           \/ TransitionLooks \/ TransitionWrites \/ HourPasses
    PROVE  BoardInv'
<1>1. /\ hosting \in [Host -> Stage \cup {"none"}] /\ due \in Stage \cup {"none"}
      /\ hour \in {"before", "running", "over"}
  BY DEF BoardInv, EventBoardTypeOK
<1>2. ASSUME NEW h \in Host, NEW to \in {"LIVE", "COMPLETED", "CANCELLED"}, HostReads(h, to)
      PROVE  BoardInv'
  <2>1. hosting' \in [Host -> Stage \cup {"none"}]
    BY <1>1, <1>2 DEF HostReads, Stage
  <2> QED
    BY <1>1, <1>2, <2>1, AsideStep DEF HostReads, eventRowVars
<1>3. ASSUME NEW h \in Host, HostWrites(h) PROVE BoardInv'
  <2>1. hosting' \in [Host -> Stage \cup {"none"}] /\ hosting[h] \in Stage
        /\ hour' \in {"before", "running", "over"} /\ due' = due
    BY <1>1, <1>3 DEF HostWrites
  <2>2. SetStatus(hosting[h])
    BY <1>3 DEF HostWrites
  <2> QED
    BY <1>1, <2>1, <2>2, StatusStep
<1>4. CASE TransitionLooks
  <2>1. due' \in Stage \cup {"none"}
    BY <1>4 DEF TransitionLooks, NextEventStatus, Stage
  <2> QED
    BY <1>1, <1>4, <2>1, AsideStep DEF TransitionLooks, eventRowVars
<1>5. CASE TransitionWrites
  <2>1. due \in Stage /\ SetStatus(due) /\ due' = "none" /\ UNCHANGED <<hour, hosting>>
    BY <1>1, <1>5 DEF TransitionWrites
  <2> QED
    BY <1>1, <2>1, StatusStep
<1>6. CASE HourPasses
  BY <1>1, <1>6, AsideStep DEF HourPasses, workVars
<1> QED
  BY <1>2, <1>3, <1>4, <1>5, <1>6

\* The bridge dies with its publishes, or somebody deletes a board.
LEMMA BoardAccidentStep ==
    ASSUME BoardInv, BridgeDies \/ \E b \in DOMAIN boards : BoardDeleted(b)
    PROVE  BoardInv'
<1>1. /\ boards \in Seq(Board) /\ Len(boards) \in Nat /\ DOMAIN boards = 1..Len(boards)
      /\ \A b \in 1..Len(boards) : boards[b] \in Board
      /\ redrawing \in [Redraw -> Draw(Len(boards))]
  BY BoardTypes
<1>2. CASE BridgeDies
  <2>1. NoDraw \in Draw(Len(boards)) /\ NoDraw.at = "idle"
    BY <1>1, NoDrawIsADraw
  <2>2. redrawing' = [d \in Redraw |-> NoDraw] /\ mishaps' \in Nat
        /\ UNCHANGED <<eventRowVars, boards, workVars, redraws, muddled>>
    BY <1>2, MishapCounted DEF BridgeDies
  <2>3. EventBoardTypeOK'
    BY <2>1, <2>2 DEF BoardInv, EventBoardTypeOK, Draw, eventRowVars, workVars
  <2> QED
    BY <2>1, <2>2, <2>3 DEF BoardInv, BoardsAreNamed, DrawnInOrder, ResultIsShown, Busy,
                            eventRowVars
<1>3. ASSUME NEW b \in DOMAIN boards, BoardDeleted(b) PROVE BoardInv'
  <2> DEFINE board == [boards[b] EXCEPT !.gone = TRUE]
  <2>1. board \in Board /\ board.shows = boards[b].shows
    BY <1>1 DEF Board
  <2>2. boards' = [boards EXCEPT ![b] = board] /\ mishaps' \in Nat
        /\ UNCHANGED <<eventRowVars, redrawing, workVars, redraws, muddled>>
    BY <1>3, MishapCounted DEF BoardDeleted
  <2> HIDE DEF board
  <2>3. /\ boards' \in Seq(Board) /\ Len(boards') = Len(boards)
        /\ \A c \in 1..Len(boards) : boards'[c].shows = boards[c].shows
    BY <1>1, <2>1, <2>2, ExceptSeq
  <2>4. EventBoardTypeOK'
    BY <2>2, <2>3 DEF BoardInv, EventBoardTypeOK, Board, eventRowVars, workVars
  <2>5. \A d \in Redraw : redrawing[d].at = "bind" => redrawing[d].board \in 1..Len(boards)
    BY <1>1 DEF BoardInv, BoardsAreNamed, Draw
  <2>6. pinned \in 0..Len(boards)
    BY BoardTypes
  <2>7. DrawnInOrder'
    BY <2>2, <2>3, <2>5 DEF BoardInv, DrawnInOrder, Busy, eventRowVars
  <2>8. ResultIsShown'
    BY <2>2, <2>3, <2>6 DEF BoardInv, ResultIsShown, eventRowVars
  <2>9. BoardsAreNamed'
    BY <2>2 DEF BoardInv, BoardsAreNamed
  <2> QED
    BY <2>4, <2>7, <2>8, <2>9 DEF BoardInv
<1> QED
  BY <1>2, <1>3

LEMMA BoardInductive == BoardInv /\ [EventBoardNext]_eventBoardVars => BoardInv'
<1> SUFFICES ASSUME BoardInv, [EventBoardNext]_eventBoardVars PROVE BoardInv'
  OBVIOUS
<1>1. CASE UNCHANGED eventBoardVars
  <2>1. UNCHANGED <<stage, pinned, boardFinal, hour, boards, redrawing, hosting, due,
                    redraws, mishaps, muddled>>
    BY <1>1 DEF eventBoardVars, eventRowVars, workVars
  <2> QED
    BY <2>1, AsideStep DEF BoardInv, EventBoardTypeOK
<1>2. CASE EventBoardNext
  BY <1>2, HostAndSweepStep, PublishStep, BoardAccidentStep DEF EventBoardNext
<1> QED
  BY <1>1, <1>2

\* The row's messageId and every publish of event-board.ts name boards that
\* were posted, whatever the host, the sweep and Discord do between the read
\* and the binding.
THEOREM EventBoardTypeCorrectness == EventBoardSpec => []EventBoardTypeOK
<1>1. BoardInv => EventBoardTypeOK
  BY DEF BoardInv
<1> QED
  BY BoardInitInv, BoardInductive, <1>1, PTL DEF EventBoardSpec

\* While publishes do not overlap and no late write moves a finished event, a
\* board that takes its event off the sweep's list shows the result: the
\* status the card was drawn from is still the row's when it is bound.
THEOREM ResultIsShownAlways == EventBoardSpec => []ResultIsShown
<1>1. BoardInv => ResultIsShown
  BY DEF BoardInv
<1> QED
  BY BoardInitInv, BoardInductive, <1>1, PTL DEF EventBoardSpec

----------------------------------------------------------------------------
(* One board, as long as nothing goes wrong.                               *)

\* Nothing went wrong in Discord or in the bridge, no two publishes
\* overlapped, and no finished event was written again.
Undisturbed == mishaps = 0 /\ ~muddled

\* There is at most the one board.  At rest the row has it; a publish that
\* looks for a board or posts one is right that there is none, and one that
\* edits or binds has it in hand.
SoleBoard ==
    Undisturbed =>
        /\ Len(boards) <= 1
        /\ \A b \in 1..Len(boards) : ~boards[b].gone
        /\ (\A d \in Redraw : ~Busy(d)) => pinned = Len(boards)
        /\ \A d \in Redraw :
              /\ redrawing[d].at \in {"find", "post"} => Len(boards) = 0
              /\ redrawing[d].at \in {"edit", "bind"} => redrawing[d].board = Len(boards)

\* Steps of others than the publishes leave the board where it is.
LEMMA SoleAside ==
    ASSUME SoleBoard, UNCHANGED <<pinned, boards, redrawing, mishaps>>, muddled => muddled'
    PROVE  SoleBoard'
<1>1. Undisturbed' => Undisturbed
  BY DEF Undisturbed
<1> QED
  BY <1>1 DEF SoleBoard, Busy

\* After a mishap nothing is claimed.
LEMMA SoleMishap ==
    ASSUME BoardInv, NEW what, GoesWrong(what)
    PROVE  SoleBoard'
<1>1. mishaps' # 0
  BY DEF BoardInv, EventBoardTypeOK, GoesWrong
<1> QED
  BY <1>1 DEF SoleBoard, Undisturbed

\* The one publish under way takes its next step.
LEMMA SoleGoesOn ==
    ASSUME BoardInv, SoleBoard, NEW d \in Redraw, Busy(d), NEW new, Drawing(d, new),
           UNCHANGED <<mishaps, muddled>>,
           Undisturbed => /\ Len(boards') <= 1
                          /\ \A b \in 1..Len(boards') : ~boards'[b].gone
                          /\ new.at = "idle" => pinned' = Len(boards')
                          /\ new.at \in {"find", "post"} => Len(boards') = 0
                          /\ new.at \in {"edit", "bind"} => new.board = Len(boards')
    PROVE  SoleBoard'
<1>1. /\ redrawing'[d] = new
      /\ \A e \in Redraw : e # d => redrawing'[e] = redrawing[e]
  BY BoardTypes DEF Drawing
<1>2. Undisturbed => \A e \in Redraw : e # d => redrawing'[e].at = "idle"
  BY <1>1 DEF BoardInv, DrawnInOrder, Undisturbed, Busy
<1> QED
  BY <1>1, <1>2 DEF SoleBoard, Busy, Undisturbed

LEMMA SolePublish ==
    ASSUME BoardInv, SoleBoard, NEW d \in Redraw, Publish(d)
    PROVE  SoleBoard'
<1> DEFINE draw == redrawing[d]
<1>1. /\ boards \in Seq(Board) /\ Len(boards) \in Nat /\ DOMAIN boards = 1..Len(boards)
      /\ \A b \in 1..Len(boards) : boards[b] \in Board
      /\ redrawing \in [Redraw -> Draw(Len(boards))]
      /\ draw \in Draw(Len(boards))
  BY BoardTypes
<1>2. Undisturbed => /\ Len(boards) <= 1
                     /\ \A b \in 1..Len(boards) : ~boards[b].gone
                     /\ draw.at \in {"find", "post"} => Len(boards) = 0
                     /\ draw.at \in {"edit", "bind"} => draw.board = Len(boards)
  BY DEF SoleBoard
<1>3. CASE ReadEvent(d)
  <2> DEFINE new == [at |-> IF pinned = 0 THEN "find" ELSE "edit",
                     shows |-> stage, board |-> pinned, adopted |-> FALSE]
  <2>1. redrawing'[d] = new /\ \A e \in Redraw : e # d => redrawing'[e] = redrawing[e]
    BY <1>1, <1>3 DEF ReadEvent, Drawing
  <2>2. new.at \in {"find", "edit"} /\ (new.at = "find" => pinned = 0) /\ new.board = pinned
    OBVIOUS
  <2> HIDE DEF new
  <2>3. UNCHANGED <<pinned, boards, mishaps>> /\ ~Busy(d)
        /\ muddled' = (muddled \/ \E other \in Redraw : Busy(other))
    BY <1>3 DEF ReadEvent, eventRowVars
  <2>4. Undisturbed' => Undisturbed /\ \A e \in Redraw : ~Busy(e)
    BY <2>3 DEF Undisturbed
  <2>5. Undisturbed' => pinned = Len(boards)
    BY <2>4 DEF SoleBoard
  <2>6. Undisturbed' => \A e \in Redraw : e # d => redrawing'[e].at = "idle"
    BY <2>1, <2>4 DEF Busy
  <2> QED
    BY <1>2, <2>1, <2>2, <2>3, <2>4, <2>5, <2>6 DEF SoleBoard, Busy
<1>4. CASE EditBoard(d)
  <2> DEFINE new == [draw EXCEPT !.at = "bind"]
             board == [boards[draw.board] EXCEPT !.shows = draw.shows]
  <2>1. draw.board \in 1..Len(boards) /\ Busy(d) /\ draw.at = "edit"
    BY <1>1, <1>4 DEF EditBoard, Draw, Busy, BoardInv, BoardsAreNamed
  <2>2. new.at = "bind" /\ new.board = draw.board
    BY <1>1 DEF Draw
  <2>3. board \in Board /\ board.gone = boards[draw.board].gone
    BY <1>1, <2>1 DEF Board, Draw
  <2>4. boards' = [boards EXCEPT ![draw.board] = board] /\ Drawing(d, new)
        /\ UNCHANGED <<mishaps, muddled>>
    BY <1>4 DEF EditBoard
  <2> HIDE DEF new, board
  <2>5. /\ Len(boards') = Len(boards)
        /\ \A b \in 1..Len(boards) : boards'[b] = IF b = draw.board THEN board ELSE boards[b]
    BY <1>1, <2>1, <2>3, <2>4, ExceptSeq
  <2>6. \A b \in 1..Len(boards) : boards'[b].gone = boards[b].gone
    BY <2>3, <2>5
  <2> QED
    BY <1>2, <2>1, <2>2, <2>4, <2>5, <2>6, SoleGoesOn
<1>5. CASE EditFails(d)
  <2>1. CASE boards[draw.board].gone /\ UNCHANGED mishaps
    <3>1. draw.board \in 1..Len(boards)
      BY <1>1, <1>5 DEF EditFails, Draw, BoardInv, BoardsAreNamed
    <3>2. ~Undisturbed
      BY <1>2, <2>1, <3>1
    <3>3. ~Undisturbed'
      BY <1>5, <2>1, <3>2 DEF EditFails, Undisturbed
    <3> QED
      BY <3>3 DEF SoleBoard
  <2>2. CASE GoesWrong("edit")
    BY <2>2, SoleMishap
  <2> QED
    BY <1>5, <2>1, <2>2 DEF EditFails
<1>6. CASE FindBoard(d)
  <2> DEFINE new == [draw EXCEPT !.at = "post", !.board = 0, !.adopted = FALSE]
  <2>1. Recognised = {}
    BY DEF Recognised, PostedAsEmbed
  <2>2. Drawing(d, new) /\ Busy(d) /\ draw.at = "find"
        /\ UNCHANGED <<pinned, boards, mishaps, muddled>>
    BY <1>6, <2>1 DEF FindBoard, Busy, eventRowVars
  <2>3. new.at = "post"
    BY <1>1 DEF Draw
  <2> HIDE DEF new
  <2> QED
    BY <1>2, <2>2, <2>3, SoleGoesOn
<1>7. CASE PostBoard(d)
  <2> DEFINE new == [draw EXCEPT !.at = "bind", !.board = Len(boards) + 1]
             board == [shows |-> draw.shows, gone |-> FALSE]
  <2>1. new.at = "bind" /\ new.board = Len(boards) + 1 /\ ~board.gone /\ board \in Board
    BY <1>1 DEF Draw, Board
  <2>2. boards' = Append(boards, board) /\ Drawing(d, new) /\ Busy(d) /\ draw.at = "post"
        /\ UNCHANGED <<mishaps, muddled>>
    BY <1>7 DEF PostBoard, Busy
  <2> HIDE DEF new, board
  <2>3. Len(boards') = Len(boards) + 1 /\ boards'[Len(boards) + 1] = board
    BY <1>1, <2>1, <2>2, AppendProperties
  <2>4. Undisturbed => Len(boards') = 1 /\ \A b \in 1..1 : ~boards'[b].gone
    BY <1>2, <2>1, <2>2, <2>3
  <2> QED
    BY <1>1, <2>1, <2>2, <2>3, <2>4, SoleGoesOn
<1>8. CASE PostFails(d)
  BY <1>8, SoleMishap DEF PostFails
<1>9. CASE BindBoard(d)
  <2>1. Busy(d) /\ Drawing(d, NoDraw) /\ pinned' = draw.board /\ draw.at = "bind"
        /\ UNCHANGED <<boards, mishaps, muddled>> /\ NoDraw.at = "idle"
    BY <1>9 DEF BindBoard, Busy, NoDraw
  <2> QED
    BY <1>2, <2>1, SoleGoesOn
<1>10. CASE BindFails(d)
  BY <1>10, SoleMishap DEF BindFails
<1> QED
  BY <1>3, <1>4, <1>5, <1>6, <1>7, <1>8, <1>9, <1>10 DEF Publish

LEMMA SoleInductive ==
    BoardInv /\ SoleBoard /\ [EventBoardNext]_eventBoardVars => (BoardInv /\ SoleBoard)'
<1> SUFFICES ASSUME BoardInv, SoleBoard, [EventBoardNext]_eventBoardVars PROVE SoleBoard'
  BY BoardInductive
<1>1. CASE UNCHANGED eventBoardVars
  BY <1>1, SoleAside DEF eventBoardVars, eventRowVars
<1>2. ASSUME NEW h \in Host, NEW to, HostReads(h, to) PROVE SoleBoard'
  BY <1>2, SoleAside DEF HostReads, eventRowVars
<1>3. ASSUME NEW h \in Host, HostWrites(h) PROVE SoleBoard'
  BY <1>3, SoleAside DEF HostWrites, SetStatus
<1>4. CASE TransitionLooks \/ HourPasses
  BY <1>4, SoleAside DEF TransitionLooks, HourPasses, eventRowVars
<1>5. CASE TransitionWrites
  BY <1>5, SoleAside DEF TransitionWrites, SetStatus
<1>6. CASE BridgeDies \/ \E b \in DOMAIN boards : BoardDeleted(b)
  BY <1>6, SoleMishap DEF BridgeDies, BoardDeleted
<1> QED
  BY <1>1, <1>2, <1>3, <1>4, <1>5, <1>6, SolePublish DEF EventBoardNext

\* "Adopt an orphan before posting a twin" (event-board.ts) is kept as long as
\* nothing goes wrong, however many publishes follow on one another, whatever
\* the host and the sweep write between them: the row alone sees to it.  The
\* run EventBoardTwin shows that one crash is enough to break it.
THEOREM OneBoardUndisturbed == EventBoardSpec => [](Undisturbed => OneBoard)
<1>1. EventBoardInit => SoleBoard
  <2> SUFFICES ASSUME EventBoardInit PROVE SoleBoard
    OBVIOUS
  <2>1. boards = <<>> /\ Len(boards) = 0 /\ pinned = 0
        /\ \A d \in Redraw : redrawing[d].at = "idle"
    BY DEF EventBoardInit, NoDraw
  <2> QED
    BY <2>1 DEF SoleBoard
<1>2. BoardInv /\ SoleBoard => (Undisturbed => OneBoard)
  <2> SUFFICES ASSUME BoardInv, SoleBoard, Undisturbed PROVE OneBoard
    OBVIOUS
  <2> DEFINE up == {b \in DOMAIN boards : ~boards[b].gone}
  <2>1. up \subseteq {1}
    BY BoardTypes DEF SoleBoard
  <2>2. IsFiniteSet({1}) /\ Cardinality({1}) = 1
    BY FS_Singleton
  <2>3. Cardinality(up) <= Cardinality({1})
    BY <2>1, <2>2, FS_Subset
  <2> QED
    BY <2>2, <2>3 DEF OneBoard
<1> QED
  BY BoardInitInv, SoleInductive, <1>1, <1>2, PTL DEF EventBoardSpec
=============================================================================
