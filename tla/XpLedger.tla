----------------------------- MODULE XpLedger ------------------------------
(***************************************************************************)
(* One member's XP on one day: the counters that grow in the hot path, the *)
(* ledger that aggregations, adjustments and milestones write, the balance *)
(* rebuilt from it, and the level-ups a bot announces to the server        *)
(* (packages/xp/src/service.ts, packages/db/src/repositories/xp.ts,        *)
(* apps/bridge-bot/src/levels.ts).                                         *)
(*                                                                         *)
(* Abstractions.  One source, of weight one; levels are equally long.  The *)
(* job's lock has a time limit, so aggregations may overlap.  A call that  *)
(* throws goes no further.                                                 *)
(***************************************************************************)
EXTENDS Integers, FiniteSets

CONSTANTS
    Aggregation, Adjustment, Award,  \* runs and calls
    LevelSpan,   \* XP to a level
    MaxActivity  \* bound: what the member does in the day

Rebuild == Aggregation \cup Adjustment \cup Award

ASSUME XpAssumption ==
    /\ LevelSpan \in Nat \ {0} /\ MaxActivity \in Nat /\ IsFiniteSet(Adjustment)
    /\ Aggregation \cap (Adjustment \cup Award) = {} /\ Adjustment \cap Award = {}

VARIABLES
    counter,   \* the day's activity
    derived, reward, manual,   \* the ledger: the day's row, the milestone's, the staff's
    level,     \* the balance's level; NoBalance before the first
    climbs,    \* level-ups recorded: pending or announced
    rebuilds,  \* where each run is
    round,     \* level-ups the announcer is about to mark
    posted, spared,   \* level-ups the server was told of; those the member declined
    earned     \* the most the member ever had

ledgerVars == <<counter, derived, reward, manual, earned>>
newsVars == <<round, posted, spared>>
xpVars == <<ledgerVars, level, climbs, rebuilds, newsVars>>

NoBalance == -1

Levels == 0..(MaxActivity + Cardinality(Adjustment) + 1)

LevelOf(total) == (IF total > 0 THEN total ELSE 0) \div LevelSpan

RebuildAt(at, seen, was) == [at |-> at, seen |-> seen, was |-> was]

RebuildsTo(r, at, seen, was) == rebuilds' = [rebuilds EXCEPT ![r] = RebuildAt(at, seen, was)]

Highest(a, b) == IF a > b THEN a ELSE b

\* recordMessage and the other counters: bump.
Bump ==
    /\ counter < MaxActivity
    /\ counter' = counter + 1
    /\ earned' = Highest(earned, counter' + reward + manual)
    /\ UNCHANGED <<derived, reward, manual, level, climbs, rebuilds, newsVars>>

ReadCounters(r) ==
    /\ r \in Aggregation
    /\ rebuilds[r].at = "new"
    /\ RebuildsTo(r, IF counter > 0 THEN "record" ELSE "ledger", counter, NoBalance)
    /\ UNCHANGED <<ledgerVars, level, climbs, newsVars>>

\* Slip: an award is added to what the ledger has.
Accumulated(old, new) == old + new

\* A row with a dedupe key is overwritten.
Upserted(old, new) == new

RecordDay(r) ==
    /\ rebuilds[r].at = "record"
    /\ derived' = Upserted(derived, rebuilds[r].seen)
    /\ RebuildsTo(r, "ledger", 0, NoBalance)
    /\ UNCHANGED <<counter, reward, manual, earned, level, climbs, newsVars>>

\* adjust: two that are alike are two decisions.
RecordAdjustment(r) ==
    /\ r \in Adjustment
    /\ rebuilds[r].at = "new"
    /\ \E amount \in {-1, 1} : manual' = manual + amount
    /\ earned' = Highest(earned, counter + reward + manual')
    /\ RebuildsTo(r, "ledger", 0, NoBalance)
    /\ UNCHANGED <<counter, derived, reward, level, climbs, newsVars>>

\* awardMilestone, perhaps of the same milestone again.
RecordReward(r) ==
    /\ r \in Award
    /\ rebuilds[r].at = "new"
    /\ reward' = Upserted(reward, 1)
    /\ earned' = Highest(earned, counter + 1 + manual)
    /\ RebuildsTo(r, "ledger", 0, NoBalance)
    /\ UNCHANGED <<counter, derived, manual, level, climbs, newsVars>>

\* rebuildBalances: the ledger, and the level there was.
ReadLedger(r) ==
    /\ rebuilds[r].at = "ledger"
    /\ RebuildsTo(r, "save", LevelOf(derived + reward + manual), level)
    /\ UNCHANGED <<ledgerVars, level, climbs, newsVars>>

SaveBalance(r) ==
    /\ rebuilds[r].at = "save"
    /\ level' = rebuilds[r].seen
    /\ RebuildsTo(r, "climb", rebuilds[r].seen, rebuilds[r].was)
    /\ UNCHANGED <<ledgerVars, climbs, newsVars>>

HasClimbed(from, to) == from # NoBalance /\ to > from

\* recordLevelUps leaves a level-up that is there already as it is.
RecordClimb(r) ==
    /\ rebuilds[r].at = "climb"
    /\ climbs' = IF HasClimbed(rebuilds[r].was, rebuilds[r].seen) /\ climbs[rebuilds[r].seen] = "none"
                 THEN [climbs EXCEPT ![rebuilds[r].seen] = "pending"] ELSE climbs
    /\ RebuildsTo(r, "done", 0, NoBalance)
    /\ UNCHANGED <<ledgerVars, level, newsVars>>

RebuildThrows(r) ==
    /\ rebuilds[r].at \in {"record", "ledger", "save", "climb"}
    /\ RebuildsTo(r, "done", 0, NoBalance)
    /\ UNCHANGED <<ledgerVars, level, climbs, newsVars>>

----------------------------------------------------------------------------
(* announceLevelUpsOnce.                                                   *)

Waiting == {l \in Levels : climbs[l] = "pending"} \ round

PostLevelUp(l) ==
    /\ l \in Waiting
    /\ posted' = posted \cup {l}
    /\ round' = round \cup {l}
    /\ UNCHANGED <<ledgerVars, level, climbs, rebuilds, spared>>

\* The member has declined: cleared, not posted.
SpareLevelUp(l) ==
    /\ l \in Waiting
    /\ spared' = spared \cup {l}
    /\ round' = round \cup {l}
    /\ UNCHANGED <<ledgerVars, level, climbs, rebuilds, posted>>

MarkAnnounced ==
    /\ round # {}
    /\ climbs' = [l \in Levels |-> IF l \in round THEN "announced" ELSE climbs[l]]
    /\ round' = {}
    /\ UNCHANGED <<ledgerVars, level, rebuilds, posted, spared>>

\* The bot dies, or the write fails.
RoundLost ==
    /\ round # {}
    /\ round' = {}
    /\ UNCHANGED <<ledgerVars, level, climbs, rebuilds, posted, spared>>

XpInit ==
    /\ counter = 0 /\ derived = 0 /\ reward = 0 /\ manual = 0 /\ earned = 0
    /\ level \in {NoBalance, 0}
    /\ climbs = [l \in Levels |-> "none"]
    /\ rebuilds = [r \in Rebuild |-> RebuildAt("new", 0, NoBalance)]
    /\ round = {} /\ posted = {} /\ spared = {}

RebuildStep(r) ==
    \/ ReadCounters(r) \/ RecordDay(r) \/ RecordAdjustment(r) \/ RecordReward(r)
    \/ ReadLedger(r) \/ SaveBalance(r) \/ RecordClimb(r) \/ RebuildThrows(r)

Announcer == (\E l \in Levels : PostLevelUp(l) \/ SpareLevelUp(l)) \/ MarkAnnounced \/ RoundLost

XpNext == Bump \/ (\E r \in Rebuild : RebuildStep(r)) \/ Announcer

XpSpec == XpInit /\ [][XpNext]_xpVars

----------------------------------------------------------------------------
(* Properties.                                                             *)

\* Every variable has its type.
XpTypeOK ==
    /\ {counter, derived, reward, earned} \subseteq Nat /\ manual \in Int
    /\ level \in Levels \cup {NoBalance}
    /\ climbs \in [Levels -> {"none", "pending", "announced"}]
    /\ rebuilds \in [Rebuild -> [at : {"new", "record", "ledger", "save", "climb", "done"},
                                 seen : Nat, was : Levels \cup {NoBalance}]]
    /\ round \subseteq Levels /\ posted \subseteq Levels /\ spared \subseteq Levels

\* The server is told only of levels the member really had the XP for, at
\* some time, whatever is derived twice, replayed or rebuilt at once; and a
\* level-up is cleared only when it was posted, or the member declined, however
\* often the bot dies (services.ts:416: "a bot that dies mid-post re-posts on
\* the next pass rather than losing the milestone entirely").
LevelUpsAreTrue ==
    /\ \A l \in posted : l <= LevelOf(earned)
    /\ \A l \in Levels : climbs[l] = "announced" => l \in posted \cup spared
=============================================================================
