---------------------------- MODULE MCScheduling ----------------------------
(* The two loops that pace the bots, the drainer of the game command queue *)
(* and the runner of a background job, for TLC.  They share nothing: a     *)
(* behaviour is one of one of them, and the other stays as it began.       *)
EXTENDS CommandQueue, JobRunner

CONSTANTS ban, mute, accept, deny, tick, late, other

\* An answer to a join request has the shorter limit, as in the code.
AgeLimit == [x \in Command |-> IF x \in Urgent THEN 2 ELSE 3]

VARIABLE loop

SchedulingInit ==
    /\ loop \in {"queue", "job"}
    /\ Init /\ (loop = "job" => ~session)
    /\ JobInit

InQueue(A) == loop = "queue" /\ A /\ UNCHANGED <<loop, jobVars>>

InJob(A) == loop = "job" /\ A /\ UNCHANGED <<loop, vars>>

SchedulingSpec ==
    /\ SchedulingInit
    /\ [][InQueue(Next) \/ InJob(JobNext)]_<<loop, vars, jobVars>>

\* The fairness of each loop, for the behaviours that are its own.
FairScheduling ==
    /\ SchedulingSpec
    /\ WF_<<loop, vars, jobVars>>(InQueue(DrainStep))
    /\ WF_<<loop, vars, jobVars>>(InQueue(Tick))
    /\ WF_<<loop, vars, jobVars>>(InJob(Lapse))
    /\ \A r \in Runner : WF_<<loop, vars, jobVars>>(InJob(Step(r)))
=============================================================================
