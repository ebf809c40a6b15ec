----------------------------- MODULE MCRoundRobin -----------------------------
(***************************************************************************)
(* Two instances of the scheduler in one run. In one of them every task    *)
(* may create and return, up to the first race; in the other one task      *)
(* creates and two return, races included, which is where progress is      *)
(* checked: tasks that create and return without end starve the others.    *)
(***************************************************************************)
EXTENDS MCScheduler

VARIABLE part       \* which of the two a behaviour is of

partVars == <<part, vars>>

Few == INSTANCE Scheduler WITH Creators <- First, Returning <- Others

PartInit == part \in {"many", "few"} /\ Init
PartNext == \/ part = "many" /\ Next /\ UNCHANGED part
            \/ part = "few" /\ Few!Next /\ UNCHANGED part

\* The fairness of Scheduler, whose two handlers are the same in both.
PartFairness == /\ WF_partVars(SysTickHandler /\ UNCHANGED part)
                /\ WF_partVars(PendSvHandler /\ UNCHANGED part)

PartSpec == PartInit /\ [][PartNext]_partVars /\ PartFairness

\* Of the instance in which everybody creates, up to the first race only.
NotRacedOfMany == part = "many" => ~raced

(***************************************************************************)
(* Progress, of the instance in which few create and return.               *)
(***************************************************************************)
\* Scheduler: every task on the ring gets the processor, or the ring was cut
\* by a race or the system stopped.
FewServed == part = "few" => Served

\* SchedulerRoundRobin: with RoundRobinSteps, which holds of both instances,
\* the scheduler is the round-robin queue, its fairness included.
FewQueueGoesOn == part = "few" => QueueGoesOn
=============================================================================
