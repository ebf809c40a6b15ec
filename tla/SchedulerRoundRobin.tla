------------------------- MODULE SchedulerRoundRobin -------------------------
(***************************************************************************)
(* The scheduler implements RoundRobin: the ready queue is the ring read   *)
(* from the successor of cur.                                              *)
(***************************************************************************)
EXTENDS Scheduler

\* The heap has room for finitely many TCBs.
ASSUME SlotsAssumption == IsFiniteSet(TCBs)

\* The i-th TCB that following the links n from c leads to.
Ahead(n, c) == LET f[i \in 1..Cardinality(TCBs)] == IF i = 1 THEN n[c] ELSE n[f[i - 1]] IN f

\* How far a walk w goes through new TCBs before it meets c or closes a cycle.
NewOnes(w, c) == {i \in 1..Cardinality(TCBs) :
  \A j \in 1..i : w[j] # c /\ \A k \in 1..(j - 1) : w[k] # w[j]}

\* The TCBs that following n from c leads to, each once, up to c.
ReadFrom(n, c) == [i \in 1..Cardinality(NewOnes(Ahead(n, c), c)) |-> Ahead(n, c)[i]]

Ready == ReadFrom(next, cur)

Gone == pc[running] \in {"unlinkPrev", "clearSp", "free", "spin"}

RR == INSTANCE RoundRobin
        WITH Tasks <- TCBs, running <- cur, ready <- Ready, gone <- Gone

\* A step either is one of the round-robin queue's or leaves the queue as it
\* is, unless an exit falls into a half-done edit: preempted creations and
\* completed exits neither lose, duplicate nor reorder a waiting task.
RoundRobinSteps == RR!Init /\ [][raced' \/ RR!Next]_RR!vars

\* The queue goes on, up to a race or to a createTask that finds the heap
\* empty: with the steps above this is the whole round-robin specification.
QueueGoesOn == <>(raced \/ fault = "oom") \/ RR!Fairness

ImplementsRoundRobin == RoundRobinSteps /\ QueueGoesOn
=============================================================================
