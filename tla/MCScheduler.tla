----------------------------- MODULE MCScheduler -----------------------------
(***************************************************************************)
(* Instances of the scheduler: up to four TCB slots, so that a ring can    *)
(* have a task before, at and behind the two ends of an edit, and a slot   *)
(* freed by one task can be reused by another.                             *)
(***************************************************************************)
EXTENDS SchedulerRoundRobin

CONSTANTS t1, t2, t3, t4

Slots3 == {t1, t2, t3}
Slots4 == {t1, t2, t3, t4}

BootTwo   == <<t1, t2>>
BootThree == <<t1, t2, t3>>

Nobody == {}
First  == {t1}
Others == {t2, t3}
=============================================================================
