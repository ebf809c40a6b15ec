----------------------------- MODULE RoundRobin ------------------------------
(***************************************************************************)
(* What the scheduler promises: the ready tasks form a queue, a switch     *)
(* runs the task at its head and sends the running one to its end, a       *)
(* created task comes next, and an exited task leaves the queue at once    *)
(* and the processor at the next switch.                                   *)
(***************************************************************************)
EXTENDS Sequences, Functions

CONSTANT Tasks

VARIABLES
  running,  \* the task on the processor
  ready,    \* the tasks waiting for it, in order
  gone      \* the running task has exited

vars == <<running, ready, gone>>

Init ==
  /\ running \in Tasks
  /\ ready \in Seq(Tasks)
  /\ gone = FALSE

Switch ==
  /\ ready # <<>>
  /\ running' = Head(ready)
  /\ ready' = IF gone THEN Tail(ready) ELSE Append(Tail(ready), running)
  /\ gone' = FALSE

Create(t) ==
  /\ ~gone
  /\ t \notin {running} \union Range(ready)
  /\ ready' = <<t>> \o ready
  /\ UNCHANGED <<running, gone>>

Exit ==
  /\ ~gone
  /\ gone' = TRUE
  /\ UNCHANGED <<running, ready>>

Next == Switch \/ Exit \/ \E t \in Tasks : Create(t)

\* Weak fairness of Switch, which can be taken exactly when a task waits.
Fairness == []<>(ready = <<>>) \/ []<><<Switch>>_vars

Spec == Init /\ [][Next]_vars /\ Fairness
=============================================================================
