-------------------------------- MODULE Start --------------------------------
(***************************************************************************)
(* From reset to the first tasks: main() creates tasks with the tick       *)
(* already running, Scheduler::start() turns main's thread into the first  *)
(* task, and PendSV switches. Here stack pointers are values: the stack    *)
(* they point into and how many words of it are in use above them.         *)
(*                                                                         *)
(* An exception taken in thread mode pushes 8 words on the stack CONTROL   *)
(* selects and pops them on return; the handler saves 8 more on PSP.       *)
(* createTask is one step, because a PendSV inside it spoils what one      *)
(* right before or after it does.                                          *)
(***************************************************************************)
EXTENDS Integers, Sequences

CONSTANTS
  Tasks, Order,  \* the tasks main creates, and the order it does
  MaxDepth,      \* bound on the words a running task has on its stack
  nullptr, Unknown

ASSUME OrderAssumption ==
  /\ Order \in Seq(Tasks) /\ Order # <<>>
  /\ \A i, j \in DOMAIN Order : Order[i] = Order[j] => i = j
ASSUME NullAssumption == nullptr \notin Tasks /\ Unknown \notin Tasks /\ MaxDepth \in Nat \ {0}

VARIABLES
  cur, next, sp,  \* Scheduler::cur and the fields of the TCBs
  psp, spsel,     \* PSP, and whether CONTROL selects it
  pendsv,
  created,        \* number of tasks created
  main,           \* how far main is
  me,             \* whose context the processor runs, once it is a task's
  inStart,        \* the first task still is inside start()
  need,           \* history: the words each task has in use when it runs
  struck          \* history: a switch came with tasks there and PSP not in use

vars == <<cur, next, sp, psp, spsel, pendsv, created, main, me, inStart, need, struck>>

Stack == [of : Tasks \union {Unknown, nullptr}, used : Int]
At(t, n)  == [of |-> t, used |-> n]
Push(p, n) == At(p.of, p.used + n)
PopOff(p, n) == At(p.of, p.used - n)

\* r4-r11, and the frame of an exception.
Saved == 8
Frame == 8

TypeOK ==
  /\ cur \in Tasks \union {nullptr} /\ next \in [Tasks -> Tasks]
  /\ sp \in [Tasks -> Stack] /\ psp \in Stack
  /\ spsel \in BOOLEAN /\ pendsv \in BOOLEAN /\ inStart \in BOOLEAN /\ struck \in BOOLEAN
  /\ created \in 0..Len(Order) /\ main \in {"create", "psp", "task"}
  /\ me \in Tasks \union {nullptr}
  /\ need \in [Tasks -> 0..(Saved + Frame + MaxDepth)]

Init ==
  /\ cur = nullptr /\ next = [t \in Tasks |-> t]
  /\ sp = [t \in Tasks |-> At(nullptr, 0)]
  /\ psp = At(Unknown, 0) /\ spsel = FALSE /\ pendsv = FALSE
  /\ created = 0 /\ main = "create" /\ me = nullptr /\ inStart = FALSE
  /\ need = [t \in Tasks |-> 0]
  /\ struck = FALSE

-----------------------------------------------------------------------------
SysTickHandler ==
  /\ ~pendsv /\ pendsv' = TRUE
  /\ UNCHANGED <<cur, next, sp, psp, spsel, created, main, me, inStart, need, struck>>

\* Variant: cur is not compared with nullptr, and the vector table is taken
\* for a TCB.
PendSvUnchecked ==
  /\ pendsv /\ cur = nullptr
  /\ pendsv' = FALSE /\ cur' = Unknown
  /\ UNCHANGED <<next, sp, psp, spsel, created, main, me, inStart, need, struck>>

\* Nothing to switch to before the first createTask.
PendSvNoTask ==
  /\ pendsv /\ cur = nullptr
  /\ pendsv' = FALSE
  /\ UNCHANGED <<cur, next, sp, psp, spsel, created, main, me, inStart, need, struck>>

\* Variant: r4-r11 are stored below the pointer that is then kept.
ContextAbove == Push(psp, IF spsel THEN Frame ELSE 0)

\* Where the handler leaves the old task's context.
Context == Push(psp, Saved + (IF spsel THEN Frame ELSE 0))

PendSvHandler ==
  /\ pendsv /\ cur # nullptr
  /\ pendsv' = FALSE
  /\ sp' = [sp EXCEPT ![cur] = Context]
  /\ cur' = next[cur]
  /\ psp' = PopOff(sp'[cur'], Saved + (IF spsel THEN Frame ELSE 0))
  /\ me' = IF me = nullptr THEN nullptr ELSE cur'
  /\ struck' = (struck \/ ~spsel)
  /\ UNCHANGED <<next, spsel, created, main, inStart, need>>

-----------------------------------------------------------------------------
(***************************************************************************)
(* main(): createTask for each task, then start().                         *)
(***************************************************************************)
CreateTask ==
  /\ ~pendsv /\ main = "create" /\ created < Len(Order)
  /\ LET t == Order[created + 1]
     IN  /\ sp' = [sp EXCEPT ![t] = At(t, Saved + Frame)]
         /\ IF cur = nullptr
            THEN cur' = t /\ next' = [next EXCEPT ![t] = t]
            ELSE next' = [next EXCEPT ![t] = next[cur], ![cur] = t] /\ UNCHANGED cur
  /\ created' = created + 1
  /\ UNCHANGED <<psp, spsel, pendsv, main, me, inStart, need, struck>>

StartLoadPsp ==
  /\ ~pendsv /\ main = "create" /\ created = Len(Order)
  /\ psp' = sp[cur]
  /\ main' = "psp"
  /\ UNCHANGED <<cur, next, sp, spsel, pendsv, created, me, inStart, need, struck>>

\* MSR CONTROL: from here on this thread is the task's.
StartControl ==
  /\ ~pendsv /\ main = "psp"
  /\ spsel' = TRUE
  /\ main' = "task" /\ me' = cur /\ inStart' = TRUE
  /\ need' = [need EXCEPT ![cur] = Saved + Frame]
  /\ UNCHANGED <<cur, next, sp, psp, pendsv, created, struck>>

\* The thread that went through start(): the first task created.
FirstTask == Order[1]

\* Everything up to PC is popped; xPSR stays on the stack.
StartPop ==
  /\ ~pendsv /\ inStart /\ me = FirstTask
  /\ psp' = PopOff(psp, Saved + Frame - 1)
  /\ need' = [need EXCEPT ![FirstTask] = 1]
  /\ inStart' = FALSE
  /\ UNCHANGED <<cur, next, sp, spsel, pendsv, created, main, me, struck>>

\* The running task calls and returns.
Run == \E n \in 0..MaxDepth :
  /\ ~pendsv /\ me # nullptr /\ ~(inStart /\ me = FirstTask)
  /\ need' = [need EXCEPT ![me] = n]
  /\ psp' = Push(psp, n - need[me])
  /\ UNCHANGED <<cur, next, sp, spsel, pendsv, created, main, me, inStart, struck>>

Next ==
  \/ SysTickHandler \/ PendSvNoTask \/ PendSvHandler
  \/ CreateTask \/ StartLoadPsp \/ StartControl \/ StartPop \/ Run

Spec == Init /\ [][Next]_vars

-----------------------------------------------------------------------------
\* Once tasks run, whatever they have on their stacks when switches come, the
\* running one is on its own stack at its own depth and every other one's
\* sp is at its own context: if no switch came between the first createTask
\* and the end of start().
OwnStack ==
  ~struck /\ me # nullptr =>
    /\ me = cur /\ psp = At(me, need[me])
    /\ \A i \in DOMAIN Order :
         Order[i] # me => sp[Order[i]] = At(Order[i], need[Order[i]] + Saved + Frame)

\* What scheduler.s says of start(), that it enters thread mode with PSP on a
\* stack createTask has set up, without that condition.
EntersTaskStack == main # "create" => psp.of \in Tasks
=============================================================================
