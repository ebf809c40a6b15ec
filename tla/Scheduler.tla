------------------------------ MODULE Scheduler ------------------------------
(***************************************************************************)
(* The preemptive scheduler once Scheduler::start() has launched the first *)
(* task: the ring of TCBs, the PendSV context switch, createTask and       *)
(* taskExit.                                                               *)
(*                                                                         *)
(* A task step is one access to memory that other tasks can reach, so      *)
(* SysTick and PendSV may come between any two of them, as on the device:  *)
(* neither createTask nor taskExit masks interrupts around its stores.     *)
(* The code names the running task through the global cur, and so do the   *)
(* actions: the task whose registers the CPU holds is running, a variable  *)
(* of its own, and that the two agree is a property.                       *)
(*                                                                         *)
(* Data is abstracted to pointers. A TCB with its stack is a heap slot; sp *)
(* of a TCB is nullptr or the context its stack holds, named by the slot   *)
(* whose task it belongs to.                                               *)
(***************************************************************************)
EXTENDS Naturals, Sequences, FiniteSets

CONSTANTS
  TCBs,       \* heap slots that hold a TCB and its stack
  Boot,       \* the slots main() fills, in the order of its createTask calls
  Creators,   \* slots whose task may call createTask
  Returning,  \* slots whose task's entry function may return
  nullptr

ASSUME BootAssumption ==
  /\ Boot \in Seq(TCBs) /\ Boot # <<>>
  /\ \A i, j \in DOMAIN Boot : Boot[i] = Boot[j] => i = j
ASSUME NullAssumption == nullptr \notin TCBs

VARIABLES
  cur,      \* Scheduler::cur
  sp,       \* TCB::sp: nullptr, or the context saved on that stack
  next,     \* TCB::next
  prev,     \* TCB::prev
  running,  \* the task whose registers the CPU holds
  pc,       \* what each slot's task does next
  reg,      \* pointers a task holds in registers between two accesses
  pendsv,   \* the PENDSVSET bit of ICSR
  fault,    \* "none", or why the hard fault handler was entered
  led,      \* PC13, which the hard fault handler blinks
  raced     \* history: a switch or an exit fell where the ring is half edited

vars == <<cur, sp, next, prev, running, pc, reg, pendsv, fault, led, raced>>

(***************************************************************************)
(* Control points. An "unused" or "spin" slot is free for malloc: a task   *)
(* at "spin" has given its own TCB back and only waits to be switched away *)
(* from. Fresh slots are built but not yet linked by the task creating     *)
(* them.                                                                   *)
(***************************************************************************)
Creating == {"loadNext", "linkPrev", "linkNext"}
Exiting  == {"unlinkNext", "unlinkPrev", "clearSp", "free"}
OnRing   == {"run", "unlinkNext"} \union Creating

PC == {"unused", "run", "spin"} \union Creating \union Exiting

Allocatable == {t \in TCBs : pc[t] \in {"unused", "spin"}}
Fresh       == {reg[u].tcb : u \in {v \in TCBs : pc[v] \in Creating}}
Linked      == {t \in TCBs : pc[t] \in OnRing} \ Fresh

(***************************************************************************)
(* The ring that main()'s createTask calls leave behind: the first task is *)
(* cur, and each later one was inserted right after it.                    *)
(***************************************************************************)
BootSet == {Boot[i] : i \in DOMAIN Boot}
BootNext(i) == IF i = 1 THEN Boot[Len(Boot)] ELSE Boot[i - 1]
BootPrev(i) == IF i = Len(Boot) THEN Boot[1] ELSE Boot[i + 1]
IndexOf(t)  == CHOOSE i \in DOMAIN Boot : Boot[i] = t

\* Registers whose values are dead hold the task's own TCB.
NoPointers(t) == [tcb |-> t, n |-> t, p |-> t]

Init ==
  /\ cur = Boot[1]
  /\ running = Boot[1]
  /\ sp = [t \in TCBs |-> IF t \in BootSet THEN t ELSE nullptr]
  /\ next = [t \in TCBs |-> IF t \in BootSet THEN BootNext(IndexOf(t)) ELSE t]
  /\ prev = [t \in TCBs |-> IF t \in BootSet THEN BootPrev(IndexOf(t)) ELSE t]
  /\ pc = [t \in TCBs |-> IF t \in BootSet THEN "run" ELSE "unused"]
  /\ reg = [t \in TCBs |-> NoPointers(t)]
  /\ pendsv = FALSE
  /\ fault = "none"
  /\ led = FALSE
  /\ raced = FALSE

-----------------------------------------------------------------------------
(***************************************************************************)
(* Exceptions. A pending PendSV is taken before the next step of the       *)
(* running task; a SysTick that finds PENDSVSET already set changes        *)
(* nothing here.                                                           *)
(***************************************************************************)
Step(t, from, to) ==
  /\ fault = "none"
  /\ ~pendsv
  /\ running = t
  /\ pc[t] = from
  /\ pc' = [pc EXCEPT ![t] = to]

\* Variant: the tick does not yield.
SysTickCountsOnly ==
  /\ fault = "none"
  /\ ~pendsv
  /\ UNCHANGED vars

\* sys_tick_handler: count the millisecond, then yield().
SysTickHandler ==
  /\ fault = "none"
  /\ ~pendsv
  /\ pendsv' = TRUE
  /\ UNCHANGED <<cur, sp, next, prev, running, pc, reg, fault, led, raced>>

(***************************************************************************)
(* pend_sv_handler: cur moves to its next; the old task's registers are    *)
(* saved on the stack PSP points to unless its sp is nullptr; registers    *)
(* and PSP are then loaded from the new cur's sp. Loading from nullptr     *)
(* returns into the vector table: a hard fault.                            *)
(***************************************************************************)
\* Variant: the store of the new cur comes before the save.
SavedSpInNewCur == IF sp[cur] = nullptr THEN sp ELSE [sp EXCEPT ![next[cur]] = running]

SavedSp == IF sp[cur] = nullptr THEN sp ELSE [sp EXCEPT ![cur] = running]

\* Variant: the ring is walked the other way round.
SwitchToPrev == prev[cur]

SwitchTo == next[cur]

PendSvHandler ==
  /\ fault = "none"
  /\ pendsv
  /\ pendsv' = FALSE
  /\ cur' = SwitchTo
  /\ sp' = SavedSp
  /\ \/ /\ SavedSp[SwitchTo] # nullptr
        /\ running' = SavedSp[SwitchTo]
        /\ UNCHANGED fault
     \/ /\ SavedSp[SwitchTo] = nullptr
        /\ fault' = "noContext"
        /\ UNCHANGED running
  /\ raced' = (raced \/ pc[running] \in Exiting)
  /\ UNCHANGED <<next, prev, pc, reg, led>>

\* hard_fault_handler: toggles PC13 for ever.
HardFaultHandler ==
  /\ fault # "none"
  /\ led' = ~led
  /\ UNCHANGED <<cur, sp, next, prev, running, pc, reg, pendsv, fault, raced>>

-----------------------------------------------------------------------------
\* Scheduler::yield(), by a task or by the endless loop that ends taskExit.
Yield(t) ==
  /\ \E at \in {"run", "spin"} : Step(t, at, at)
  /\ pendsv' = TRUE
  /\ UNCHANGED <<cur, sp, next, prev, running, reg, fault, led, raced>>

\* Variant: the new TCB points at itself, as the first one does.
NewNextCur == cur

\* tcb->next = cur->next
NewNext == next[cur]

(***************************************************************************)
(* createTask. MM::malloc runs with interrupts masked and the stores into  *)
(* the new TCB are private until it is linked, so everything up to and     *)
(* including tcb->next = cur->next is one step; the first store of cur's   *)
(* neighbours follows a load of its own. The result of malloc is not       *)
(* checked: the stores through a null TCB are undefined and end the run.   *)
(***************************************************************************)
CreateTask(t) ==
  /\ fault = "none" /\ ~pendsv
  /\ running = t /\ pc[t] = "run"
  /\ t \in Creators
  /\ \E tcb \in Allocatable :
       /\ pc' = [pc EXCEPT ![t] = "loadNext", ![tcb] = "run"]
       /\ sp' = [sp EXCEPT ![tcb] = tcb]
       /\ prev' = [prev EXCEPT ![tcb] = cur]
       /\ next' = [next EXCEPT ![tcb] = NewNext]
       /\ reg' = [reg EXCEPT ![t].tcb = tcb]
  /\ UNCHANGED <<cur, running, pendsv, fault, led, raced>>

CreateTaskNoMemory(t) ==
  /\ t \in Creators
  /\ Allocatable = {}
  /\ Step(t, "run", "run")
  /\ fault' = "oom"
  /\ UNCHANGED <<cur, sp, next, prev, running, reg, pendsv, led, raced>>

\* cur->next->prev = tcb: the load of cur->next, then the store.
LoadNext(t) ==
  /\ Step(t, "loadNext", "linkPrev")
  /\ reg' = [reg EXCEPT ![t].n = next[cur]]
  /\ UNCHANGED <<cur, sp, next, prev, running, pendsv, fault, led, raced>>

\* Variant: the store is missing.
LinkPrevForgotten(t) ==
  /\ Step(t, "linkPrev", "linkNext")
  /\ UNCHANGED <<cur, sp, next, prev, running, reg, pendsv, fault, led, raced>>

LinkPrev(t) ==
  /\ Step(t, "linkPrev", "linkNext")
  /\ prev' = [prev EXCEPT ![reg[t].n] = reg[t].tcb]
  /\ UNCHANGED <<cur, sp, next, running, reg, pendsv, fault, led, raced>>

\* cur->next = tcb, and createTask returns to its caller.
LinkNext(t) ==
  /\ Step(t, "linkNext", "run")
  /\ next' = [next EXCEPT ![cur] = reg[t].tcb]
  /\ reg' = [reg EXCEPT ![t] = NoPointers(t)]
  /\ UNCHANGED <<cur, sp, prev, running, pendsv, fault, led, raced>>

-----------------------------------------------------------------------------
(***************************************************************************)
(* taskExit, entered when the entry function returns. Each of lines 14 and *)
(* 15 loads both neighbours and then stores; the loads of line 14 are part *)
(* of the entering step.                                                   *)
(***************************************************************************)
TaskExit(t) ==
  /\ t \in Returning
  /\ Step(t, "run", "unlinkNext")
  /\ reg' = [reg EXCEPT ![t].p = prev[cur], ![t].n = next[cur]]
  /\ UNCHANGED <<cur, sp, next, prev, running, pendsv, fault, led, raced>>

\* A creator that has read t as its successor still holds or will store it.
BetweenCreatorAnd(t) ==
  \E u \in TCBs : pc[u] \in Creating /\ next[reg[u].tcb] = t

\* Variant: the store is missing.
UnlinkNextForgotten(t) ==
  /\ Step(t, "unlinkNext", "unlinkPrev")
  /\ raced' = (raced \/ BetweenCreatorAnd(t))
  /\ UNCHANGED <<cur, sp, next, prev, running, reg, pendsv, fault, led>>

\* cur->prev->next = cur->next, then the loads of line 15.
UnlinkNext(t) ==
  /\ Step(t, "unlinkNext", "unlinkPrev")
  /\ next' = [next EXCEPT ![reg[t].p] = reg[t].n]
  /\ reg' = [reg EXCEPT ![t].p = prev[cur], ![t].n = next'[cur]]
  /\ raced' = (raced \/ BetweenCreatorAnd(t))
  /\ UNCHANGED <<cur, sp, prev, running, pendsv, fault, led>>

\* cur->next->prev = cur->prev
UnlinkPrev(t) ==
  /\ Step(t, "unlinkPrev", "clearSp")
  /\ prev' = [prev EXCEPT ![reg[t].n] = reg[t].p]
  /\ reg' = [reg EXCEPT ![t] = NoPointers(t)]
  /\ UNCHANGED <<cur, sp, next, running, pendsv, fault, led, raced>>

\* Variant: the link is cleared instead of the context.
ClearNext(t) ==
  /\ Step(t, "clearSp", "free")
  /\ next' = [next EXCEPT ![cur] = nullptr]
  /\ UNCHANGED <<cur, sp, prev, running, reg, pendsv, fault, led, raced>>

\* cur->sp = nullptr: pend_sv_handler is not to save this context again.
ClearSp(t) ==
  /\ Step(t, "clearSp", "free")
  /\ sp' = [sp EXCEPT ![cur] = nullptr]
  /\ UNCHANGED <<cur, next, prev, running, reg, pendsv, fault, led, raced>>

\* MM::free(cur) changes the arena's header only: sp, next and prev stay.
Free(t) ==
  /\ Step(t, "free", "spin")
  /\ UNCHANGED <<cur, sp, next, prev, running, reg, pendsv, fault, led, raced>>

-----------------------------------------------------------------------------
TaskStep(t) ==
  \/ Yield(t)
  \/ CreateTask(t) \/ CreateTaskNoMemory(t)
  \/ LoadNext(t) \/ LinkPrev(t) \/ LinkNext(t)
  \/ TaskExit(t) \/ UnlinkNext(t) \/ UnlinkPrev(t) \/ ClearSp(t) \/ Free(t)

Next ==
  \/ SysTickHandler
  \/ PendSvHandler
  \/ HardFaultHandler
  \/ \E t \in TCBs : TaskStep(t)

(***************************************************************************)
(* The timer keeps ticking and a pending exception is taken; a task may    *)
(* stay in its own code for ever, so its steps are under no fairness.      *)
(***************************************************************************)
Fairness == WF_vars(SysTickHandler) /\ WF_vars(PendSvHandler)

Spec == Init /\ [][Next]_vars /\ Fairness

-----------------------------------------------------------------------------
TypeOK ==
  /\ cur \in TCBs /\ running \in TCBs
  /\ sp \in [TCBs -> TCBs \union {nullptr}]
  /\ next \in [TCBs -> TCBs] /\ prev \in [TCBs -> TCBs]
  /\ pc \in [TCBs -> PC]
  /\ reg \in [TCBs -> [tcb : TCBs, n : TCBs, p : TCBs]]
  /\ pendsv \in BOOLEAN /\ led \in BOOLEAN /\ raced \in BOOLEAN
  /\ fault \in {"none", "noContext", "oom"}

\* The context a TCB's sp leads to is always its own task's, whatever was
\* preempted where: saving and restoring through the shared cur never gives
\* one task's registers to another, and cur names the task that runs.
OwnContext ==
  /\ \A t \in TCBs : sp[t] \in {nullptr, t}
  /\ fault # "noContext" => cur = running

\* The TCB before n on the ring, stepping over one that createTask has
\* half inserted or taskExit has half removed.
Before(n) == IF prev[n] \in Linked THEN prev[n] ELSE prev[prev[n]]

\* Preemption between any two stores of createTask, and createTask calls of
\* several tasks at once, leave next and prev inverse to each other on the
\* tasks of the ring, as long as no exit fell into a half-done edit.
RingIntact ==
  ~raced => \A t \in Linked :
    /\ next[t] \in Linked /\ Before(next[t]) = t
    /\ Before(t) \in Linked /\ next[Before(t)] = t

\* The tasks of the ring are on one cycle: no proper part of them is closed
\* under next, which would leave the others unscheduled for ever.
OneCycle ==
  ~raced => \A S \in SUBSET Linked :
    S # {} /\ (\A t \in S : next[t] \in S) => S = Linked

\* Every task on the ring can be switched to, and only the memory of a task
\* whose context is gone for good is handed out again: the PendSV handler
\* never loads registers from nullptr before the last task has exited.
NoLostContext ==
  ~raced =>
    /\ \A t \in Linked : sp[t] = t
    /\ fault = "noContext" => Linked = {}

\* What scheduler.s says of the PendSV handler, that it restores the next
\* task, as long as there is one. The exit of the task behind a TCB that a
\* cut-off taskExit left half removed takes the wrong one off the ring.
RestoresNext == fault = "noContext" => Linked = {}

\* A task on the ring gets the processor again, or an exit raced.
Served ==
  \A t \in TCBs : t \in Linked ~> (running = t \/ raced \/ fault # "none")

=============================================================================
