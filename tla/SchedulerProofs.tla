--------------------------- MODULE SchedulerProofs ---------------------------
(***************************************************************************)
(* For any number of tasks: the ring stays intact and in one cycle, every  *)
(* context is its own task's, the handler restores one as long as a task   *)
(* is left, and every step is one of the round-robin queue, until an exit  *)
(* races with an edit of the ring.                                         *)
(***************************************************************************)
EXTENDS SchedulerRoundRobin, FiniteSetTheorems, WellFoundedInduction, TLAPS

(***************************************************************************)
(* The inductive invariant, besides TypeOK and OwnContext, up to a race:   *)
(* what holds at each control point of an edit.                            *)
(***************************************************************************)
\* A task between the steps of createTask: its new TCB knows both
\* neighbours, its successor knows the new TCB from linkNext on, and no
\* other creator holds that TCB.
CreateInv ==
  \A u \in TCBs : pc[u] \in Creating =>
    /\ pc[reg[u].tcb] = "run" /\ reg[u].tcb # running
    /\ prev[reg[u].tcb] = u /\ next[reg[u].tcb] = next[u]
    /\ pc[u] = "linkPrev" => reg[u].n = next[u]
    /\ pc[u] = "linkNext" => prev[next[u]] = reg[u].tcb
    /\ \A v \in TCBs : pc[v] \in Creating /\ reg[v].tcb = reg[u].tcb => v = u

\* A task between the steps of taskExit: it is running, its registers agree
\* with its links, and at unlinkPrev only its successor still knows it.
ExitInv ==
  \A t \in TCBs : pc[t] \in Exiting =>
    /\ running = t
    /\ pc[t] \in {"unlinkNext", "unlinkPrev"} => reg[t].p = prev[t] /\ reg[t].n = next[t]
    /\ pc[t] = "unlinkPrev" /\ Linked # {} =>
         /\ prev[t] \in Linked
         /\ next[prev[t]] = next[t] /\ prev[next[t]] = t

\* A task that has left the ring still leads the handler to it.
GoneInv ==
  /\ pc[running] # "unused"
  /\ pc[running] \notin OnRing => next[running] \in Linked \/ Linked = {}

NextInv ==
  \A t \in Linked :
    /\ next[t] \in Linked
    /\ pc[t] # "linkNext" =>
         \/ prev[next[t]] = t
         \/ pc[prev[next[t]]] = "unlinkPrev" /\ prev[prev[next[t]]] = t

PrevInv ==
  \A n \in Linked :
    \/ prev[n] \in Linked /\ next[prev[n]] = n
    \/ prev[n] \in Fresh /\ pc[prev[prev[n]]] = "linkNext" /\ next[prev[prev[n]]] = n
    \/ pc[prev[n]] = "unlinkPrev" /\ next[prev[n]] = n

Cycle ==
  \A S \in SUBSET Linked : S # {} /\ (\A t \in S : next[t] \in S) => S = Linked

ContextInv ==
  /\ \A t \in TCBs : sp[t] = IF pc[t] \in {"unused", "free", "spin"} THEN nullptr ELSE t
  /\ fault = "noContext" => Linked = {}

RingInv == CreateInv /\ ExitInv /\ GoneInv /\ NextInv /\ PrevInv /\ Cycle /\ ContextInv

IInv == TypeOK /\ OwnContext /\ (~raced => RingInv)

-----------------------------------------------------------------------------
LEMMA InitType == Init => TypeOK
<1> SUFFICES ASSUME Init PROVE TypeOK
  OBVIOUS
<1>1. \A i \in DOMAIN Boot : Boot[i] \in TCBs
  BY BootAssumption
<1>2. 1 \in DOMAIN Boot /\ Len(Boot) \in DOMAIN Boot
  BY BootAssumption
<1>3. \A t \in BootSet : IndexOf(t) \in DOMAIN Boot
  BY DEF BootSet, IndexOf
<1>4. \A i \in DOMAIN Boot : BootNext(i) \in TCBs /\ BootPrev(i) \in TCBs
  <2> SUFFICES ASSUME NEW i \in DOMAIN Boot
               PROVE  BootNext(i) \in TCBs /\ BootPrev(i) \in TCBs
    OBVIOUS
  <2>1. i \in 1..Len(Boot) /\ Len(Boot) \in Nat
    BY BootAssumption
  <2>2. i # 1 => i - 1 \in DOMAIN Boot
    BY <2>1, BootAssumption
  <2>3. i # Len(Boot) => i + 1 \in DOMAIN Boot
    BY <2>1, BootAssumption
  <2> QED
    BY <1>1, <1>2, <2>2, <2>3 DEF BootNext, BootPrev
<1> QED
  BY <1>1, <1>2, <1>3, <1>4 DEF Init, TypeOK, NoPointers, PC

LEMMA NextType == TypeOK /\ [Next]_vars => TypeOK'
<1> SUFFICES ASSUME TypeOK, [Next]_vars PROVE TypeOK'
  OBVIOUS
<1> USE DEF TypeOK, PC, Creating, Exiting
<1>1. CASE UNCHANGED vars
  BY <1>1 DEF vars
<1>2. CASE SysTickHandler
  BY <1>2 DEF SysTickHandler
<1>3. CASE PendSvHandler
  <2>1. SavedSp \in [TCBs -> TCBs \union {nullptr}] /\ SwitchTo \in TCBs
    BY DEF SavedSp, SwitchTo
  <2>2. SavedSp[SwitchTo] # nullptr => SavedSp[SwitchTo] \in TCBs
    BY <2>1
  <2> QED
    BY <1>3, <2>1, <2>2 DEF PendSvHandler
<1>4. CASE HardFaultHandler
  BY <1>4 DEF HardFaultHandler
<1>5. ASSUME NEW t \in TCBs, TaskStep(t) PROVE TypeOK'
  <2>1. CASE Yield(t)
    BY <2>1 DEF Yield, Step
  <2>2. CASE CreateTask(t)
    BY <2>2 DEF CreateTask, Allocatable, NewNext
  <2>3. CASE CreateTaskNoMemory(t)
    BY <2>3 DEF CreateTaskNoMemory, Step
  <2>4. CASE LoadNext(t)
    BY <2>4 DEF LoadNext, Step
  <2>5. CASE LinkPrev(t)
    BY <2>5 DEF LinkPrev, Step
  <2>6. CASE LinkNext(t)
    BY <2>6 DEF LinkNext, Step, NoPointers
  <2>7. CASE TaskExit(t)
    BY <2>7 DEF TaskExit, Step
  <2>8. CASE UnlinkNext(t)
    BY <2>8 DEF UnlinkNext, Step, BetweenCreatorAnd
  <2>9. CASE UnlinkPrev(t)
    BY <2>9 DEF UnlinkPrev, Step, NoPointers
  <2>10. CASE ClearSp(t)
    BY <2>10 DEF ClearSp, Step
  <2>11. CASE Free(t)
    BY <2>11 DEF Free, Step
  <2> QED
    BY <1>5, <2>1, <2>2, <2>3, <2>4, <2>5, <2>6, <2>7, <2>8, <2>9, <2>10, <2>11 DEF TaskStep
<1> QED
  BY <1>1, <1>2, <1>3, <1>4, <1>5 DEF Next

\* Every variable keeps its type, with any number of slots, creators and
\* returning tasks.
THEOREM TypeCorrect == Spec => []TypeOK
  BY InitType, NextType, PTL DEF Spec

-----------------------------------------------------------------------------
LEMMA InitContext == Init => OwnContext
<1> SUFFICES ASSUME Init PROVE OwnContext
  OBVIOUS
<1> QED
  BY DEF Init, OwnContext

LEMMA SavedIsOwn ==
  ASSUME TypeOK, OwnContext, fault # "noContext"
  PROVE  SavedSp = sp
  BY DEF TypeOK, OwnContext, SavedSp

LEMMA NextContext == TypeOK /\ OwnContext /\ [Next]_vars => OwnContext'
<1> SUFFICES ASSUME TypeOK, OwnContext, [Next]_vars PROVE OwnContext'
  OBVIOUS
<1> USE DEF TypeOK, OwnContext
<1>1. CASE UNCHANGED vars
  BY <1>1 DEF vars
<1>2. CASE SysTickHandler
  BY <1>2 DEF SysTickHandler
<1>3. CASE PendSvHandler
  <2>1. fault = "none" /\ SavedSp = sp /\ SwitchTo \in TCBs
    BY <1>3, SavedIsOwn DEF PendSvHandler, SwitchTo
  <2> QED
    BY <1>3, <2>1 DEF PendSvHandler
<1>4. CASE HardFaultHandler
  BY <1>4 DEF HardFaultHandler
<1>5. ASSUME NEW t \in TCBs, TaskStep(t) PROVE OwnContext'
  <2>1. CASE CreateTask(t)
    BY <2>1 DEF CreateTask, Allocatable
  <2>2. CASE ClearSp(t)
    BY <2>2 DEF ClearSp, Step
  <2>3. CASE UNCHANGED <<sp, cur, running>> /\ (fault = "none" /\ fault' \in {"none", "oom"})
    BY <2>3
  <2> QED
    BY <1>5, <2>1, <2>2, <2>3
    DEF TaskStep, Step, Yield, CreateTaskNoMemory, LoadNext, LinkPrev, LinkNext,
        TaskExit, UnlinkNext, UnlinkPrev, Free
<1> QED
  BY <1>1, <1>2, <1>3, <1>4, <1>5 DEF Next

\* No switch gives one task the context of another, and cur names the task
\* that runs, whatever was preempted where and however exits raced.
THEOREM ContextsStayOwn == Spec => []OwnContext
<1>1. Init => TypeOK /\ OwnContext
  BY InitType, InitContext
<1>2. TypeOK /\ OwnContext /\ [Next]_vars => (TypeOK /\ OwnContext)'
  BY NextType, NextContext
<1> QED
  BY <1>1, <1>2, PTL DEF Spec

-----------------------------------------------------------------------------
\* The least-number principle, for a set instead of a predicate.
LEMMA LeastNat ==
  ASSUME NEW I \in SUBSET Nat, I # {}
  PROVE  \E m \in I : \A k \in I : m <= k
<1> DEFINE R == {p \in Nat \X Nat : p[1] < p[2]}
<1>1. IsWellFoundedOn(R, Nat)
  BY NatLessThanWellFounded, Zenon DEF OpToRel
<1>2. PICK m \in I : \A k \in I : <<k, m>> \notin R
  <2> HIDE DEF R
  <2> QED
    BY <1>1, WFMin, Zenon
<1>3. ASSUME NEW k \in I PROVE m <= k
  <2>1. <<k, m>> \in Nat \X Nat
    OBVIOUS
  <2>2. ~(k < m)
    BY <1>2, <2>1, Zenon
  <2> QED
    BY <2>2
<1> QED
  BY <1>3

\* main()'s tasks are linked backwards, in one cycle.
LEMMA BootLinks ==
  ASSUME Init
  PROVE  /\ Len(Boot) \in Nat \ {0} /\ DOMAIN Boot = 1..Len(Boot)
         /\ \A i \in DOMAIN Boot :
              /\ next[Boot[i]] = Boot[IF i = 1 THEN Len(Boot) ELSE i - 1]
              /\ prev[Boot[i]] = Boot[IF i = Len(Boot) THEN 1 ELSE i + 1]
         /\ \A i, j \in DOMAIN Boot : Boot[i] = Boot[j] => i = j
         /\ BootSet \subseteq TCBs /\ Fresh = {} /\ Linked = BootSet
<1>1. Boot \in Seq(TCBs) /\ Boot # <<>>
  BY BootAssumption
<1>2. \A i, j \in DOMAIN Boot : Boot[i] = Boot[j] => i = j
  BY BootAssumption
<1>3. Len(Boot) \in Nat \ {0} /\ DOMAIN Boot = 1..Len(Boot)
  BY <1>1
<1>4. \A i \in DOMAIN Boot : Boot[i] \in TCBs
  BY <1>1
<1>5. BootSet \subseteq TCBs
  BY <1>4 DEF BootSet
<1>6. \A i \in DOMAIN Boot : Boot[i] \in BootSet /\ IndexOf(Boot[i]) = i
  BY <1>2 DEF BootSet, IndexOf
<1>7. \A i \in DOMAIN Boot : next[Boot[i]] = BootNext(i) /\ prev[Boot[i]] = BootPrev(i)
  BY <1>4, <1>6 DEF Init
<1>8. \A t \in TCBs : pc[t] = IF t \in BootSet THEN "run" ELSE "unused"
  BY DEF Init
<1>9. Fresh = {}
  BY <1>8 DEF Fresh, Creating
<1>10. Linked = BootSet
  BY <1>5, <1>8, <1>9 DEF Linked, OnRing, Creating
<1> QED
  BY <1>2, <1>3, <1>5, <1>7, <1>9, <1>10 DEF BootNext, BootPrev

LEMMA InitCycle == Init => Cycle
<1> SUFFICES ASSUME Init, NEW S \in SUBSET Linked, S # {},
                    \A t \in S : next[t] \in S
             PROVE  S = Linked
  BY DEF Cycle
<1> DEFINE N == Len(Boot)
           I == {i \in 1..N : Boot[i] \in S}
           J == {k \in 0..(N - 1) : Boot[N - k] \notin S}
<1>1. N \in Nat \ {0} /\ DOMAIN Boot = 1..N
  BY BootLinks
<1>2. \A i \in 1..N : next[Boot[i]] = Boot[IF i = 1 THEN N ELSE i - 1]
  BY BootLinks
<1>3. S \subseteq BootSet /\ Linked = BootSet
  BY BootLinks
<1> HIDE DEF N
<1>4. I \in SUBSET Nat /\ I # {}
  BY <1>1, <1>3 DEF BootSet
<1>5. PICK m \in I : \A i \in I : m <= i
  BY <1>4, LeastNat
<1>6. m = 1
  <2>1. ASSUME m # 1 PROVE FALSE
    <3>1. m - 1 \in 1..N /\ next[Boot[m]] = Boot[m - 1]
      BY <1>1, <1>2, <2>1
    <3>2. m - 1 \in I
      BY <3>1
    <3> QED
      BY <1>5, <3>1, <3>2, <1>4
  <2> QED
    BY <2>1
<1>7. Boot[N] \in S
  BY <1>1, <1>2, <1>6
<1>8. J = {}
  <2> SUFFICES ASSUME J # {} PROVE FALSE
    OBVIOUS
  <2>0. J \in SUBSET Nat
    BY <1>1
  <2>1. PICK k \in J : \A j \in J : k <= j
    BY <2>0, LeastNat
  <2>2. k \in 1..(N - 1)
    BY <1>1, <1>7
  <2>3. k - 1 \notin J
    BY <1>1, <2>1, <2>2
  <2>4. Boot[N - (k - 1)] \in S
    BY <1>1, <2>2, <2>3
  <2>5. next[Boot[N - (k - 1)]] = Boot[N - k]
    BY <1>1, <1>2, <2>2
  <2> QED
    BY <2>4, <2>5
<1>9. \A i \in 1..N : Boot[i] \in S
  <2> TAKE i \in 1..N
  <2>1. N - i \in 0..(N - 1) /\ N - (N - i) = i
    BY <1>1
  <2> QED
    BY <1>8, <2>1
<1> QED
  BY <1>1, <1>3, <1>9 DEF BootSet

LEMMA InitRing == Init => RingInv
<1> SUFFICES ASSUME Init PROVE RingInv
  OBVIOUS
<1> DEFINE N == Len(Boot)
<1>1. N \in Nat \ {0} /\ DOMAIN Boot = 1..N
  BY BootLinks
<1>2. \A i \in 1..N : /\ next[Boot[i]] = Boot[IF i = 1 THEN N ELSE i - 1]
                      /\ prev[Boot[i]] = Boot[IF i = N THEN 1 ELSE i + 1]
  BY BootLinks
<1>3. Linked = BootSet /\ BootSet \subseteq TCBs /\ Fresh = {}
  BY BootLinks
<1>4. \A t \in TCBs : pc[t] = IF t \in BootSet THEN "run" ELSE "unused"
  BY DEF Init
<1> HIDE DEF N
<1>5. \A i \in 1..N : /\ next[Boot[i]] \in BootSet /\ prev[next[Boot[i]]] = Boot[i]
                      /\ prev[Boot[i]] \in BootSet /\ next[prev[Boot[i]]] = Boot[i]
  <2> TAKE i \in 1..N
  <2>1. i = 1 => N \in 1..N
    BY <1>1
  <2>2. i # 1 => i - 1 \in 1..N /\ i - 1 # N /\ (i - 1) + 1 = i
    BY <1>1
  <2>3. i = N => 1 \in 1..N
    BY <1>1
  <2>4. i # N => i + 1 \in 1..N /\ i + 1 # 1 /\ (i + 1) - 1 = i
    BY <1>1
  <2> QED
    BY <1>1, <1>2, <2>1, <2>2, <2>3, <2>4 DEF BootSet
<1>6. \A t \in Linked : /\ next[t] \in Linked /\ prev[next[t]] = t
                        /\ prev[t] \in Linked /\ next[prev[t]] = t
  BY <1>1, <1>3, <1>5 DEF BootSet
<1>7. running \in BootSet /\ fault = "none"
  BY <1>1 DEF Init, BootSet
<1>8. CreateInv /\ ExitInv
  BY <1>3, <1>4 DEF CreateInv, ExitInv, Creating, Exiting
<1>9. GoneInv
  BY <1>3, <1>4, <1>7 DEF GoneInv, OnRing
<1>10. ContextInv
  BY <1>3, <1>4, <1>7 DEF ContextInv, Init
<1> QED
  BY <1>6, <1>8, <1>9, <1>10, InitCycle DEF RingInv, NextInv, PrevInv

-----------------------------------------------------------------------------
(***************************************************************************)
(* Membership in Linked and Fresh, before and after a step.                *)
(***************************************************************************)
LEMMA Membership ==
  /\ Linked \subseteq TCBs
  /\ \A t \in TCBs : t \in Linked <=>
       pc[t] \in OnRing /\ \A u \in TCBs : pc[u] \in Creating => reg[u].tcb # t
  /\ \A w : w \in Fresh <=> \E u \in TCBs : pc[u] \in Creating /\ reg[u].tcb = w
  BY DEF Linked, Fresh

LEMMA MembershipNext ==
  /\ Linked' \subseteq TCBs
  /\ \A t \in TCBs : t \in Linked' <=>
       pc'[t] \in OnRing /\ \A u \in TCBs : pc'[u] \in Creating => reg'[u].tcb # t
  /\ \A w : w \in Fresh' <=> \E u \in TCBs : pc'[u] \in Creating /\ reg'[u].tcb = w
  BY DEF Linked, Fresh

\* A task inside createTask or at its own code is on the ring, and while it
\* runs nobody is inside taskExit.
LEMMA RunningLinked ==
  ASSUME TypeOK, OwnContext, RingInv, fault = "none", pc[running] \in OnRing
  PROVE  /\ cur = running /\ running \in Linked
         /\ pc[running] # "unlinkNext" => \A t \in TCBs : pc[t] \notin Exiting
  BY Membership
  DEF TypeOK, OwnContext, RingInv, CreateInv, ExitInv, OnRing, Creating, Exiting

LEMMA CreatorsLinked ==
  ASSUME TypeOK, RingInv, NEW u \in TCBs, pc[u] \in Creating
  PROVE  u \in Linked /\ u # reg[u].tcb /\ reg[u].tcb \in TCBs
  BY Membership DEF TypeOK, RingInv, CreateInv, OnRing, Creating

\* A step that changes neither links nor control points, nor who runs.
LEMMA IdleRing ==
  ASSUME RingInv, UNCHANGED <<sp, next, prev, pc, reg, running>>,
         fault' = "noContext" => fault = "noContext"
  PROVE  RingInv'
<1>1. Linked' = Linked /\ Fresh' = Fresh
  BY DEF Linked, Fresh
<1> QED
  BY <1>1 DEF RingInv, CreateInv, ExitInv, GoneInv, NextInv, PrevInv, Cycle, ContextInv

LEMMA PendSvRing ==
  ASSUME TypeOK, OwnContext, RingInv, PendSvHandler, ~raced'
  PROVE  RingInv'
<1>1. /\ cur = running /\ SavedSp = sp /\ fault = "none"
      /\ UNCHANGED <<sp, next, prev, pc, reg>> /\ pc[running] \notin Exiting
      /\ SwitchTo = next[running]
      /\ \/ sp[next[running]] # nullptr /\ running' = sp[next[running]] /\ fault' = "none"
         \/ sp[next[running]] = nullptr /\ running' = running /\ fault' = "noContext"
  BY SavedIsOwn DEF PendSvHandler, SwitchTo, OwnContext
<1>2. Linked' = Linked /\ Fresh' = Fresh
  BY <1>1 DEF Linked, Fresh
<1>3. \A t \in TCBs : pc[t] \notin Exiting
  BY <1>1 DEF RingInv, ExitInv
<1>4. CASE next[running] \in Linked
  <2>1. next[running] \in TCBs /\ pc[next[running]] \in OnRing
    BY <1>4, Membership
  <2>2. running' = next[running] /\ fault' = "none"
    BY <1>1, <2>1, NullAssumption DEF RingInv, ContextInv, OnRing, Creating
  <2>3. CreateInv'
    BY <1>1, <1>4, <2>2, Membership DEF RingInv, CreateInv
  <2> QED
    BY <1>1, <1>2, <1>3, <2>1, <2>2, <2>3
    DEF RingInv, ExitInv, GoneInv, NextInv, PrevInv, Cycle, ContextInv, OnRing, Creating
<1>5. CASE next[running] \notin Linked
  <2>1. running \notin Linked /\ running \in TCBs /\ next[running] \in TCBs
    BY <1>5 DEF RingInv, NextInv, TypeOK
  <2>2. Linked = {}
    BY <1>1, <1>5, RunningLinked DEF RingInv, GoneInv, NextInv
  <2>3. \A u \in TCBs : pc[u] \notin Creating
    BY <2>2, CreatorsLinked
  <2>4. \A t \in TCBs : pc[t] \notin OnRing
    BY <2>2, <2>3, Membership
  <2>5. pc[next[running]] \in {"unused", "spin"}
    BY <1>3, <2>1, <2>4 DEF TypeOK, PC, OnRing
  <2>6. running' = running /\ fault' = "noContext"
    BY <1>1, <2>1, <2>5 DEF RingInv, ContextInv
  <2> QED
    BY <1>1, <1>2, <2>2, <2>6
    DEF RingInv, CreateInv, ExitInv, GoneInv, NextInv, PrevInv, Cycle, ContextInv
<1> QED
  BY <1>4, <1>5

-----------------------------------------------------------------------------
LEMMA CreateTaskSets ==
  ASSUME TypeOK, RingInv, OwnContext, NEW t \in TCBs, NEW w \in TCBs, w # t,
         running = t, fault = "none", pc[t] = "run", pc[w] \in {"unused", "spin"},
         pc' = [pc EXCEPT ![t] = "loadNext", ![w] = "run"],
         reg' = [reg EXCEPT ![t].tcb = w],
         next' = [next EXCEPT ![w] = next[t]]
  PROVE  /\ w \notin Linked /\ w \notin Fresh /\ t \in Linked
         /\ Linked' = Linked
         /\ \A x \in Linked : next'[x] = next[x]
<1>1. pc'[t] = "loadNext" /\ pc'[w] = "run" /\ \A u \in TCBs \ {t, w} : pc'[u] = pc[u]
  BY DEF TypeOK
<1>2. reg'[t].tcb = w /\ \A u \in TCBs \ {t} : reg'[u] = reg[u]
  BY DEF TypeOK
<1>3. /\ \A u \in TCBs : /\ pc'[u] \in Creating <=> u = t \/ pc[u] \in Creating
                         /\ u # w => (pc'[u] \in OnRing <=> pc[u] \in OnRing)
      /\ pc[t] \notin Creating
  BY <1>1 DEF OnRing, Creating
<1>4. w \notin Linked /\ w \notin Fresh /\ t \in Linked
  <2>1. w \notin Linked
    BY Membership DEF OnRing, Creating
  <2>2. w \notin Fresh
    BY Membership DEF RingInv, CreateInv
  <2> QED
    BY <2>1, <2>2, RunningLinked DEF OnRing
<1>5. \A u \in TCBs : u \in Linked' <=> u \in Linked
  <2> TAKE u \in TCBs
  <2>1. CASE u = w
    BY <1>2, <1>3, <1>4, <2>1, MembershipNext, Zenon
  <2>2. CASE u # w
    <3>1. (\A v \in TCBs : pc'[v] \in Creating => reg'[v].tcb # u)
           <=> (\A v \in TCBs : pc[v] \in Creating => reg[v].tcb # u)
      BY <1>2, <1>3, <2>2, Zenon
    <3> QED
      BY <1>3, <2>2, <3>1, Membership, MembershipNext
  <2> QED
    BY <2>1, <2>2
<1>6. Linked' = Linked
  BY <1>5, Membership, MembershipNext
<1>7. \A x \in Linked : next'[x] = next[x]
  BY <1>4, Membership DEF TypeOK
<1> QED
  BY <1>4, <1>6, <1>7

LEMMA CreateTaskRing ==
  ASSUME TypeOK, OwnContext, RingInv, NEW t \in TCBs, CreateTask(t)
  PROVE  RingInv'
<1>1. PICK w \in Allocatable :
        /\ pc' = [pc EXCEPT ![t] = "loadNext", ![w] = "run"]
        /\ sp' = [sp EXCEPT ![w] = w]
        /\ prev' = [prev EXCEPT ![w] = t]
        /\ next' = [next EXCEPT ![w] = next[t]]
        /\ reg' = [reg EXCEPT ![t].tcb = w]
  BY DEF CreateTask, OwnContext, NewNext
<1>2. running = t /\ running' = t /\ fault = "none" /\ fault' = "none" /\ pc[t] = "run"
  BY DEF CreateTask
<1>3. w \in TCBs /\ w # t /\ pc[w] \in {"unused", "spin"}
  BY <1>2 DEF Allocatable
<1>4. pc'[t] = "loadNext" /\ pc'[w] = "run" /\ \A u \in TCBs \ {t, w} : pc'[u] = pc[u]
  BY <1>1, <1>3 DEF TypeOK
<1>5. reg'[t].tcb = w /\ \A u \in TCBs \ {t} : reg'[u] = reg[u]
  BY <1>1 DEF TypeOK
<1>6. /\ prev'[w] = t /\ next'[w] = next[t] /\ sp'[w] = w
      /\ \A u \in TCBs \ {w} : prev'[u] = prev[u] /\ next'[u] = next[u] /\ sp'[u] = sp[u]
  BY <1>1, <1>3 DEF TypeOK
<1>7. w \notin Linked /\ w \notin Fresh /\ t \in Linked
  BY <1>1, <1>2, <1>3, CreateTaskSets
<1>8. Linked' = Linked /\ Fresh' = Fresh \union {w}
  <2>1. Linked' = Linked
    BY <1>1, <1>2, <1>3, CreateTaskSets
  <2>2. \A x : x \in Fresh' <=> x \in Fresh \/ x = w
    BY <1>2, <1>3, <1>4, <1>5, Membership, MembershipNext DEF Creating
  <2> QED
    BY <2>1, <2>2, Membership, MembershipNext
<1>9. \A x \in Linked : x \in TCBs /\ x # w /\ next'[x] = next[x] /\ prev'[x] = prev[x]
  BY <1>6, <1>7, Membership
<1>10. CreateInv'
  <2> SUFFICES ASSUME NEW u \in TCBs, pc'[u] \in Creating
               PROVE  /\ pc'[reg'[u].tcb] = "run" /\ reg'[u].tcb # running'
                      /\ prev'[reg'[u].tcb] = u /\ next'[reg'[u].tcb] = next'[u]
                      /\ pc'[u] = "linkPrev" => reg'[u].n = next'[u]
                      /\ pc'[u] = "linkNext" => prev'[next'[u]] = reg'[u].tcb
                      /\ \A v \in TCBs : pc'[v] \in Creating /\ reg'[v].tcb = reg'[u].tcb => v = u
    BY DEF CreateInv
  <2>1. CASE u = t
    <3>1. \A v \in TCBs : pc'[v] \in Creating /\ reg'[v].tcb = w => v = t
      BY <1>3, <1>4, <1>5, <1>7, Membership DEF Creating
    <3> QED
      BY <1>2, <1>3, <1>4, <1>5, <1>6, <2>1, <3>1
  <2>2. CASE u # t
    <3>1. u # w /\ pc[u] = pc'[u] /\ reg'[u] = reg[u]
      BY <1>4, <1>5, <2>2 DEF Creating
    <3>2. u \in Linked /\ reg[u].tcb \in TCBs /\ reg[u].tcb \in Fresh
      BY <3>1, CreatorsLinked, Membership
    <3>3. reg[u].tcb # w /\ reg[u].tcb # t
      BY <1>2, <1>7, <3>1, <3>2 DEF RingInv, CreateInv
    <3>4. next[u] \in Linked
      BY <3>2 DEF RingInv, NextInv
    <3>5. /\ pc[reg[u].tcb] = "run"
          /\ prev[reg[u].tcb] = u /\ next[reg[u].tcb] = next[u]
          /\ pc[u] = "linkPrev" => reg[u].n = next[u]
          /\ pc[u] = "linkNext" => prev[next[u]] = reg[u].tcb
          /\ \A v \in TCBs : pc[v] \in Creating /\ reg[v].tcb = reg[u].tcb => v = u
      BY <3>1 DEF RingInv, CreateInv
    <3>6. \A v \in TCBs : pc'[v] \in Creating /\ reg'[v].tcb = reg'[u].tcb => v = u
      BY <1>3, <1>4, <1>5, <3>1, <3>3, <3>5 DEF Creating
    <3> QED
      BY <1>2, <1>4, <1>6, <1>9, <3>1, <3>2, <3>3, <3>4, <3>5, <3>6
  <2> QED
    BY <2>1, <2>2
<1>11. \A x \in TCBs : pc'[x] \notin Exiting
  BY <1>2, <1>3, <1>4 DEF RingInv, ExitInv, Exiting
<1>12. NextInv'
  <2> SUFFICES ASSUME NEW x \in Linked
               PROVE  /\ next'[x] \in Linked
                      /\ pc'[x] # "linkNext" => prev'[next'[x]] = x
    BY <1>8 DEF NextInv
  <2>1. next[x] \in Linked /\ (pc[x] # "linkNext" => prev[next[x]] = x)
    <3>1. next[x] \in Linked /\ prev[next[x]] \in TCBs
      BY Membership DEF RingInv, NextInv, TypeOK
    <3>2. pc[prev[next[x]]] # "unlinkPrev"
      BY <1>2, <3>1, RunningLinked DEF OnRing, Exiting
    <3> QED
      BY <3>1, <3>2 DEF RingInv, NextInv
  <2> QED
    BY <1>2, <1>4, <1>9, <2>1
<1>13. PrevInv'
  <2> SUFFICES ASSUME NEW x \in Linked
               PROVE  \/ prev'[x] \in Linked /\ next'[prev'[x]] = x
                      \/ /\ prev'[x] \in Fresh' /\ pc'[prev'[prev'[x]]] = "linkNext"
                         /\ next'[prev'[prev'[x]]] = x
    BY <1>8 DEF PrevInv
  <2>1. prev[x] \in TCBs /\ pc[prev[x]] # "unlinkPrev"
    BY <1>2, <1>9, RunningLinked DEF TypeOK, OnRing, Exiting
  <2>2. CASE prev[x] \in Linked /\ next[prev[x]] = x
    BY <1>9, <2>2
  <2>3. CASE /\ prev[x] \in Fresh /\ pc[prev[prev[x]]] = "linkNext"
             /\ next[prev[prev[x]]] = x
    <3>1. prev[x] # w /\ prev[prev[x]] \in TCBs /\ prev[prev[x]] \notin {w, t}
      BY <1>2, <1>3, <1>7, <2>1, <2>3 DEF TypeOK
    <3> QED
      BY <1>4, <1>6, <1>8, <1>9, <2>1, <2>3, <3>1
  <2> QED
    BY <2>1, <2>2, <2>3 DEF RingInv, PrevInv
<1>14. Cycle'
  BY <1>8, <1>9 DEF RingInv, Cycle
<1>15. ContextInv'
  BY <1>2, <1>3, <1>4, <1>6 DEF RingInv, ContextInv
<1>16. GoneInv'
  BY <1>2, <1>4 DEF GoneInv, OnRing, Creating
<1> QED
  BY <1>10, <1>11, <1>12, <1>13, <1>14, <1>15, <1>16 DEF RingInv, ExitInv

\* A step of the running task that leaves links, contexts and everybody
\* else's control point and registers alone, and the set of creators too.
LEMMA OwnStepSets ==
  ASSUME TypeOK, NEW t \in TCBs, NEW to,
         pc' = [pc EXCEPT ![t] = to],
         pc[t] \in OnRing <=> to \in OnRing,
         pc[t] \in Creating <=> to \in Creating,
         \A u \in TCBs : pc[u] \in Creating => reg'[u].tcb = reg[u].tcb
  PROVE  Linked' = Linked /\ Fresh' = Fresh
<1>1. \A u \in TCBs : /\ pc'[u] \in OnRing <=> pc[u] \in OnRing
                      /\ pc'[u] \in Creating <=> pc[u] \in Creating
  BY DEF TypeOK
<1>2. \A u \in TCBs : u \in Linked' <=> u \in Linked
  BY <1>1, Membership, MembershipNext
<1>3. \A w : w \in Fresh' <=> w \in Fresh
  BY <1>1, Membership, MembershipNext
<1> QED
  BY <1>2, <1>3, Membership, MembershipNext

LEMMA LoadNextRing ==
  ASSUME TypeOK, OwnContext, RingInv, NEW t \in TCBs, LoadNext(t)
  PROVE  RingInv'
<1>1. /\ running = t /\ cur = t /\ pc[t] = "loadNext" /\ pc' = [pc EXCEPT ![t] = "linkPrev"]
      /\ reg' = [reg EXCEPT ![t].n = next[t]] /\ fault = "none"
      /\ UNCHANGED <<cur, sp, next, prev, running, fault>>
  BY DEF LoadNext, Step, OwnContext
<1>2. pc'[t] = "linkPrev" /\ \A u \in TCBs \ {t} : pc'[u] = pc[u] /\ reg'[u] = reg[u]
  BY <1>1 DEF TypeOK
<1>3. reg'[t].tcb = reg[t].tcb /\ reg'[t].n = next[t]
  BY <1>1 DEF TypeOK
<1>4. Linked' = Linked /\ Fresh' = Fresh
  BY <1>1, <1>2, <1>3, OwnStepSets, Zenon DEF OnRing, Creating
<1>5. t \in Linked /\ \A u \in TCBs : pc[u] \notin Exiting
  BY <1>1, RunningLinked DEF OnRing, Creating
<1>6. CreateInv'
  BY <1>1, <1>2, <1>3 DEF TypeOK, RingInv, CreateInv, Creating
<1>7. ExitInv'
  BY <1>2, <1>5 DEF ExitInv, Exiting
<1>8. GoneInv' /\ Cycle' /\ ContextInv'
  BY <1>1, <1>2, <1>4 DEF RingInv, GoneInv, Cycle, ContextInv, OnRing, Creating
<1>9. \A u \in TCBs : /\ pc'[u] = "unlinkPrev" <=> pc[u] = "unlinkPrev"
                      /\ pc'[u] = "linkNext" <=> pc[u] = "linkNext"
  BY <1>1, <1>2
<1>10. NextInv' /\ PrevInv'
  BY <1>1, <1>4, <1>9, Membership DEF RingInv, NextInv, PrevInv, TypeOK
<1> QED
  BY <1>6, <1>7, <1>8, <1>10 DEF RingInv

LEMMA LinkPrevRing ==
  ASSUME TypeOK, OwnContext, RingInv, NEW t \in TCBs, LinkPrev(t)
  PROVE  RingInv'
<1>1. /\ running = t /\ cur = t /\ pc[t] = "linkPrev" /\ pc' = [pc EXCEPT ![t] = "linkNext"]
      /\ prev' = [prev EXCEPT ![reg[t].n] = reg[t].tcb] /\ fault = "none"
      /\ UNCHANGED <<cur, sp, next, reg, running, fault>>
  BY DEF LinkPrev, Step, OwnContext
<1>2. pc'[t] = "linkNext" /\ \A u \in TCBs \ {t} : pc'[u] = pc[u]
  BY <1>1 DEF TypeOK
<1>3. Linked' = Linked /\ Fresh' = Fresh
  BY <1>1, OwnStepSets, Zenon DEF OnRing, Creating
<1>4. t \in Linked /\ \A u \in TCBs : pc[u] \notin Exiting
  BY <1>1, RunningLinked DEF OnRing, Creating
<1>5. reg[t].n = next[t] /\ next[t] \in Linked /\ next[t] \in TCBs
  BY <1>1, <1>4, Membership DEF RingInv, CreateInv, NextInv, Creating
<1>6. prev'[next[t]] = reg[t].tcb /\ \A u \in TCBs \ {next[t]} : prev'[u] = prev[u]
  BY <1>1, <1>5 DEF TypeOK
<1>7. \A x \in Linked : x # t => next[x] # next[t]
  <2> SUFFICES ASSUME NEW x \in Linked, x # t, next[x] = next[t] PROVE FALSE
    OBVIOUS
  <2>1. prev[next[t]] = t
    BY <1>1, <1>4, <1>5 DEF RingInv, NextInv, TypeOK, Exiting
  <2>2. pc[x] = "linkNext"
    BY <1>4, <2>1, Membership DEF RingInv, NextInv, TypeOK, Exiting
  <2>3. x \in TCBs /\ prev[next[x]] = reg[x].tcb /\ reg[x].tcb # running
    BY <2>2, Membership DEF RingInv, CreateInv, Creating
  <2> QED
    BY <1>1, <2>1, <2>3
<1>8. \A w \in Fresh : w \notin Linked
  BY Membership
<1>9. CreateInv'
  <2> SUFFICES ASSUME NEW u \in TCBs, pc'[u] \in Creating
               PROVE  /\ pc'[reg[u].tcb] = "run" /\ reg[u].tcb # running
                      /\ prev'[reg[u].tcb] = u /\ next[reg[u].tcb] = next[u]
                      /\ pc'[u] = "linkPrev" => reg[u].n = next[u]
                      /\ pc'[u] = "linkNext" => prev'[next[u]] = reg[u].tcb
                      /\ \A v \in TCBs : pc'[v] \in Creating /\ reg[v].tcb = reg[u].tcb => v = u
    BY <1>1 DEF CreateInv
  <2>1. \A v \in TCBs : pc'[v] \in Creating <=> pc[v] \in Creating
    BY <1>1, <1>2 DEF Creating
  <2>2. u \in Linked /\ reg[u].tcb \in Fresh /\ reg[u].tcb \in TCBs
    BY <2>1, CreatorsLinked, Membership
  <2>3. reg[u].tcb # next[t] /\ reg[u].tcb # t
    BY <1>1, <1>5, <1>8, <2>1, <2>2 DEF RingInv, CreateInv
  <2>4. /\ pc[reg[u].tcb] = "run" /\ reg[u].tcb # running
        /\ prev[reg[u].tcb] = u /\ next[reg[u].tcb] = next[u]
        /\ pc[u] = "linkPrev" => reg[u].n = next[u]
        /\ pc[u] = "linkNext" => prev[next[u]] = reg[u].tcb
        /\ \A v \in TCBs : pc[v] \in Creating /\ reg[v].tcb = reg[u].tcb => v = u
    BY <2>1 DEF RingInv, CreateInv
  <2>5. pc'[u] = "linkNext" => prev'[next[u]] = reg[u].tcb
    BY <1>2, <1>6, <1>7, <2>2, <2>4 DEF TypeOK
  <2> QED
    BY <1>2, <1>6, <2>1, <2>2, <2>3, <2>4, <2>5
<1>10. ExitInv'
  BY <1>2, <1>4 DEF ExitInv, Exiting
<1>11. GoneInv' /\ Cycle' /\ ContextInv'
  BY <1>1, <1>2, <1>3 DEF RingInv, GoneInv, Cycle, ContextInv, OnRing, Creating
<1>12. NextInv'
  <2> SUFFICES ASSUME NEW x \in Linked
               PROVE  next[x] \in Linked /\ (pc'[x] # "linkNext" => prev'[next[x]] = x)
    BY <1>1, <1>3 DEF NextInv
  <2>1. next[x] \in Linked /\ (pc[x] # "linkNext" => prev[next[x]] = x)
    BY <1>4, Membership DEF RingInv, NextInv, TypeOK, Exiting
  <2> QED
    BY <1>2, <1>6, <1>7, <2>1, Membership
<1>13. PrevInv'
  <2> SUFFICES ASSUME NEW x \in Linked
               PROVE  \/ prev'[x] \in Linked /\ next[prev'[x]] = x
                      \/ /\ prev'[x] \in Fresh /\ pc'[prev'[prev'[x]]] = "linkNext"
                         /\ next[prev'[prev'[x]]] = x
    BY <1>1, <1>3 DEF PrevInv
  <2>1. CASE x = next[t]
    <3>1. reg[t].tcb \in Fresh /\ reg[t].tcb # next[t] /\ prev[reg[t].tcb] = t /\ reg[t].tcb \in TCBs
      BY <1>1, <1>5, <1>8, Membership, CreatorsLinked DEF RingInv, CreateInv, Creating
    <3> QED
      BY <1>2, <1>6, <2>1, <3>1
  <2>2. CASE x # next[t]
    <3>1. prev'[x] = prev[x] /\ prev[x] \in TCBs /\ pc[prev[x]] # "unlinkPrev"
      BY <1>4, <1>6, <2>2, Membership DEF TypeOK, Exiting
    <3>2. CASE prev[x] \in Linked /\ next[prev[x]] = x
      BY <3>1, <3>2
    <3>3. CASE /\ prev[x] \in Fresh /\ pc[prev[prev[x]]] = "linkNext"
               /\ next[prev[prev[x]]] = x
      <4>1. prev[x] # next[t]
        BY <1>5, <1>8, <3>3
      <4> QED
        BY <1>1, <1>2, <1>6, <3>1, <3>3, <4>1 DEF TypeOK
    <3> QED
      BY <3>1, <3>2, <3>3 DEF RingInv, PrevInv
  <2> QED
    BY <2>1, <2>2
<1> QED
  BY <1>9, <1>10, <1>11, <1>12, <1>13 DEF RingInv

LEMMA LinkNextSets ==
  ASSUME TypeOK, OwnContext, RingInv, NEW t \in TCBs, LinkNext(t)
  PROVE  /\ running = t /\ cur = t /\ t \in Linked
         /\ reg[t].tcb \in TCBs \ Linked /\ reg[t].tcb # t
         /\ next[reg[t].tcb] = next[t] /\ next[t] \in Linked
         /\ Linked' = Linked \union {reg[t].tcb} /\ Fresh' = Fresh \ {reg[t].tcb}
<1> DEFINE w == reg[t].tcb
<1>1. /\ running = t /\ cur = t /\ pc[t] = "linkNext" /\ pc' = [pc EXCEPT ![t] = "run"]
      /\ reg' = [reg EXCEPT ![t] = NoPointers(t)] /\ fault = "none"
  BY DEF LinkNext, Step, OwnContext
<1>2. pc'[t] = "run" /\ \A u \in TCBs \ {t} : pc'[u] = pc[u] /\ reg'[u] = reg[u]
  BY <1>1 DEF TypeOK
<1>3. t \in Linked
  BY <1>1, RunningLinked DEF OnRing, Creating
<1>4. /\ w \in TCBs /\ w # t /\ pc[w] = "run" /\ next[w] = next[t]
      /\ \A v \in TCBs : pc[v] \in Creating /\ reg[v].tcb = w => v = t
  BY <1>1, CreatorsLinked DEF RingInv, CreateInv, Creating
<1>5. w \notin Linked /\ next[t] \in Linked
  BY <1>1, <1>3, <1>4, Membership DEF RingInv, NextInv, Creating
<1> HIDE DEF w
<1>6. \A u \in TCBs : pc'[u] \in Creating <=> pc[u] \in Creating /\ u # t
  BY <1>2 DEF Creating
<1>7. Linked' = Linked \union {w} /\ Fresh' = Fresh \ {w}
  <2>1. \A u \in TCBs : u \in Linked' <=> u \in Linked \/ u = w
    <3> TAKE u \in TCBs
    <3>1. CASE u = w
      BY <1>2, <1>4, <1>6, <3>1, MembershipNext DEF OnRing
    <3>2. CASE u # w
      <4>1. pc'[u] \in OnRing <=> pc[u] \in OnRing
        BY <1>1, <1>2 DEF OnRing, Creating
      <4>2. (\A v \in TCBs : pc'[v] \in Creating => reg'[v].tcb # u)
             <=> (\A v \in TCBs : pc[v] \in Creating => reg[v].tcb # u)
        BY <1>2, <1>6, <3>2 DEF w
      <4> QED
        BY <4>1, <4>2, <3>2, Membership, MembershipNext
    <3> QED
      BY <3>1, <3>2
  <2>2. \A x : x \in Fresh' <=> x \in Fresh /\ x # w
    BY <1>2, <1>4, <1>6, Membership, MembershipNext DEF w
  <2> QED
    BY <1>4, <2>1, <2>2, Membership, MembershipNext
<1> QED
  BY <1>1, <1>3, <1>4, <1>5, <1>7 DEF w

LEMMA LinkNextRing ==
  ASSUME TypeOK, OwnContext, RingInv, NEW t \in TCBs, LinkNext(t)
  PROVE  RingInv'
<1> DEFINE w == reg[t].tcb
           n == next[t]
<1>1. /\ running = t /\ cur = t /\ pc[t] = "linkNext" /\ pc' = [pc EXCEPT ![t] = "run"]
      /\ next' = [next EXCEPT ![t] = w] /\ reg' = [reg EXCEPT ![t] = NoPointers(t)]
      /\ fault = "none" /\ UNCHANGED <<cur, sp, prev, running, fault>>
  BY DEF LinkNext, Step, OwnContext
<1>2. pc'[t] = "run" /\ \A u \in TCBs \ {t} : pc'[u] = pc[u] /\ reg'[u] = reg[u]
  BY <1>1 DEF TypeOK
<1>3. t \in Linked /\ \A u \in TCBs : pc[u] \notin Exiting
  BY <1>1, RunningLinked DEF OnRing, Creating
<1>4. /\ w \in TCBs /\ w # t /\ pc[w] = "run" /\ prev[w] = t /\ next[w] = n /\ prev[n] = w
      /\ \A v \in TCBs : pc[v] \in Creating /\ reg[v].tcb = w => v = t
  BY <1>1, CreatorsLinked DEF RingInv, CreateInv, Creating
<1>5. w \in Fresh /\ w \notin Linked /\ n \in Linked /\ \A x \in Fresh : x \notin Linked
  BY <1>1, <1>3, <1>4, Membership DEF RingInv, NextInv, Creating
<1>6. next'[t] = w /\ \A x \in TCBs \ {t} : next'[x] = next[x]
  BY <1>1 DEF TypeOK
<1> HIDE DEF w, n
<1>7. \A u \in TCBs : pc'[u] \in Creating <=> pc[u] \in Creating /\ u # t
  BY <1>2 DEF Creating
<1>8. Linked' = Linked \union {w} /\ Fresh' = Fresh \ {w}
  BY LinkNextSets DEF w
<1>9. CreateInv'
  <2> SUFFICES ASSUME NEW u \in TCBs, pc[u] \in Creating, u # t
               PROVE  /\ pc'[reg[u].tcb] = "run" /\ reg[u].tcb # running
                      /\ prev[reg[u].tcb] = u /\ next'[reg[u].tcb] = next'[u]
                      /\ pc[u] = "linkPrev" => reg[u].n = next'[u]
                      /\ pc[u] = "linkNext" => prev[next'[u]] = reg[u].tcb
                      /\ \A v \in TCBs : pc[v] \in Creating /\ reg[v].tcb = reg[u].tcb => v = u
    BY <1>1, <1>2, <1>7 DEF CreateInv
  <2> QED
    BY <1>1, <1>2, <1>6, CreatorsLinked DEF RingInv, CreateInv
<1>10. ExitInv'
  BY <1>2, <1>3 DEF ExitInv, Exiting
<1>11. GoneInv'
  BY <1>1, <1>2 DEF GoneInv, OnRing
<1>12. ContextInv'
  BY <1>1, <1>2 DEF RingInv, ContextInv
<1>13. NextInv'
  <2> SUFFICES ASSUME NEW x \in Linked \union {w}
               PROVE  /\ next'[x] \in Linked \union {w}
                      /\ pc'[x] # "linkNext" => prev[next'[x]] = x
    BY <1>1, <1>8 DEF NextInv
  <2>1. CASE x = t
    BY <1>4, <1>6, <2>1
  <2>2. CASE x = w
    BY <1>4, <1>5, <1>6, <2>2
  <2>3. CASE x \in Linked /\ x # t
    BY <1>2, <1>3, <1>6, <2>3, Membership DEF RingInv, NextInv, TypeOK, Exiting
  <2> QED
    BY <2>1, <2>2, <2>3
<1>14. PrevInv'
  <2> SUFFICES ASSUME NEW x \in Linked \union {w}
               PROVE  \/ prev[x] \in Linked \union {w} /\ next'[prev[x]] = x
                      \/ /\ prev[x] \in Fresh \ {w} /\ pc'[prev[prev[x]]] = "linkNext"
                         /\ next'[prev[prev[x]]] = x
    BY <1>1, <1>8 DEF PrevInv
  <2>1. CASE x = w
    BY <1>3, <1>4, <1>6, <2>1
  <2>2. CASE x = n
    BY <1>4, <1>6, <2>2
  <2>3. CASE x \in Linked /\ x # n
    <3>1. prev[x] \in TCBs /\ pc[prev[x]] # "unlinkPrev"
      BY <1>3, <2>3, Membership DEF TypeOK, Exiting
    <3>2. CASE prev[x] \in Linked /\ next[prev[x]] = x
      BY <1>6, <2>3, <3>1, <3>2 DEF n
    <3>3. CASE /\ prev[x] \in Fresh /\ pc[prev[prev[x]]] = "linkNext"
               /\ next[prev[prev[x]]] = x
      BY <1>2, <1>4, <1>6, <2>3, <3>1, <3>3 DEF n, TypeOK
    <3> QED
      BY <2>3, <3>1, <3>2, <3>3 DEF RingInv, PrevInv
  <2> QED
    BY <2>1, <2>2, <2>3
<1>15. Cycle'
  <2> SUFFICES ASSUME NEW S \in SUBSET (Linked \union {w}), S # {},
                      \A x \in S : next'[x] \in S
               PROVE  S = Linked \union {w}
    BY <1>8 DEF Cycle
  <2>1. w \in S => n \in S
    BY <1>4, <1>6
  <2>2. t \in S => w \in S
    BY <1>6
  <2>3. \A x \in S \ {w} : next[x] \in S \ {w}
    <3> TAKE x \in S \ {w}
    <3>1. x \in Linked /\ x \in TCBs /\ next[x] \in Linked
      BY Membership DEF RingInv, NextInv
    <3> QED
      BY <1>5, <1>6, <2>1, <2>2, <3>1 DEF n
  <2>4. S \ {w} # {}
    BY <1>5, <2>1
  <2>5. S \ {w} = Linked
    <3>1. S \ {w} \in SUBSET Linked
      OBVIOUS
    <3> QED
      BY <2>3, <2>4, <3>1 DEF RingInv, Cycle
  <2> QED
    BY <1>3, <2>2, <2>5
<1> QED
  BY <1>9, <1>10, <1>11, <1>12, <1>13, <1>14, <1>15 DEF RingInv

LEMMA TaskExitRing ==
  ASSUME TypeOK, OwnContext, RingInv, NEW t \in TCBs, TaskExit(t)
  PROVE  RingInv'
<1>1. /\ running = t /\ cur = t /\ pc[t] = "run" /\ pc' = [pc EXCEPT ![t] = "unlinkNext"]
      /\ reg' = [reg EXCEPT ![t].p = prev[t], ![t].n = next[t]] /\ fault = "none"
      /\ UNCHANGED <<cur, sp, next, prev, running, fault>>
  BY DEF TaskExit, Step, OwnContext
<1>2. pc'[t] = "unlinkNext" /\ \A u \in TCBs \ {t} : pc'[u] = pc[u] /\ reg'[u] = reg[u]
  BY <1>1 DEF TypeOK
<1>3. reg'[t].p = prev[t] /\ reg'[t].n = next[t]
  BY <1>1 DEF TypeOK
<1>4. Linked' = Linked /\ Fresh' = Fresh
  BY <1>1, <1>2, OwnStepSets, Zenon DEF OnRing, Creating
<1>5. t \in Linked /\ \A u \in TCBs : pc[u] \notin Exiting
  BY <1>1, RunningLinked DEF OnRing
<1>6. CreateInv'
  BY <1>1, <1>2 DEF TypeOK, RingInv, CreateInv, Creating
<1>7. ExitInv'
  BY <1>1, <1>2, <1>3, <1>5 DEF ExitInv, Exiting
<1>8. GoneInv' /\ Cycle' /\ ContextInv'
  BY <1>1, <1>2, <1>4 DEF RingInv, GoneInv, Cycle, ContextInv, OnRing
<1>9. \A u \in TCBs : /\ pc'[u] = "unlinkPrev" <=> pc[u] = "unlinkPrev"
                      /\ pc'[u] = "linkNext" <=> pc[u] = "linkNext"
  BY <1>1, <1>2
<1>10. NextInv' /\ PrevInv'
  BY <1>1, <1>4, <1>9, Membership DEF RingInv, NextInv, PrevInv, TypeOK
<1> QED
  BY <1>6, <1>7, <1>8, <1>10 DEF RingInv

\* While a task exits, no other one does.
LEMMA ExitsAlone ==
  ASSUME RingInv, NEW t \in TCBs, running = t, NEW u \in TCBs, u # t
  PROVE  pc[u] \notin Exiting
  BY DEF RingInv, ExitInv

\* The links around a task about to take itself off the ring.
LEMMA Neighbours ==
  ASSUME TypeOK, OwnContext, RingInv, NEW t \in TCBs, running = t,
         fault = "none", pc[t] = "unlinkNext", ~BetweenCreatorAnd(t)
  PROVE  /\ t \in Linked
         /\ \A u \in TCBs : pc[u] \in Creating => next[u] # t
         /\ \A x \in Linked : next[x] = t => x = prev[t]
         /\ \/ prev[t] = t /\ next[t] = t /\ Linked = {t}
            \/ /\ prev[t] \in Linked \ {t} /\ next[t] \in Linked \ {t}
               /\ next[prev[t]] = t /\ prev[next[t]] = t
<1>1. t \in Linked /\ next[t] \in Linked
  BY RunningLinked DEF OnRing, RingInv, NextInv
<1>2. \A u \in TCBs : pc[u] \in Creating => next[u] # t
  BY DEF BetweenCreatorAnd, RingInv, CreateInv
<1>3. \A u \in TCBs : pc[u] # "unlinkPrev"
  BY ExitsAlone DEF Exiting
<1>4. prev[t] \in Linked /\ next[prev[t]] = t
  <2>1. ~(prev[t] \in Fresh /\ next[prev[prev[t]]] = t)
    <3> SUFFICES ASSUME prev[t] \in Fresh, next[prev[prev[t]]] = t PROVE FALSE
      OBVIOUS
    <3>1. PICK u \in TCBs : pc[u] \in Creating /\ reg[u].tcb = prev[t]
      BY Membership
    <3>2. prev[prev[t]] = u
      BY <3>1 DEF RingInv, CreateInv
    <3> QED
      BY <1>2, <3>1, <3>2
  <2> QED
    BY <1>1, <1>3, <2>1 DEF RingInv, PrevInv, TypeOK
<1>5. \A x \in Linked : next[x] = t => x = prev[t]
  BY <1>2, <1>3, Membership DEF RingInv, NextInv, TypeOK, Creating
<1>6. prev[next[t]] = t
  BY <1>1, <1>3 DEF RingInv, NextInv, TypeOK
<1>7. next[t] = t => Linked = {t}
  <2> SUFFICES ASSUME next[t] = t PROVE Linked = {t}
    OBVIOUS
  <2>1. {t} \in SUBSET Linked /\ \A x \in {t} : next[x] \in {t}
    BY <1>1
  <2> QED
    BY <2>1 DEF RingInv, Cycle
<1> QED
  BY <1>1, <1>2, <1>4, <1>5, <1>6, <1>7

LEMMA UnlinkNextSets ==
  ASSUME TypeOK, OwnContext, RingInv, NEW t \in TCBs, UnlinkNext(t), ~raced'
  PROVE  /\ running = t /\ cur = t /\ pc[t] = "unlinkNext" /\ pc'[t] = "unlinkPrev"
         /\ next' = [next EXCEPT ![prev[t]] = next[t]]
         /\ Linked' = Linked \ {t} /\ Fresh' = Fresh
<1>1. /\ running = t /\ cur = t /\ pc[t] = "unlinkNext" /\ pc' = [pc EXCEPT ![t] = "unlinkPrev"]
      /\ fault = "none"
  BY DEF UnlinkNext, Step, OwnContext
<1>2. reg[t].p = prev[t] /\ reg[t].n = next[t]
  BY <1>1 DEF RingInv, ExitInv, Exiting
<1>3. /\ next' = [next EXCEPT ![prev[t]] = next[t]]
      /\ reg' = [reg EXCEPT ![t].p = prev[t], ![t].n = next'[t]]
  BY <1>1, <1>2 DEF UnlinkNext
<1>4. pc'[t] = "unlinkPrev" /\ \A u \in TCBs \ {t} : pc'[u] = pc[u] /\ reg'[u] = reg[u]
  BY <1>1, <1>3 DEF TypeOK
<1>5. \A u \in TCBs : /\ pc'[u] \in Creating <=> pc[u] \in Creating
                      /\ pc'[u] \in OnRing <=> pc[u] \in OnRing /\ u # t
  BY <1>1, <1>4 DEF OnRing, Creating
<1>6. \A u \in TCBs : pc[u] \in Creating => u # t /\ reg'[u] = reg[u]
  BY <1>1, <1>4 DEF Creating
<1>7. Linked' = Linked \ {t} /\ Fresh' = Fresh
  <2>1. \A u \in TCBs : u \in Linked' <=> u \in Linked /\ u # t
    BY <1>5, <1>6, Membership, MembershipNext
  <2>2. \A x : x \in Fresh' <=> x \in Fresh
    BY <1>5, <1>6, Membership, MembershipNext
  <2> QED
    BY <2>1, <2>2, Membership, MembershipNext
<1> QED
  BY <1>1, <1>3, <1>4, <1>7

LEMMA UnlinkNextRing ==
  ASSUME TypeOK, OwnContext, RingInv, NEW t \in TCBs, UnlinkNext(t), ~raced'
  PROVE  RingInv'
<1> DEFINE p == prev[t]
           n == next[t]
<1>1. /\ running = t /\ cur = t /\ pc[t] = "unlinkNext" /\ pc' = [pc EXCEPT ![t] = "unlinkPrev"]
      /\ fault = "none" /\ UNCHANGED <<cur, sp, prev, running, fault>>
      /\ ~BetweenCreatorAnd(t)
  BY DEF UnlinkNext, Step, OwnContext
<1>2. reg[t].p = p /\ reg[t].n = n /\ p \in TCBs /\ n \in TCBs
  BY <1>1 DEF RingInv, ExitInv, Exiting, TypeOK
<1>3. /\ next' = [next EXCEPT ![p] = n]
      /\ reg' = [reg EXCEPT ![t].p = prev[t], ![t].n = next'[t]]
  BY <1>1, <1>2 DEF UnlinkNext
<1>4. pc'[t] = "unlinkPrev" /\ \A u \in TCBs \ {t} : pc'[u] = pc[u] /\ reg'[u] = reg[u]
  BY <1>1, <1>3 DEF TypeOK
<1>5. reg'[t].p = prev[t] /\ reg'[t].n = next'[t]
  BY <1>3 DEF TypeOK
<1>6. next'[p] = n /\ \A x \in TCBs \ {p} : next'[x] = next[x]
  BY <1>2, <1>3 DEF TypeOK
<1>7. /\ t \in Linked
      /\ \A u \in TCBs : pc[u] \in Creating => next[u] # t
      /\ \A x \in Linked : next[x] = t => x = p
      /\ \/ p = t /\ n = t /\ Linked = {t}
         \/ p \in Linked \ {t} /\ n \in Linked \ {t} /\ next[p] = t /\ prev[n] = t
  BY <1>1, Neighbours
<1> HIDE DEF p, n
<1>8. \A u \in TCBs : /\ pc'[u] \in Creating <=> pc[u] \in Creating
                      /\ pc'[u] \in OnRing <=> pc[u] \in OnRing /\ u # t
  BY <1>1, <1>4 DEF OnRing, Creating
<1>9. \A u \in TCBs : pc[u] \in Creating => u # t /\ reg'[u] = reg[u]
  BY <1>1, <1>4 DEF Creating
<1>10. Linked' = Linked \ {t} /\ Fresh' = Fresh
  BY UnlinkNextSets
<1>11. \A u \in TCBs \ {t} : pc[u] \notin Exiting
  BY <1>1, ExitsAlone
<1>12. ContextInv'
  BY <1>1, <1>4 DEF RingInv, ContextInv
<1>13. CASE Linked = {t}
  <2>1. \A u \in TCBs : pc'[u] \notin Creating
    BY <1>8, <1>9, <1>13, CreatorsLinked
  <2>2. ExitInv'
    BY <1>1, <1>4, <1>5, <1>10, <1>11, <1>13 DEF ExitInv
  <2> QED
    BY <1>1, <1>4, <1>10, <1>12, <1>13, <2>1, <2>2
    DEF RingInv, CreateInv, GoneInv, NextInv, PrevInv, Cycle
<1>14. CASE p \in Linked \ {t} /\ n \in Linked \ {t} /\ next[p] = t /\ prev[n] = t
  <2>1. next'[t] = n
    BY <1>6, <1>14 DEF n
  <2>2. pc[p] \notin Creating
    BY <1>2, <1>7, <1>14
  <2>3. \A x \in Linked' : x # p => next[x] \in Linked' /\ next'[x] = next[x]
    BY <1>6, <1>7, <1>10, Membership DEF RingInv, NextInv
  <2>4. CreateInv'
    <3> SUFFICES ASSUME NEW u \in TCBs, pc[u] \in Creating
                 PROVE  /\ pc'[reg[u].tcb] = "run" /\ reg[u].tcb # running
                        /\ prev[reg[u].tcb] = u /\ next'[reg[u].tcb] = next'[u]
                        /\ pc'[u] = "linkPrev" => reg[u].n = next'[u]
                        /\ pc'[u] = "linkNext" => prev[next'[u]] = reg[u].tcb
                        /\ \A v \in TCBs : pc[v] \in Creating /\ reg[v].tcb = reg[u].tcb => v = u
      BY <1>1, <1>8, <1>9 DEF CreateInv
    <3>1. reg[u].tcb \in TCBs /\ reg[u].tcb \notin Linked /\ u # t /\ u # p
      BY <1>9, <2>2, CreatorsLinked, Membership
    <3>2. reg[u].tcb # p /\ reg[u].tcb # t
      BY <1>7, <1>14, <3>1
    <3> QED
      BY <1>4, <1>6, <3>1, <3>2 DEF RingInv, CreateInv
  <2>5. ExitInv'
    BY <1>1, <1>4, <1>5, <1>6, <1>10, <1>11, <1>14, <2>1 DEF ExitInv, p
  <2>6. GoneInv'
    BY <1>1, <1>4, <1>10, <1>14, <2>1 DEF GoneInv
  <2>7. NextInv'
    <3> SUFFICES ASSUME NEW x \in Linked \ {t}
                 PROVE  /\ next'[x] \in Linked \ {t}
                        /\ pc'[x] # "linkNext" =>
                             \/ prev[next'[x]] = x
                             \/ pc'[prev[next'[x]]] = "unlinkPrev" /\ prev[prev[next'[x]]] = x
      BY <1>1, <1>10 DEF NextInv
    <3>1. CASE x = p
      BY <1>4, <1>6, <1>14, <3>1 DEF p
    <3>2. CASE x # p
      <4>1. next'[x] = next[x] /\ next[x] \in Linked \ {t} /\ pc'[x] = pc[x]
        BY <1>4, <1>10, <2>3, <3>2, Membership
      <4>2. pc[prev[next[x]]] # "unlinkPrev"
        BY <1>1, <1>11, <4>1, Membership DEF TypeOK, Exiting
      <4> QED
        BY <4>1, <4>2 DEF RingInv, NextInv
    <3> QED
      BY <3>1, <3>2
  <2>8. PrevInv'
    <3> SUFFICES ASSUME NEW x \in Linked \ {t}
                 PROVE  \/ prev[x] \in Linked \ {t} /\ next'[prev[x]] = x
                        \/ /\ prev[x] \in Fresh /\ pc'[prev[prev[x]]] = "linkNext"
                           /\ next'[prev[prev[x]]] = x
                        \/ pc'[prev[x]] = "unlinkPrev" /\ next'[prev[x]] = x
      BY <1>1, <1>10 DEF PrevInv
    <3>1. CASE x = n
      BY <1>4, <1>14, <2>1, <3>1
    <3>2. CASE x # n
      <4>1. prev[x] \in TCBs /\ pc[prev[x]] # "unlinkPrev"
        BY <1>1, <1>11, Membership DEF TypeOK, Exiting
      <4>2. CASE prev[x] \in Linked /\ next[prev[x]] = x
        BY <1>6, <1>14, <3>2, <4>1, <4>2 DEF n
      <4>3. CASE /\ prev[x] \in Fresh /\ pc[prev[prev[x]]] = "linkNext"
                 /\ next[prev[prev[x]]] = x
        <5>1. prev[prev[x]] \in TCBs /\ prev[prev[x]] # p /\ prev[prev[x]] # t
          BY <1>1, <1>14, <4>1, <4>3 DEF TypeOK
        <5> QED
          BY <1>4, <1>6, <4>3, <5>1
      <4> QED
        BY <4>1, <4>2, <4>3 DEF RingInv, PrevInv
    <3> QED
      BY <3>1, <3>2
  <2>9. Cycle'
    <3> SUFFICES ASSUME NEW S \in SUBSET (Linked \ {t}), S # {},
                        \A x \in S : next'[x] \in S
                 PROVE  S = Linked \ {t}
      BY <1>10 DEF Cycle
    <3>1. CASE p \in S
      <4>1. \A x \in S \union {t} : next[x] \in S \union {t}
        BY <1>2, <1>6, <1>14, <3>1, Membership DEF n
      <4>2. S \union {t} \in SUBSET Linked
        BY <1>7
      <4> QED
        BY <4>1, <4>2 DEF RingInv, Cycle
    <3>2. CASE p \notin S
      <4>1. \A x \in S : next[x] \in S
        BY <1>6, <3>2, Membership
      <4>2. S \in SUBSET Linked
        OBVIOUS
      <4>3. S = Linked
        BY <4>1, <4>2 DEF RingInv, Cycle
      <4> QED
        BY <1>7, <4>3
    <3> QED
      BY <3>1, <3>2
  <2> QED
    BY <1>12, <2>4, <2>5, <2>6, <2>7, <2>8, <2>9 DEF RingInv
<1> QED
  BY <1>7, <1>13, <1>14

LEMMA UnlinkPrevRing ==
  ASSUME TypeOK, OwnContext, RingInv, NEW t \in TCBs, UnlinkPrev(t)
  PROVE  RingInv'
<1> DEFINE p == prev[t]
           n == next[t]
<1>1. /\ running = t /\ cur = t /\ pc[t] = "unlinkPrev" /\ pc' = [pc EXCEPT ![t] = "clearSp"]
      /\ reg' = [reg EXCEPT ![t] = NoPointers(t)]
      /\ fault = "none" /\ UNCHANGED <<cur, sp, next, running, fault>>
  BY DEF UnlinkPrev, Step, OwnContext
<1>2. reg[t].p = p /\ reg[t].n = n /\ p \in TCBs /\ n \in TCBs
  BY <1>1 DEF RingInv, ExitInv, Exiting, TypeOK
<1>3. prev' = [prev EXCEPT ![n] = p]
  BY <1>2 DEF UnlinkPrev
<1>4. pc'[t] = "clearSp" /\ \A u \in TCBs \ {t} : pc'[u] = pc[u]
  BY <1>1 DEF TypeOK
<1>5. prev'[n] = p /\ \A x \in TCBs \ {n} : prev'[x] = prev[x]
  BY <1>2, <1>3 DEF TypeOK
<1>6. \A u \in TCBs : pc[u] \in Creating => u # t /\ reg'[u] = reg[u]
  BY <1>1 DEF TypeOK, Creating
<1>7. Linked' = Linked /\ Fresh' = Fresh
  BY <1>1, <1>6, OwnStepSets, Zenon DEF OnRing, Creating
<1>8. t \notin Linked
  BY <1>1, Membership DEF OnRing, Creating
<1>9. \A u \in TCBs \ {t} : pc[u] \notin Exiting
  BY <1>1, ExitsAlone
<1>10. Linked # {} => p \in Linked /\ n \in Linked /\ next[p] = n /\ prev[n] = t
  BY <1>1 DEF RingInv, ExitInv, GoneInv, Exiting, OnRing, Creating
<1> HIDE DEF p, n
<1>11. \A u \in TCBs : pc'[u] \in Creating <=> pc[u] \in Creating
  BY <1>1, <1>4 DEF Creating
<1>12. \A w \in Fresh : w \notin Linked
  BY Membership
\* Only the predecessor still reaches the successor of t.
<1>13. \A x \in Linked : next[x] = n => x = p /\ pc[x] # "linkNext"
  <2> SUFFICES ASSUME NEW x \in Linked, next[x] = n
               PROVE  x = p /\ pc[x] # "linkNext"
    OBVIOUS
  <2>1. prev[next[x]] = t /\ x \in TCBs /\ x # t
    BY <1>8, <1>10, Membership
  <2>2. pc[x] # "linkNext"
    BY <1>1, <2>1 DEF RingInv, CreateInv, Creating
  <2> QED
    BY <2>1, <2>2 DEF RingInv, NextInv, p
<1>14. CreateInv'
  <2> SUFFICES ASSUME NEW u \in TCBs, pc[u] \in Creating
               PROVE  /\ pc'[reg[u].tcb] = "run" /\ reg[u].tcb # running
                      /\ prev'[reg[u].tcb] = u /\ next[reg[u].tcb] = next[u]
                      /\ pc[u] = "linkPrev" => reg[u].n = next[u]
                      /\ pc[u] = "linkNext" => prev'[next[u]] = reg[u].tcb
                      /\ \A v \in TCBs : pc[v] \in Creating /\ reg[v].tcb = reg[u].tcb => v = u
    BY <1>1, <1>4, <1>6, <1>11 DEF CreateInv
  <2>1. u \in Linked /\ reg[u].tcb \in Fresh /\ reg[u].tcb \in TCBs /\ next[u] \in TCBs
    BY CreatorsLinked, Membership DEF TypeOK
  <2>2. reg[u].tcb # n /\ reg[u].tcb # t
    BY <1>1, <1>10, <1>12, <2>1 DEF RingInv, CreateInv
  <2>3. pc[u] = "linkNext" => next[u] # n
    BY <1>13, <2>1
  <2> QED
    BY <1>4, <1>5, <2>1, <2>2, <2>3 DEF RingInv, CreateInv
<1>15. ExitInv'
  BY <1>1, <1>4, <1>9 DEF ExitInv
<1>16. GoneInv' /\ Cycle' /\ ContextInv'
  BY <1>1, <1>4, <1>7 DEF RingInv, GoneInv, Cycle, ContextInv, OnRing, Creating
<1>17. NextInv'
  <2> SUFFICES ASSUME NEW x \in Linked
               PROVE  next[x] \in Linked /\ (pc'[x] # "linkNext" => prev'[next[x]] = x)
    BY <1>1, <1>7 DEF NextInv
  <2>1. x \in TCBs /\ x # t /\ pc'[x] = pc[x] /\ next[x] \in Linked /\ next[x] \in TCBs
    BY <1>4, <1>8, Membership DEF RingInv, NextInv
  <2>2. CASE next[x] = n
    BY <1>5, <1>13, <2>1, <2>2
  <2>3. CASE next[x] # n
    <3>1. prev'[next[x]] = prev[next[x]] /\ prev[next[x]] \in TCBs
      BY <1>5, <2>1, <2>3 DEF TypeOK
    <3>2. pc[prev[next[x]]] = "unlinkPrev" => prev[prev[next[x]]] = p
      BY <1>9, <3>1 DEF Exiting, p
    <3>3. x # p
      BY <1>10, <2>3
    <3> QED
      BY <2>1, <3>1, <3>2, <3>3 DEF RingInv, NextInv
  <2> QED
    BY <2>2, <2>3
<1>18. PrevInv'
  <2> SUFFICES ASSUME NEW x \in Linked
               PROVE  \/ prev'[x] \in Linked /\ next[prev'[x]] = x
                      \/ /\ prev'[x] \in Fresh /\ pc'[prev'[prev'[x]]] = "linkNext"
                         /\ next[prev'[prev'[x]]] = x
    BY <1>1, <1>7 DEF PrevInv
  <2>1. CASE x = n
    BY <1>5, <1>10, <2>1
  <2>2. CASE x # n
    <3>1. prev'[x] = prev[x] /\ prev[x] \in TCBs
      BY <1>5, <2>2, Membership DEF TypeOK
    <3>2. CASE prev[x] \in Linked /\ next[prev[x]] = x
      BY <3>1, <3>2
    <3>3. CASE /\ prev[x] \in Fresh /\ pc[prev[prev[x]]] = "linkNext"
               /\ next[prev[prev[x]]] = x
      <4>1. prev[x] # n /\ prev[prev[x]] # t /\ prev[prev[x]] \in TCBs
        BY <1>1, <1>10, <1>12, <3>1, <3>3 DEF TypeOK
      <4> QED
        BY <1>4, <1>5, <3>1, <3>3, <4>1
    <3>4. CASE pc[prev[x]] = "unlinkPrev" /\ next[prev[x]] = x
      <4>1. prev[x] = t
        BY <1>9, <3>1, <3>4 DEF Exiting
      <4> QED
        BY <2>2, <3>4, <4>1 DEF n
    <3> QED
      BY <3>2, <3>3, <3>4 DEF RingInv, PrevInv
  <2> QED
    BY <2>1, <2>2
<1> QED
  BY <1>14, <1>15, <1>16, <1>17, <1>18 DEF RingInv

\* The two last steps of taskExit touch nothing the ring depends on.
LEMMA LeaveRing ==
  ASSUME TypeOK, OwnContext, RingInv, NEW t \in TCBs, ClearSp(t) \/ Free(t)
  PROVE  RingInv'
<1>1. /\ running = t /\ cur = t /\ fault = "none"
      /\ \/ pc[t] = "clearSp" /\ pc' = [pc EXCEPT ![t] = "free"] /\ sp' = [sp EXCEPT ![t] = nullptr]
         \/ pc[t] = "free" /\ pc' = [pc EXCEPT ![t] = "spin"] /\ sp' = sp
      /\ UNCHANGED <<cur, next, prev, reg, running, fault>>
  BY DEF ClearSp, Free, Step, OwnContext
<1>2. /\ \/ pc[t] = "clearSp" /\ pc'[t] = "free" /\ sp'[t] = nullptr
         \/ pc[t] = "free" /\ pc'[t] = "spin" /\ sp'[t] = sp[t]
      /\ \A u \in TCBs \ {t} : pc'[u] = pc[u] /\ sp'[u] = sp[u]
  BY <1>1 DEF TypeOK
<1>3. Linked' = Linked /\ Fresh' = Fresh
  BY <1>1, OwnStepSets DEF OnRing, Creating
<1>4. \A u \in TCBs \ {t} : pc[u] \notin Exiting
  BY <1>1, ExitsAlone
<1>5. \A u \in TCBs : /\ pc'[u] \in Creating <=> pc[u] \in Creating
                      /\ pc'[u] = "run" <=> pc[u] = "run"
                      /\ pc'[u] = "linkPrev" <=> pc[u] = "linkPrev"
                      /\ pc'[u] = "linkNext" <=> pc[u] = "linkNext"
                      /\ pc'[u] = "unlinkPrev" <=> pc[u] = "unlinkPrev"
  BY <1>2 DEF Creating
<1>6. CreateInv'
  BY <1>1, <1>5, CreatorsLinked DEF RingInv, CreateInv
<1>7. ExitInv'
  BY <1>1, <1>2, <1>4 DEF ExitInv
<1>8. GoneInv'
  BY <1>1, <1>2, <1>3 DEF RingInv, GoneInv, OnRing, Creating
<1>9. NextInv' /\ PrevInv'
  BY <1>1, <1>3, <1>5, Membership DEF RingInv, NextInv, PrevInv, TypeOK
<1>10. Cycle'
  BY <1>1, <1>3 DEF RingInv, Cycle
<1>11. ContextInv'
  BY <1>1, <1>2, <1>3 DEF RingInv, ContextInv
<1> QED
  BY <1>6, <1>7, <1>8, <1>9, <1>10, <1>11 DEF RingInv

-----------------------------------------------------------------------------
LEMMA InitInv == Init => IInv
  BY InitType, InitContext, InitRing DEF IInv

LEMMA NextIInv == IInv /\ [Next]_vars => IInv'
<1> SUFFICES ASSUME IInv, [Next]_vars PROVE IInv'
  OBVIOUS
<1>1. TypeOK /\ OwnContext /\ TypeOK' /\ OwnContext'
  BY NextType, NextContext DEF IInv
<1>2. SUFFICES ASSUME ~raced' PROVE RingInv'
  BY <1>1 DEF IInv
<1>3. RingInv
  BY <1>2 DEF IInv, Next, vars, SysTickHandler, PendSvHandler, HardFaultHandler, TaskStep,
    Yield, CreateTask, CreateTaskNoMemory, LoadNext, LinkPrev, LinkNext,
    TaskExit, UnlinkNext, UnlinkPrev, ClearSp, Free
<1>4. CASE UNCHANGED vars
  BY <1>3, <1>4, IdleRing DEF vars
<1>5. CASE SysTickHandler
  BY <1>3, <1>5, IdleRing DEF SysTickHandler
<1>6. CASE PendSvHandler
  BY <1>1, <1>2, <1>3, <1>6, PendSvRing
<1>7. CASE HardFaultHandler
  BY <1>3, <1>7, IdleRing DEF HardFaultHandler
<1>8. ASSUME NEW t \in TCBs, TaskStep(t) PROVE RingInv'
  <2>1. CASE Yield(t) \/ CreateTaskNoMemory(t)
    <3>1. pc' = pc
      BY <1>1, <2>1 DEF Yield, CreateTaskNoMemory, Step, TypeOK
    <3> QED
      BY <1>3, <2>1, <3>1, IdleRing DEF Yield, CreateTaskNoMemory
  <2>2. CASE CreateTask(t)
    BY <1>1, <1>3, <2>2, CreateTaskRing
  <2>3. CASE LoadNext(t)
    BY <1>1, <1>3, <2>3, LoadNextRing
  <2>4. CASE LinkPrev(t)
    BY <1>1, <1>3, <2>4, LinkPrevRing
  <2>5. CASE LinkNext(t)
    BY <1>1, <1>3, <2>5, LinkNextRing
  <2>6. CASE TaskExit(t)
    BY <1>1, <1>3, <2>6, TaskExitRing
  <2>7. CASE UnlinkNext(t)
    BY <1>1, <1>2, <1>3, <2>7, UnlinkNextRing
  <2>8. CASE UnlinkPrev(t)
    BY <1>1, <1>3, <2>8, UnlinkPrevRing
  <2>9. CASE ClearSp(t) \/ Free(t)
    BY <1>1, <1>3, <2>9, LeaveRing
  <2> QED
    BY <1>8, <2>1, <2>2, <2>3, <2>4, <2>5, <2>6, <2>7, <2>8, <2>9 DEF TaskStep
<1> QED
  BY <1>4, <1>5, <1>6, <1>7, <1>8 DEF Next

LEMMA InductiveInvariant == Spec => []IInv
  BY InitInv, NextIInv, PTL DEF Spec

\* Until an exit races with an edit, next and prev are inverse to each other
\* on the ring at every step of createTask and taskExit.
THEOREM RingStaysIntact == Spec => []RingIntact
<1>1. IInv => RingIntact
  <2> SUFFICES ASSUME IInv, ~raced, NEW t \in Linked
               PROVE  /\ next[t] \in Linked /\ Before(next[t]) = t
                      /\ Before(t) \in Linked /\ next[Before(t)] = t
    BY DEF RingIntact
  <2>1. TypeOK /\ RingInv /\ Linked \subseteq TCBs
    BY Membership DEF IInv
  <2>2. next[t] \in Linked
    BY <2>1 DEF RingInv, NextInv
  <2>3. \A x \in TCBs : pc[x] = "unlinkPrev" => x \notin Linked /\ x = running
    BY <2>1, Membership DEF RingInv, ExitInv, OnRing, Creating, Exiting
  <2>4. \A x \in Fresh : x \notin Linked /\ prev[x] \in Linked /\ next[prev[x]] = next[x]
    BY <2>1, Membership, CreatorsLinked DEF RingInv, CreateInv
  <2>5. Before(next[t]) = t
    <3>1. CASE pc[t] = "linkNext"
      BY <2>1, <2>4, <3>1, Membership DEF RingInv, CreateInv, Before, Creating
    <3>2. CASE prev[next[t]] = t
      BY <3>2 DEF Before
    <3>3. CASE pc[prev[next[t]]] = "unlinkPrev" /\ prev[prev[next[t]]] = t
      BY <2>1, <2>2, <2>3, <3>3 DEF TypeOK, Before
    <3> QED
      BY <2>1, <3>1, <3>2, <3>3 DEF RingInv, NextInv
  <2>6. Before(t) \in Linked /\ next[Before(t)] = t
    <3>1. CASE prev[t] \in Linked /\ next[prev[t]] = t
      BY <3>1 DEF Before
    <3>2. CASE prev[t] \in Fresh /\ next[prev[prev[t]]] = t
      BY <2>4, <3>2 DEF Before
    <3>3. CASE pc[prev[t]] = "unlinkPrev" /\ next[prev[t]] = t
      <4>1. prev[t] \in TCBs /\ prev[t] \notin Linked
        BY <2>1, <2>3, <3>3 DEF TypeOK
      <4>2. prev[prev[t]] \in Linked /\ next[prev[prev[t]]] = next[prev[t]]
        BY <2>1, <3>3, <4>1 DEF RingInv, ExitInv, Exiting
      <4> QED
        BY <3>3, <4>1, <4>2 DEF Before
    <3> QED
      BY <2>1, <3>1, <3>2, <3>3 DEF RingInv, PrevInv
  <2> QED
    BY <2>2, <2>5, <2>6
<1> QED
  BY <1>1, InductiveInvariant, PTL

\* Until an exit races with an edit, the ring is one cycle through all tasks.
THEOREM RingStaysOneCycle == Spec => []OneCycle
<1>1. IInv => OneCycle
  BY DEF IInv, RingInv, Cycle, OneCycle
<1> QED
  BY <1>1, InductiveInvariant, PTL

\* Until an exit races with an edit, every task on the ring has a context to
\* resume, and the handler faults only when the last task has exited.
THEOREM ContextsStayThere == Spec => []NoLostContext
<1>1. IInv => NoLostContext
  <2> SUFFICES ASSUME IInv, ~raced PROVE NoLostContext
    BY DEF NoLostContext
  <2>1. \A t \in Linked : t \in TCBs /\ pc[t] \in OnRing
    BY Membership
  <2> QED
    BY <2>1 DEF IInv, RingInv, ContextInv, NoLostContext, OnRing, Creating
<1> QED
  BY <1>1, InductiveInvariant, PTL

-----------------------------------------------------------------------------
(***************************************************************************)
(* The ready queue: what ReadFrom finds when the ring is followed.         *)
(***************************************************************************)
Slots == Cardinality(TCBs)

LEMMA SlotsIs == Slots \in Nat
  BY SlotsAssumption, FS_CardinalityType DEF Slots

IsWalk(f, n, c, m) == f = [i \in 1..m |-> IF i = 1 THEN n[c] ELSE n[f[i - 1]]]

\* There is a walk of any length.
LEMMA WalkExists ==
  ASSUME NEW n, NEW c, NEW m \in Nat
  PROVE  \E f : IsWalk(f, n, c, m)
<1> DEFINE Fails == {k \in Nat : \A f : ~IsWalk(f, n, c, k)}
<1>1. SUFFICES ASSUME Fails # {} PROVE FALSE
  <2>1. m \notin Fails
    BY <1>1
  <2> QED
    BY <2>1
<1>2. PICK k \in Fails : \A j \in Fails : k <= j
  <2>1. Fails \in SUBSET Nat
    OBVIOUS
  <2> HIDE DEF Fails
  <2> QED
    BY <1>1, <2>1, LeastNat
<1>3. k \in Nat /\ \A f : ~IsWalk(f, n, c, k)
  OBVIOUS
<1>4. k # 0
  <2>1. SUFFICES ASSUME k = 0 PROVE FALSE
    OBVIOUS
  <2>2. PICK f : f = [i \in 1..0 |-> i]
    OBVIOUS
  <2>3. IsWalk(f, n, c, 0)
    BY <2>2 DEF IsWalk
  <2> QED
    BY <1>3, <2>1, <2>3
<1>5. k - 1 \in Nat /\ k - 1 \notin Fails
  <2>1. k - 1 \in Nat /\ ~(k <= k - 1)
    BY <1>3, <1>4
  <2> HIDE DEF Fails
  <2> QED
    BY <1>2, <2>1
<1>6. PICK g : IsWalk(g, n, c, k - 1)
  BY <1>5
<1>7. PICK f : f = [i \in 1..k |-> IF i = 1 THEN n[c] ELSE n[g[i - 1]]]
  OBVIOUS
<1>8. \A i \in 1..k - 1 : f[i] = g[i]
  <2>1. \A i \in 1..k - 1 : i \in 1..k
    BY <1>3
  <2> QED
    BY <1>6, <1>7, <2>1 DEF IsWalk
<1>9. \A i \in 1..k : i # 1 => g[i - 1] = f[i - 1]
  <2>1. \A i \in 1..k : i # 1 => i - 1 \in 1..k - 1
    BY <1>3
  <2> QED
    BY <1>8, <2>1
<1>10. f = [i \in 1..k |-> IF i = 1 THEN n[c] ELSE n[f[i - 1]]]
  BY <1>7, <1>9
<1>11. IsWalk(f, n, c, k)
  BY <1>10 DEF IsWalk
<1> QED
  BY <1>3, <1>11

LEMMA AheadIs ==
  ASSUME NEW n, NEW c, NEW i \in 1..Slots
  PROVE  Ahead(n, c)[i] = IF i = 1 THEN n[c] ELSE n[Ahead(n, c)[i - 1]]
<1>1. PICK f : IsWalk(f, n, c, Slots)
  BY SlotsIs, WalkExists, Zenon
<1>2. PICK g : g = Ahead(n, c)
  OBVIOUS
<1>3. g = [j \in 1..Slots |-> IF j = 1 THEN n[c] ELSE n[g[j - 1]]]
  BY <1>1, <1>2 DEF Ahead, Slots, IsWalk
<1>4. g[i] = IF i = 1 THEN n[c] ELSE n[g[i - 1]]
  BY <1>3
<1> QED
  BY <1>2, <1>4

\* q leads from c through new TCBs to c or back into q.
Path(n, c, q) ==
  /\ q \in Seq(TCBs)
  /\ \A i, j \in 1..Len(q) : q[i] = q[j] => i = j
  /\ \A i \in 1..Len(q) : q[i] # c /\ q[i] = n[IF i = 1 THEN c ELSE q[i - 1]]
  /\ LET last == n[IF q = <<>> THEN c ELSE q[Len(q)]]
     IN  last = c \/ \E i \in 1..Len(q) : last = q[i]

LEMMA ReadFromIs ==
  ASSUME NEW n, NEW c, NEW q, Path(n, c, q)
  PROVE  ReadFrom(n, c) = q
<1> DEFINE L == Len(q)
<1>1. L \in Nat /\ q \in [1..L -> TCBs] /\ Slots \in Nat
  BY SlotsIs DEF Path
<1>2. PICK w : w = Ahead(n, c)
  OBVIOUS
<1>3. L <= Slots
  <2>1. q \in Injection(1..L, TCBs)
    BY <1>1 DEF Injection, IsInjective, Path
  <2>2. Cardinality(1..L) <= Cardinality(TCBs)
    BY <2>1, SlotsAssumption, FS_Injection
  <2>3. Cardinality(1..L) = L
    BY <1>1, FS_Interval
  <2> QED
    BY <2>2, <2>3 DEF Slots
<1>4. \A i \in 1..Slots : w[i] = IF i = 1 THEN n[c] ELSE n[w[i - 1]]
  BY <1>2, AheadIs
<1>5. \A i \in 1..L : w[i] = q[i]
  <2> DEFINE Bad == {i \in 1..L : w[i] # q[i]}
  <2>1. SUFFICES ASSUME Bad # {} PROVE FALSE
    OBVIOUS
  <2>2. Bad \in SUBSET Nat
    BY <1>1
  <2>3. PICK k \in Bad : \A j \in Bad : k <= j
    BY <2>1, <2>2, LeastNat
  <2>4. k \in 1..L /\ k \in 1..Slots /\ w[k] # q[k]
    BY <1>1, <1>3, <2>3
  <2>5. q[k] = n[IF k = 1 THEN c ELSE q[k - 1]]
    BY <2>4 DEF Path
  <2>6. k # 1 => w[k - 1] = q[k - 1]
    BY <1>1, <2>3, <2>4
  <2> QED
    BY <1>4, <2>4, <2>5, <2>6
<1>6. NewOnes(w, c) = 1..L
  <2>1. ASSUME NEW i \in 1..L PROVE i \in NewOnes(w, c)
    <3>1. i \in 1..Slots /\ \A j \in 1..i : j \in 1..L
      BY <1>1, <1>3
    <3>2. ASSUME NEW j \in 1..i PROVE w[j] # c /\ \A k \in 1..j - 1 : w[k] # w[j]
      <4>1. j \in 1..L /\ \A k \in 1..j - 1 : k \in 1..L /\ k # j
        BY <1>1, <3>1
      <4> QED
        BY <1>5, <4>1 DEF Path
    <3> QED
      BY <3>1, <3>2 DEF NewOnes, Slots
  <2>2. ASSUME NEW i \in NewOnes(w, c) PROVE i \in 1..L
    <3>1. SUFFICES ASSUME ~(i \in 1..L) PROVE FALSE
      OBVIOUS
    <3>2. i \in 1..Slots /\ \A j \in 1..i : w[j] # c /\ \A k \in 1..j - 1 : w[k] # w[j]
      BY DEF NewOnes, Slots
    <3>3. L + 1 \in 1..i /\ L + 1 \in 1..Slots
      BY <1>1, <3>1, <3>2
    <3>4. w[L + 1] = n[IF q = <<>> THEN c ELSE q[L]]
      <4>1. CASE L = 0
        <5>1. q = <<>>
          BY <4>1 DEF Path
        <5> QED
          BY <1>4, <3>3, <4>1, <5>1
      <4>2. CASE L # 0
        <5>1. q # <<>> /\ L \in 1..L /\ L + 1 # 1 /\ (L + 1) - 1 = L
          BY <1>1, <4>2
        <5> QED
          BY <1>4, <1>5, <3>3, <5>1
      <4> QED
        BY <4>1, <4>2
    <3>5. CASE w[L + 1] = c
      BY <3>2, <3>3, <3>5
    <3>6. CASE \E k \in 1..L : w[L + 1] = q[k]
      <4>1. PICK k \in 1..L : w[L + 1] = w[k]
        BY <1>5, <3>6
      <4>2. k \in 1..(L + 1) - 1
        BY <1>1
      <4> QED
        BY <3>2, <3>3, <4>1, <4>2
    <3> QED
      BY <3>4, <3>5, <3>6 DEF Path
  <2> QED
    BY <2>1, <2>2
<1>7. Cardinality(NewOnes(w, c)) = L
  BY <1>1, <1>6, FS_Interval
<1>8. ReadFrom(n, c) = [i \in 1..L |-> w[i]]
  BY <1>2, <1>7 DEF ReadFrom
<1>9. [i \in 1..L |-> w[i]] = [i \in 1..L |-> q[i]]
  BY <1>5
<1>10. q = [i \in 1..L |-> q[i]]
  BY <1>1
<1> QED
  BY <1>8, <1>9, <1>10, Zenon

-----------------------------------------------------------------------------
(***************************************************************************)
(* The ready queue is q: the tasks of the ring but cur, in the order of    *)
(* next from cur on, the last one leading back to cur or, once cur has     *)
(* taken itself off the ring, to the first.                                *)
(***************************************************************************)
Reads(q) ==
  /\ q \in Seq(TCBs)
  /\ \A i, j \in 1..Len(q) : q[i] = q[j] => i = j
  /\ \A i \in 1..Len(q) : q[i] \in Linked \ {cur} /\ q[i] = next[IF i = 1 THEN cur ELSE q[i - 1]]
  /\ \A t \in Linked : t = cur \/ \E i \in 1..Len(q) : t = q[i]
  /\ IF q = <<>> THEN next[cur] = cur ELSE next[q[Len(q)]] = IF Gone THEN q[1] ELSE cur

LEMMA ReadsReady == \A q : Reads(q) => Ready = q
<1> SUFFICES ASSUME NEW q, Reads(q) PROVE Ready = q
  OBVIOUS
<1>1. q # <<>> => 1 \in 1..Len(q)
  BY DEF Reads
<1>2. PICK n, c : n = next /\ c = cur
  OBVIOUS
<1>3. Path(n, c, q)
  BY <1>1, <1>2 DEF Reads, Path
<1> QED
  BY <1>2, <1>3, ReadFromIs DEF Ready

LEMMA ReadsReadyNext == \A q : Reads(q)' => Ready' = q
<1> SUFFICES ASSUME NEW q, Reads(q)' PROVE Ready' = q
  OBVIOUS
<1>1. q # <<>> => 1 \in 1..Len(q)
  BY DEF Reads
<1>2. PICK n, c : n = next' /\ c = cur'
  OBVIOUS
<1>3. Path(n, c, q)
  BY <1>1, <1>2 DEF Reads, Path
<1> QED
  BY <1>2, <1>3, ReadFromIs DEF Ready

LEMMA InitReads == Init => \E q : Reads(q)
<1> SUFFICES ASSUME Init PROVE \E q : Reads(q)
  OBVIOUS
<1> DEFINE N == Len(Boot)
           q == [i \in 1..N - 1 |-> Boot[N + 1 - i]]
<1>1. N \in Nat \ {0} /\ DOMAIN Boot = 1..N
  BY BootLinks
<1>2. \A i \in 1..N : next[Boot[i]] = Boot[IF i = 1 THEN N ELSE i - 1]
  BY BootLinks
<1>3. \A i, j \in 1..N : Boot[i] = Boot[j] => i = j
  BY <1>1, BootLinks
<1>4. Linked = BootSet /\ BootSet \subseteq TCBs /\ cur = Boot[1]
  BY BootLinks DEF Init
<1>5. ~Gone
  BY <1>1, <1>4 DEF Gone, Init, BootSet
<1> HIDE DEF N
<1>6. \A i \in 1..N - 1 : N + 1 - i \in 2..N /\ N + 1 - i \in 1..N /\ Boot[N + 1 - i] \in BootSet
  BY <1>1 DEF BootSet
<1>7. q \in Seq(TCBs) /\ Len(q) = N - 1 /\ \A i \in 1..N - 1 : q[i] = Boot[N + 1 - i]
  BY <1>1, <1>4, <1>6
<1> HIDE DEF q
<1>8. \A i, j \in 1..Len(q) : q[i] = q[j] => i = j
  BY <1>1, <1>3, <1>6, <1>7
<1>9. ASSUME NEW i \in 1..Len(q)
      PROVE  q[i] \in Linked \ {cur} /\ q[i] = next[IF i = 1 THEN cur ELSE q[i - 1]]
  <2>1. q[i] \in Linked \ {cur}
    BY <1>1, <1>3, <1>4, <1>6, <1>7
  <2>2. CASE i = 1
    BY <1>1, <1>2, <1>4, <1>7, <2>1, <2>2
  <2>3. CASE i # 1
    <3>1. i - 1 \in 1..N - 1 /\ N + 1 - (i - 1) \in 2..N /\ (N + 1 - (i - 1)) - 1 = N + 1 - i
      BY <1>1, <1>7, <2>3
    <3>2. q[i - 1] = Boot[N + 1 - (i - 1)]
      BY <1>7, <3>1
    <3>3. next[q[i - 1]] = Boot[N + 1 - i]
      BY <1>2, <3>1, <3>2
    <3> QED
      BY <1>7, <2>1, <2>3, <3>3
  <2> QED
    BY <2>2, <2>3
<1>10. ASSUME NEW t \in Linked PROVE t = cur \/ \E i \in 1..Len(q) : t = q[i]
  <2>1. PICK k \in 1..N : t = Boot[k]
    BY <1>1, <1>4 DEF BootSet
  <2>2. k # 1 => N + 1 - k \in 1..N - 1 /\ N + 1 - (N + 1 - k) = k
    BY <1>1
  <2> QED
    BY <1>4, <1>7, <2>1, <2>2
<1>11. IF q = <<>> THEN next[cur] = cur ELSE next[q[Len(q)]] = cur
  <2>1. CASE N = 1
    <3>1. q = <<>>
      BY <1>7, <2>1
    <3> QED
      BY <1>1, <1>2, <1>4, <2>1, <3>1
  <2>2. CASE N # 1
    <3>1. N - 1 \in 1..N - 1 /\ N + 1 - (N - 1) = 2 /\ 2 \in 1..N
      BY <1>1, <2>2
    <3>2. q[Len(q)] = Boot[2] /\ q # <<>>
      BY <1>7, <3>1
    <3> QED
      BY <1>2, <1>4, <3>1, <3>2
  <2> QED
    BY <2>1, <2>2
<1>12. Reads(q)
  BY <1>5, <1>7, <1>8, <1>9, <1>10, <1>11 DEF Reads
<1> QED
  BY <1>12

-----------------------------------------------------------------------------
\* A step that leaves cur, the tasks of the ring and their links alone leaves
\* the queue alone.
LEMMA Keeps ==
  ASSUME NEW q, Reads(q), UNCHANGED <<cur, Gone, Linked>>,
         \A x \in Linked \union {cur} : next'[x] = next[x]
  PROVE  Reads(q)' /\ UNCHANGED RR!vars
<1>1. \A i \in 1..Len(q) : next'[q[i]] = next[q[i]]
  BY DEF Reads
<1>2. q # <<>> => Len(q) \in 1..Len(q)
  BY DEF Reads
<1>3. \A i \in 1..Len(q) : i # 1 => i - 1 \in 1..Len(q)
  BY DEF Reads
<1>4. Reads(q)'
  BY <1>1, <1>2, <1>3 DEF Reads
<1>5. Ready' = Ready
  BY <1>4, ReadsReady, ReadsReadyNext
<1> QED
  BY <1>4, <1>5 DEF RR!vars

LEMMA OwnStepKeeps ==
  ASSUME TypeOK, NEW q, Reads(q), NEW t \in TCBs, NEW to,
         running = t, pc' = [pc EXCEPT ![t] = to], UNCHANGED <<cur, next, running>>,
         pc[t] \in OnRing <=> to \in OnRing,
         pc[t] \in Creating <=> to \in Creating,
         pc[t] \in {"unlinkPrev", "clearSp", "free", "spin"}
           <=> to \in {"unlinkPrev", "clearSp", "free", "spin"},
         \A u \in TCBs : pc[u] \in Creating => reg'[u].tcb = reg[u].tcb
  PROVE  Reads(q)' /\ UNCHANGED RR!vars
<1>1. Linked' = Linked
  BY OwnStepSets, Zenon
<1>2. Gone' = Gone
  BY DEF TypeOK, Gone
<1> QED
  BY <1>1, <1>2, Keeps

\* Only LinkNext, UnlinkNext and CreateTask store into a next field.
LEMMA QuietStep ==
  ASSUME TypeOK, NEW t \in TCBs, NEW q, Reads(q),
         \/ Yield(t) \/ CreateTaskNoMemory(t) \/ LoadNext(t) \/ LinkPrev(t)
         \/ TaskExit(t) \/ UnlinkPrev(t) \/ ClearSp(t) \/ Free(t)
  PROVE  Reads(q)' /\ UNCHANGED RR!vars
<1> USE DEF Step, OnRing, Creating
<1>1. CASE Yield(t) \/ CreateTaskNoMemory(t)
  <2>1. /\ running = t /\ pc' = [pc EXCEPT ![t] = pc[t]]
        /\ UNCHANGED <<cur, next, running, reg>>
    BY <1>1 DEF Yield, CreateTaskNoMemory
  <2> QED
    BY <2>1, OwnStepKeeps
<1>2. CASE LoadNext(t)
  <2>1. \A u \in TCBs : reg'[u].tcb = reg[u].tcb
    BY <1>2 DEF LoadNext, TypeOK
  <2>2. /\ running = t /\ pc[t] = "loadNext" /\ pc' = [pc EXCEPT ![t] = "linkPrev"]
        /\ UNCHANGED <<cur, next, running>>
    BY <1>2 DEF LoadNext
  <2> QED
    BY <2>1, <2>2, OwnStepKeeps
<1>3. CASE LinkPrev(t)
  <2>1. /\ running = t /\ pc[t] = "linkPrev" /\ pc' = [pc EXCEPT ![t] = "linkNext"]
        /\ UNCHANGED <<cur, next, running, reg>>
    BY <1>3 DEF LinkPrev
  <2> QED
    BY <2>1, OwnStepKeeps
<1>4. CASE TaskExit(t)
  <2>1. \A u \in TCBs : reg'[u].tcb = reg[u].tcb
    BY <1>4 DEF TaskExit, TypeOK
  <2>2. /\ running = t /\ pc[t] = "run" /\ pc' = [pc EXCEPT ![t] = "unlinkNext"]
        /\ UNCHANGED <<cur, next, running>>
    BY <1>4 DEF TaskExit
  <2> QED
    BY <2>1, <2>2, OwnStepKeeps
<1>5. CASE UnlinkPrev(t)
  <2>1. \A u \in TCBs : pc[u] \in Creating => reg'[u] = reg[u]
    BY <1>5 DEF UnlinkPrev, TypeOK
  <2>2. /\ running = t /\ pc[t] = "unlinkPrev" /\ pc' = [pc EXCEPT ![t] = "clearSp"]
        /\ UNCHANGED <<cur, next, running>>
    BY <1>5 DEF UnlinkPrev
  <2> QED
    BY <2>1, <2>2, OwnStepKeeps
<1>6. CASE ClearSp(t)
  <2>1. /\ running = t /\ pc[t] = "clearSp" /\ pc' = [pc EXCEPT ![t] = "free"]
        /\ UNCHANGED <<cur, next, running, reg>>
    BY <1>6 DEF ClearSp
  <2> QED
    BY <2>1, OwnStepKeeps
<1>7. CASE Free(t)
  <2>1. /\ running = t /\ pc[t] = "free" /\ pc' = [pc EXCEPT ![t] = "spin"]
        /\ UNCHANGED <<cur, next, running, reg>>
    BY <1>7 DEF Free
  <2> QED
    BY <2>1, OwnStepKeeps
<1> QED
  BY <1>1, <1>2, <1>3, <1>4, <1>5, <1>6, <1>7

LEMMA CreateTaskKeeps ==
  ASSUME TypeOK, OwnContext, RingInv, NEW t \in TCBs, CreateTask(t), NEW q, Reads(q)
  PROVE  Reads(q)' /\ UNCHANGED RR!vars
<1>1. PICK w \in Allocatable :
        /\ pc' = [pc EXCEPT ![t] = "loadNext", ![w] = "run"]
        /\ next' = [next EXCEPT ![w] = next[t]]
        /\ reg' = [reg EXCEPT ![t].tcb = w]
  BY DEF CreateTask, OwnContext, NewNext
<1>2. running = t /\ running' = t /\ cur = t /\ cur' = cur /\ fault = "none" /\ pc[t] = "run"
  BY DEF CreateTask, OwnContext
<1>3. w \in TCBs /\ w # t /\ pc[w] \in {"unused", "spin"}
  BY <1>2 DEF Allocatable
<1>4. Linked' = Linked /\ \A x \in Linked : next'[x] = next[x]
  BY <1>1, <1>2, <1>3, CreateTaskSets
<1>5. next'[cur] = next[cur]
  BY <1>1, <1>2, <1>3 DEF TypeOK
<1>6. Gone' = Gone
  BY <1>1, <1>2, <1>3 DEF TypeOK, Gone
<1> QED
  BY <1>2, <1>4, <1>5, <1>6, Keeps

\* The store that ends createTask puts the new task at the head of the queue.
LEMMA LinkNextCreates ==
  ASSUME TypeOK, OwnContext, RingInv, NEW t \in TCBs, LinkNext(t), NEW q, Reads(q)
  PROVE  (\E r : Reads(r)') /\ RR!Next
<1> DEFINE L == Len(q)
<1>0. PICK w : w = reg[t].tcb
  OBVIOUS
<1>1. /\ cur = t /\ t \in Linked /\ w \in TCBs \ Linked /\ w # t /\ next[w] = next[t]
      /\ Linked \subseteq TCBs /\ Linked' = Linked \union {w}
  BY <1>0, LinkNextSets, Membership
<1>2. /\ pc[t] = "linkNext" /\ pc'[t] = "run" /\ running = t
      /\ UNCHANGED <<cur, running>> /\ next' = [next EXCEPT ![t] = w]
  BY <1>0, <1>1 DEF LinkNext, Step, TypeOK
<1>3. ~Gone /\ ~Gone'
  BY <1>2 DEF Gone
<1>4. next'[t] = w /\ \A x \in TCBs : x # t => next'[x] = next[x]
  BY <1>2 DEF TypeOK
<1>5. L \in Nat /\ q \in Seq(TCBs)
  BY DEF Reads
<1>6. \A i \in 1..L : q[i] \in Linked /\ q[i] # t /\ q[i] \in TCBs
  BY <1>1 DEF Reads
<1>7. PICK r : r = <<w>> \o q
  OBVIOUS
<1>8. /\ r \in Seq(TCBs) /\ Len(r) = L + 1 /\ r[1] = w
      /\ \A i \in 1..L : r[i + 1] = q[i]
      /\ \A i \in 2..(L + 1) : r[i] = q[i - 1]
  BY <1>1, <1>5, <1>7
<1>9. \A i, j \in 1..Len(r) : r[i] = r[j] => i = j
  <2> TAKE i, j \in 1..Len(r)
  <2>1. \A k \in 1..Len(r) : k = 1 \/ (k \in 2..(L + 1) /\ k - 1 \in 1..L)
    BY <1>5, <1>8
  <2>2. \A k \in 1..Len(r) : k # 1 => r[k] = q[k - 1] /\ r[k] \in Linked
    BY <1>6, <1>8, <2>1
  <2>3. CASE i = 1 \/ j = 1
    BY <1>1, <1>8, <2>2, <2>3
  <2>4. CASE i # 1 /\ j # 1
    <3>1. r[i] = r[j] => i - 1 = j - 1
      BY <2>1, <2>2, <2>4 DEF Reads
    <3> QED
      BY <1>5, <1>8, <3>1
  <2> QED
    BY <2>3, <2>4
<1>10. ASSUME NEW i \in 1..Len(r)
      PROVE  r[i] \in Linked' \ {cur'} /\ r[i] = next'[IF i = 1 THEN cur' ELSE r[i - 1]]
  <2>1. CASE i = 1
    BY <1>1, <1>2, <1>4, <1>8, <2>1
  <2>2. CASE i = 2
    <3>1. 1 \in 1..L /\ r[2] = q[1]
      BY <1>5, <1>8, <2>2
    <3>2. q[1] = next[t]
      BY <1>1, <3>1 DEF Reads
    <3>3. q[1] = next'[w]
      BY <1>1, <1>4, <3>2
    <3> QED
      BY <1>1, <1>2, <1>6, <1>8, <2>2, <3>1, <3>3
  <2>3. CASE i # 1 /\ i # 2
    <3>1. /\ i - 1 \in 1..L /\ i - 1 # 1 /\ (i - 1) - 1 \in 1..L
          /\ i - 1 \in 2..(L + 1) /\ i \in 2..(L + 1)
      BY <1>5, <1>8, <2>3
    <3>2. r[i] = q[i - 1] /\ r[i - 1] = q[(i - 1) - 1]
      BY <1>8, <3>1
    <3>3. q[i - 1] = next[q[(i - 1) - 1]]
      BY <3>1 DEF Reads
    <3>4. q[i - 1] = next'[q[(i - 1) - 1]]
      BY <1>4, <1>6, <3>1, <3>3
    <3> QED
      BY <1>1, <1>2, <1>6, <2>3, <3>1, <3>2, <3>4
  <2> QED
    BY <2>1, <2>2, <2>3
<1>11. ASSUME NEW x \in Linked' PROVE x = cur' \/ \E i \in 1..Len(r) : x = r[i]
  <2>1. CASE x = w
    BY <1>5, <1>8, <2>1
  <2>2. CASE x # w
    <3>1. x \in Linked
      BY <1>1, <2>2
    <3>2. x = cur \/ \E i \in 1..L : x = q[i]
      BY <3>1 DEF Reads
    <3>3. ASSUME NEW i \in 1..L, x = q[i] PROVE i + 1 \in 1..Len(r) /\ x = r[i + 1]
      BY <1>5, <1>8, <3>3
    <3> QED
      BY <1>2, <3>2, <3>3
  <2> QED
    BY <2>1, <2>2
<1>12. r # <<>> /\ next'[r[Len(r)]] = cur'
  <2>1. CASE L = 0
    <3>1. q = <<>>
      BY <1>5, <2>1
    <3>2. next[t] = t
      BY <1>1, <3>1 DEF Reads
    <3> QED
      BY <1>1, <1>2, <1>4, <1>8, <2>1, <3>2
  <2>2. CASE L # 0
    <3>1. q # <<>> /\ L \in 1..L /\ r[L + 1] = q[L]
      BY <1>5, <1>8, <2>2
    <3>2. next[q[L]] = cur
      BY <1>3, <3>1 DEF Reads
    <3> QED
      BY <1>2, <1>4, <1>6, <1>8, <3>1, <3>2
  <2> QED
    BY <1>5, <2>1, <2>2
<1>13. Reads(r)'
  BY <1>3, <1>8, <1>9, <1>10, <1>11, <1>12 DEF Reads
<1>14. Ready = q /\ Ready' = r
  BY <1>13, ReadsReady, ReadsReadyNext
<1>15. RR!Create(w)
  <2>1. w \notin {cur} \union RR!Range(q)
    BY <1>1, <1>5, <1>6 DEF RR!Range
  <2>2. Gone' = Gone
    BY <1>2 DEF Gone
  <2> QED
    BY <1>2, <1>3, <1>7, <1>14, <2>1, <2>2 DEF RR!Create
<1> QED
  BY <1>1, <1>13, <1>15 DEF RR!Next

\* The store that takes the exiting task out of the ring leaves those that
\* wait in their order.
LEMMA UnlinkNextExits ==
  ASSUME TypeOK, OwnContext, RingInv, NEW t \in TCBs, UnlinkNext(t), ~raced', NEW q, Reads(q)
  PROVE  Reads(q)' /\ RR!Next
<1> DEFINE p == prev[t]
           n == next[t]
           L == Len(q)
<1>1. /\ running = t /\ cur = t /\ pc[t] = "unlinkNext" /\ pc'[t] = "unlinkPrev"
      /\ UNCHANGED <<cur, running>>
      /\ p \in TCBs /\ next' = [next EXCEPT ![p] = n]
      /\ Linked' = Linked \ {t} /\ Linked \subseteq TCBs
  BY UnlinkNextSets, Membership DEF UnlinkNext, TypeOK
<1>2. next'[p] = n /\ \A x \in TCBs : x # p => next'[x] = next[x]
  BY <1>1 DEF TypeOK
<1>3. /\ \A x \in Linked : next[x] = t => x = p
      /\ \/ p = t /\ n = t /\ Linked = {t}
         \/ p \in Linked \ {t} /\ next[p] = t
  BY <1>1, Neighbours DEF UnlinkNext, Step
<1>4. ~Gone /\ Gone'
  BY <1>1 DEF Gone
<1>5. L \in Nat /\ q \in Seq(TCBs) /\ \A i \in 1..L : q[i] \in Linked \ {t} /\ q[i] \in TCBs
  BY <1>1 DEF Reads
<1>6. n = next[t]
  OBVIOUS
<1> HIDE DEF p, n
<1>7. ASSUME NEW i \in 1..L
      PROVE  q[i] \in Linked' \ {cur'} /\ q[i] = next'[IF i = 1 THEN cur' ELSE q[i - 1]]
  <2> DEFINE x == IF i = 1 THEN t ELSE q[i - 1]
  <2>1. q[i] = next[x] /\ x \in TCBs
    <3>1. i # 1 => i - 1 \in 1..L
      BY <1>5
    <3> QED
      BY <1>1, <1>5, <3>1 DEF Reads
  <2>2. x # p
    BY <1>3, <1>5, <2>1
  <2> QED
    BY <1>1, <1>2, <1>5, <2>1, <2>2
<1>8. ASSUME NEW x \in Linked' PROVE x = cur' \/ \E i \in 1..L : x = q[i]
  BY <1>1 DEF Reads
<1>9. IF q = <<>> THEN next'[cur'] = cur' ELSE next'[q[L]] = q[1]
  <2>1. CASE q = <<>>
    <3>1. Linked \subseteq {t}
      BY <1>1, <1>5, <2>1 DEF Reads
    <3> QED
      BY <1>1, <1>2, <1>3, <2>1, <3>1
  <2>2. CASE q # <<>>
    <3>1. L \in 1..L /\ 1 \in 1..L
      BY <1>5, <2>2
    <3>2. next[q[L]] = t
      BY <1>1, <1>4, <2>2 DEF Reads
    <3>3. q[L] = p
      BY <1>3, <1>5, <3>1, <3>2
    <3>4. q[1] = n
      BY <1>1, <1>6, <3>1 DEF Reads
    <3> QED
      BY <1>2, <2>2, <3>3, <3>4
  <2> QED
    BY <2>1, <2>2
<1>10. Reads(q)'
  BY <1>4, <1>5, <1>7, <1>8, <1>9 DEF Reads
<1>11. Ready' = Ready
  BY <1>10, ReadsReady, ReadsReadyNext
<1>12. Gone' = TRUE
  BY <1>4
<1>13. RR!Exit
  BY <1>1, <1>4, <1>11, <1>12, Zenon DEF RR!Exit
<1> QED
  BY <1>10, <1>13 DEF RR!Next

\* A switch runs the head of the queue, and its end is the task preempted,
\* unless that one has left the ring.
LEMMA PendSvSwitches ==
  ASSUME TypeOK, OwnContext, RingInv, PendSvHandler, ~raced', NEW q, Reads(q)
  PROVE  (\E r : Reads(r)') /\ (RR!Next \/ UNCHANGED RR!vars)
<1> DEFINE L == Len(q)
<1>1. /\ cur = running /\ SavedSp = sp /\ fault = "none"
      /\ UNCHANGED <<next, pc, reg>> /\ pc[running] \notin Exiting
      /\ cur' = next[cur]
      /\ \/ sp[cur'] # nullptr /\ running' = sp[cur']
         \/ sp[cur'] = nullptr /\ running' = running
  BY SavedIsOwn DEF PendSvHandler, SwitchTo, OwnContext
<1>2. Linked' = Linked /\ Linked \subseteq TCBs
  BY <1>1, Membership DEF Linked, Fresh
<1>3. L \in Nat /\ q \in Seq(TCBs) /\ (q # <<>> => 1 \in 1..L /\ L \in 1..L)
  BY DEF Reads
<1>4. CASE q = <<>>
  <2>1. cur' = cur
    BY <1>1, <1>4 DEF Reads
  <2>2. running' = running
    BY <1>1, <2>1 DEF OwnContext, TypeOK
  <2>3. Gone' = Gone
    BY <1>1, <2>2 DEF Gone
  <2> QED
    BY <1>1, <1>2, <2>1, <2>3, Keeps
<1>5. CASE q # <<>>
  <2>1. cur' = q[1] /\ q[1] \in Linked /\ q[1] # cur
    BY <1>1, <1>3, <1>5 DEF Reads
  <2>2. running' = q[1] /\ ~Gone'
    <3>1. pc[q[1]] \in OnRing /\ q[1] \in TCBs
      BY <2>1, Membership
    <3>2. sp[q[1]] = q[1]
      BY <3>1 DEF RingInv, ContextInv, OnRing, Creating
    <3>3. running' = q[1]
      BY <1>1, <2>1, <3>1, <3>2, NullAssumption
    <3> QED
      BY <1>1, <3>1, <3>3 DEF Gone, OnRing, Creating
  <2>3. Gone <=> cur \notin Linked
    BY <1>1, RunningLinked, Membership
    DEF Gone, Exiting, OnRing, Creating, PC, TypeOK, RingInv, GoneInv
  <2>4. PICK r : r = IF Gone THEN Tail(q) ELSE Append(Tail(q), cur)
    OBVIOUS
  <2>5. /\ \A i \in 1..L : q[i] \in Linked /\ q[i] # cur
        /\ \A i \in 1..L : i # 1 => q[i] = next[q[i - 1]]
        /\ \A i, j \in 1..L : q[i] = q[j] => i = j
        /\ \A x \in Linked : x = cur \/ \E i \in 1..L : x = q[i]
        /\ next[q[L]] = IF Gone THEN q[1] ELSE cur
    BY <1>5 DEF Reads
  <2>6. cur \in TCBs
    BY DEF TypeOK
  <2>7. Reads(r)'
    <3>1. CASE Gone
      <4>1. r \in Seq(TCBs) /\ Len(r) = L - 1 /\ \A i \in 1..(L - 1) : i + 1 \in 1..L /\ r[i] = q[i + 1]
        BY <1>3, <1>5, <2>4, <3>1
      <4>2. \A i, j \in 1..Len(r) : r[i] = r[j] => i = j
        BY <1>3, <2>5, <4>1
      <4>3. ASSUME NEW i \in 1..Len(r)
            PROVE  r[i] \in Linked' \ {cur'} /\ r[i] = next'[IF i = 1 THEN cur' ELSE r[i - 1]]
        <5>1. i + 1 \in 1..L /\ i + 1 # 1 /\ (i + 1) - 1 = i /\ r[i] = q[i + 1]
          BY <1>3, <4>1
        <5>2. i # 1 => r[i - 1] = q[i]
          BY <1>3, <4>1
        <5> QED
          BY <1>1, <1>2, <1>3, <1>5, <2>1, <2>5, <5>1, <5>2
      <4>4. ASSUME NEW x \in Linked' PROVE x = cur' \/ \E i \in 1..Len(r) : x = r[i]
        <5>1. PICK i \in 1..L : x = q[i]
          BY <1>2, <2>3, <2>5, <3>1
        <5>2. i = 1 \/ (i - 1 \in 1..(L - 1) /\ (i - 1) + 1 = i)
          BY <1>3
        <5> QED
          BY <2>1, <4>1, <5>1, <5>2
      <4>5. IF r = <<>> THEN next'[cur'] = cur' ELSE next'[r[Len(r)]] = cur'
        <5>1. CASE L = 1
          BY <1>1, <2>1, <2>5, <3>1, <4>1, <5>1
        <5>2. CASE L # 1
          <6>1. 1 \in 1..L
            BY <1>3, <1>5
          <6>2. L - 1 \in 1..(L - 1) /\ (L - 1) + 1 = L
            <7>1. L \in Nat /\ 1 <= L /\ L # 1
              BY <1>3, <5>2, <6>1
            <7> HIDE DEF L
            <7> QED
              BY <7>1
          <6> QED
            BY <1>1, <2>1, <2>5, <3>1, <4>1, <6>2
        <5> QED
          BY <5>1, <5>2
      <4> QED
        BY <2>2, <4>1, <4>2, <4>3, <4>4, <4>5 DEF Reads
    <3>2. CASE ~Gone
      <4>1. /\ r \in Seq(TCBs) /\ Len(r) = L /\ r[L] = cur
            /\ \A i \in 1..L : i # L => i + 1 \in 1..L /\ r[i] = q[i + 1]
        BY <1>3, <1>5, <2>4, <2>6, <3>2
      <4>2. cur \in Linked
        BY <2>3, <3>2
      <4>3. \A i, j \in 1..Len(r) : r[i] = r[j] => i = j
        BY <1>3, <2>5, <4>1
      <4>4. ASSUME NEW i \in 1..Len(r)
            PROVE  r[i] \in Linked' \ {cur'} /\ r[i] = next'[IF i = 1 THEN cur' ELSE r[i - 1]]
        <5>1. i # 1 => r[i - 1] = q[i]
          BY <1>3, <4>1
        <5>2. CASE i = L
          BY <1>1, <1>2, <2>1, <2>5, <3>2, <4>1, <4>2, <5>1, <5>2
        <5>3. CASE i # L
          <6>1. i + 1 \in 1..L /\ i + 1 # 1 /\ (i + 1) - 1 = i /\ r[i] = q[i + 1]
            BY <1>3, <4>1, <5>3
          <6> QED
            BY <1>1, <1>2, <1>3, <1>5, <2>1, <2>5, <5>1, <6>1
        <5> QED
          BY <5>2, <5>3
      <4>5. ASSUME NEW x \in Linked' PROVE x = cur' \/ \E i \in 1..Len(r) : x = r[i]
        <5>1. CASE x = cur
          BY <1>3, <1>5, <4>1, <5>1
        <5>2. CASE x # cur
          <6>1. PICK i \in 1..L : x = q[i]
            BY <1>2, <2>5, <5>2
          <6>2. i = 1 \/ (i - 1 \in 1..L /\ i - 1 # L /\ (i - 1) + 1 = i)
            BY <1>3
          <6> QED
            BY <2>1, <4>1, <6>1, <6>2
        <5> QED
          BY <5>1, <5>2
      <4>6. r # <<>> /\ next'[r[Len(r)]] = cur'
        BY <1>1, <1>3, <1>5, <4>1
      <4> QED
        BY <2>2, <4>1, <4>3, <4>4, <4>5, <4>6 DEF Reads
    <3> QED
      BY <3>1, <3>2
  <2>8. Ready = q /\ Ready' = r
    BY <2>7, ReadsReady, ReadsReadyNext
  <2>9. Head(q) = q[1]
    BY <1>3, <1>5
  <2>10. Gone' = FALSE
    BY <2>2
  <2>11. RR!Switch
    BY <1>5, <2>1, <2>4, <2>8, <2>9, <2>10 DEF RR!Switch
  <2> QED
    BY <2>7, <2>11 DEF RR!Next
<1> QED
  BY <1>4, <1>5

\* Nothing resets the history of a race.
LEMMA RacedStays == [Next]_vars /\ ~raced' => ~raced
  BY DEF Next, vars, SysTickHandler, PendSvHandler, HardFaultHandler, TaskStep,
    Yield, CreateTask, CreateTaskNoMemory, LoadNext, LinkPrev, LinkNext,
    TaskExit, UnlinkNext, UnlinkPrev, ClearSp, Free

\* Before a race every step is one of the queue's or leaves it as it is.
LEMMA NextReads ==
  IInv /\ [Next]_vars /\ ~raced' /\ (\E q : Reads(q))
    => (\E r : Reads(r)') /\ [RR!Next]_RR!vars
<1> SUFFICES ASSUME IInv, [Next]_vars, ~raced', NEW q, Reads(q)
             PROVE  (\E r : Reads(r)') /\ [RR!Next]_RR!vars
  OBVIOUS
<1>1. TypeOK /\ OwnContext
  BY DEF IInv
<1>2. RingInv
  BY RacedStays DEF IInv
<1>3. CASE UNCHANGED vars
  <2>1. UNCHANGED <<cur, next, running, pc, reg>>
    BY <1>3 DEF vars
  <2>2. UNCHANGED <<cur, Gone, Linked>> /\ next' = next
    BY <2>1 DEF Gone, Linked, Fresh
  <2> QED
    BY <2>2, Keeps
<1>4. CASE SysTickHandler \/ HardFaultHandler
  <2>1. UNCHANGED <<cur, next, running, pc, reg>>
    BY <1>4 DEF SysTickHandler, HardFaultHandler
  <2>2. UNCHANGED <<cur, Gone, Linked>> /\ next' = next
    BY <2>1 DEF Gone, Linked, Fresh
  <2> QED
    BY <2>2, Keeps
<1>5. CASE PendSvHandler
  BY <1>1, <1>2, <1>5, PendSvSwitches
<1>6. ASSUME NEW t \in TCBs, TaskStep(t)
      PROVE  (\E r : Reads(r)') /\ [RR!Next]_RR!vars
  <2>1. CASE CreateTask(t)
    BY <1>1, <1>2, <2>1, CreateTaskKeeps
  <2>2. CASE LinkNext(t)
    BY <1>1, <1>2, <2>2, LinkNextCreates
  <2>3. CASE UnlinkNext(t)
    BY <1>1, <1>2, <2>3, UnlinkNextExits
  <2>4. CASE \/ Yield(t) \/ CreateTaskNoMemory(t) \/ LoadNext(t) \/ LinkPrev(t)
             \/ TaskExit(t) \/ UnlinkPrev(t) \/ ClearSp(t) \/ Free(t)
    BY <1>1, <2>4, QuietStep
  <2> QED
    BY <1>6, <2>1, <2>2, <2>3, <2>4 DEF TaskStep
<1> QED
  BY <1>3, <1>4, <1>5, <1>6 DEF Next

\* The scheduler implements the round-robin queue step by step, with any
\* number of slots, until an exit races with an edit: no preempted creation
\* and no completed exit loses, duplicates or reorders a waiting task.
THEOREM ImplementsRoundRobinSteps == Spec => RoundRobinSteps
<1> DEFINE Readable == ~raced => \E q : Reads(q)
<1>1. Init => Readable /\ RR!Init
  <2> SUFFICES ASSUME Init PROVE Readable /\ RR!Init
    OBVIOUS
  <2>1. PICK q : Reads(q)
    BY InitReads
  <2>2. Ready \in Seq(TCBs)
    BY <2>1, ReadsReady DEF Reads
  <2>3. cur \in TCBs
    BY InitType DEF TypeOK
  <2>4. pc[running] = "run"
    <3>1. Boot[1] \in BootSet /\ Boot[1] \in TCBs
      BY BootLinks DEF BootSet
    <3> QED
      BY <3>1 DEF Init
  <2>5. Gone = FALSE
    BY <2>4 DEF Gone
  <2> QED
    BY <2>1, <2>2, <2>3, <2>5 DEF RR!Init
<1>2. IInv /\ Readable /\ [Next]_vars => Readable'
  BY NextReads, RacedStays
<1>3. IInv /\ Readable /\ [Next]_vars => [raced' \/ RR!Next]_RR!vars
  BY NextReads, RacedStays
<1> HIDE DEF Readable
<1> QED
  BY <1>1, <1>2, <1>3, InductiveInvariant, PTL DEF Spec, RoundRobinSteps
==============================================================================
