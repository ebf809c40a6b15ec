------------------------------ MODULE UartProofs ------------------------------
(***************************************************************************)
(* The bytes of the serial port, for any size of the buffers, any lengths  *)
(* of the calls and any number of bytes.                                   *)
(***************************************************************************)
EXTENDS Uart, CircBufferProofs

Point == {"idle"} \union Sending \union Receiving
Reg   == [left : 0..MaxLen, n : 0..MaxLen, index : Index, startTx : BOOLEAN]
Cells == Byte \union {NoByte}

\* A sender at p with locals r that has handed over m bytes, and a receiver.
SendOK(p, r, m) ==
  /\ p \in {"idle"} \union Sending
  /\ p # "idle" => r.left >= 1
  /\ p \in {"copy", "loadHead", "storeHead", "enable"} => r.n <= r.left
  /\ p \in Sending \ {"enable"} => m + r.left <= MaxSent
  /\ p = "enable" => r.n <= m /\ m + (r.left - r.n) <= MaxSent

RecvOK(p, r) ==
  /\ p \in {"idle"} \union Receiving
  /\ p # "idle" => r.left >= 1
  /\ p \in {"take", "loadTail", "storeTail"} => r.n <= r.left

TaskInv ==
  /\ pc \in [Tasks -> Point] /\ reg \in [Tasks -> Reg] /\ put \in [Senders -> 0..MaxSent]
  /\ \A s \in Senders : SendOK(pc[s], reg[s], put[s])
  /\ \A t \in Receivers : RecvOK(pc[t], reg[t])

DataInv ==
  /\ echo \in BOOLEAN /\ txeie \in BOOLEAN /\ txe \in BOOLEAN /\ missed \in BOOLEAN
  /\ rx \in Ring(Byte) /\ tx \in Ring(Byte)
  /\ dr \in Cells /\ arrived \in 0..MaxArrived
  /\ kept \in Seq(Byte) /\ got \in Seq(Cells) /\ wire \in Seq(Cells)

TypeInv == TaskInv /\ DataInv

USE SizeAssumption, TasksAssumption, BoundsAssumption

-----------------------------------------------------------------------------
LEMMA TypeInvTypes == TypeInv => TypeOK
  BY DEF TypeInv, TaskInv, DataInv, TypeOK, Point, Reg, Cells

LEMMA NoRegTyped == NoReg \in Reg
  BY DEF NoReg, Reg, Index

LEMMA InitTypes == Init => TypeInv
<1> SUFFICES ASSUME Init PROVE TypeInv
  OBVIOUS
<1>1. NoReg \in Reg
  BY NoRegTyped
<1>2. 0 \in 0..MaxSent /\ 0 \in 0..MaxArrived
  OBVIOUS
<1>3. "idle" \in Point
  BY DEF Point
<1>4. TaskInv
  <2>1. /\ pc \in [Tasks -> Point] /\ reg \in [Tasks -> Reg] /\ put \in [Senders -> 0..MaxSent]
        /\ \A t \in Tasks : pc[t] = "idle"
    BY <1>1, <1>2, <1>3 DEF Init
  <2>2. ASSUME NEW s \in Senders PROVE SendOK(pc[s], reg[s], put[s])
    <3>1. pc[s] = "idle"
      BY <2>1 DEF Tasks
    <3>2. "idle" \notin Sending
      BY DEF Sending
    <3>3. QED
      BY <3>1, <3>2 DEF SendOK
  <2>3. ASSUME NEW t \in Receivers PROVE RecvOK(pc[t], reg[t])
    BY <2>1 DEF Tasks, RecvOK
  <2>4. QED
    BY <2>1, <2>2, <2>3 DEF TaskInv
<1>5. DataInv
  <2>1. rx \in Ring(Byte) /\ tx \in Ring(Byte)
    BY EmptyTyped DEF Init
  <2>2. /\ echo \in BOOLEAN /\ txeie \in BOOLEAN /\ txe \in BOOLEAN /\ missed \in BOOLEAN
        /\ dr \in Cells
    BY DEF Init, Cells
  <2>3. arrived \in 0..MaxArrived /\ kept \in Seq(Byte) /\ got \in Seq(Cells) /\ wire \in Seq(Cells)
    BY <1>2 DEF Init
  <2>4. QED
    BY <2>1, <2>2, <2>3 DEF DataInv
<1>6. QED
  BY <1>4, <1>5 DEF TypeInv

-----------------------------------------------------------------------------
(***************************************************************************)
(* A step of one task leaves what the others are at.                       *)
(***************************************************************************)
LEMMA OneSender ==
  ASSUME TaskInv, NEW s \in Senders, NEW q \in Point, NEW r \in Reg, NEW m \in 0..MaxSent,
         pc' = [pc EXCEPT ![s] = q], reg' = [reg EXCEPT ![s] = r], put' = [put EXCEPT ![s] = m],
         SendOK(q, r, m)
  PROVE  TaskInv'
<1>1. /\ pc \in [Tasks -> Point] /\ reg \in [Tasks -> Reg] /\ put \in [Senders -> 0..MaxSent]
      /\ s \in Tasks
  BY DEF TaskInv, Tasks
<1>2. pc' \in [Tasks -> Point] /\ reg' \in [Tasks -> Reg] /\ put' \in [Senders -> 0..MaxSent]
  BY <1>1
<1>3. ASSUME NEW u \in Senders PROVE SendOK(pc'[u], reg'[u], put'[u])
  <2>1. SendOK(pc[u], reg[u], put[u]) /\ u \in Tasks
    BY DEF TaskInv, Tasks
  <2>2. CASE u = s
    BY <1>1, <2>2
  <2>3. CASE u # s
    <3>1. pc'[u] = pc[u] /\ reg'[u] = reg[u] /\ put'[u] = put[u]
      BY <1>1, <2>1, <2>3
    <3>2. QED
      BY <2>1, <3>1
  <2>4. QED
    BY <2>2, <2>3
<1>4. ASSUME NEW t \in Receivers PROVE RecvOK(pc'[t], reg'[t])
  <2>1. RecvOK(pc[t], reg[t]) /\ t \in Tasks /\ t # s
    BY DEF TaskInv, Tasks
  <2>2. pc'[t] = pc[t] /\ reg'[t] = reg[t]
    BY <1>1, <2>1
  <2>3. QED
    BY <2>1, <2>2
<1>5. QED
  BY <1>2, <1>3, <1>4 DEF TaskInv

LEMMA OneReceiver ==
  ASSUME TaskInv, NEW t \in Receivers, NEW q \in Point, NEW r \in Reg,
         pc' = [pc EXCEPT ![t] = q], reg' = [reg EXCEPT ![t] = r], UNCHANGED put, RecvOK(q, r)
  PROVE  TaskInv'
<1>1. /\ pc \in [Tasks -> Point] /\ reg \in [Tasks -> Reg] /\ t \in Tasks
  BY DEF TaskInv, Tasks
<1>2. pc' \in [Tasks -> Point] /\ reg' \in [Tasks -> Reg]
  BY <1>1
<1>3. ASSUME NEW u \in Receivers PROVE RecvOK(pc'[u], reg'[u])
  <2>1. RecvOK(pc[u], reg[u]) /\ u \in Tasks
    BY DEF TaskInv, Tasks
  <2>2. CASE u = t
    BY <1>1, <2>2
  <2>3. CASE u # t
    <3>1. pc'[u] = pc[u] /\ reg'[u] = reg[u]
      BY <1>1, <2>1, <2>3
    <3>2. QED
      BY <2>1, <3>1
  <2>4. QED
    BY <2>2, <2>3
<1>4. ASSUME NEW s \in Senders PROVE SendOK(pc'[s], reg'[s], put'[s])
  <2>1. SendOK(pc[s], reg[s], put[s]) /\ s \in Tasks /\ t # s
    BY DEF TaskInv, Tasks
  <2>2. pc'[s] = pc[s] /\ reg'[s] = reg[s]
    BY <1>1, <2>1
  <2>3. QED
    BY <2>1, <2>2
<1>5. QED
  BY <1>2, <1>3, <1>4 DEF TaskInv

\* What an invariant says of the task a step is of.
LEMMA SenderTyped ==
  ASSUME TypeInv, NEW s \in Senders
  PROVE  /\ s \in Tasks /\ pc[s] \in Point /\ reg[s] \in Reg /\ put[s] \in Nat /\ put[s] <= MaxSent
         /\ SendOK(pc[s], reg[s], put[s])
         /\ reg[s].left \in 0..MaxLen /\ reg[s].n \in 0..MaxLen /\ reg[s].index \in Index
         /\ reg[s].left \in Nat /\ reg[s].n \in Nat /\ reg[s].startTx \in BOOLEAN
<1>1. s \in Tasks /\ pc[s] \in Point /\ reg[s] \in Reg /\ put[s] \in 0..MaxSent
      /\ SendOK(pc[s], reg[s], put[s])
  BY DEF TypeInv, TaskInv, Tasks
<1>2. reg[s].left \in 0..MaxLen /\ reg[s].n \in 0..MaxLen /\ reg[s].index \in Index
      /\ reg[s].startTx \in BOOLEAN
  BY <1>1 DEF Reg
<1>3. QED
  BY <1>1, <1>2

LEMMA ReceiverTyped ==
  ASSUME TypeInv, NEW t \in Receivers
  PROVE  /\ t \in Tasks /\ pc[t] \in Point /\ reg[t] \in Reg /\ RecvOK(pc[t], reg[t])
         /\ reg[t].left \in 0..MaxLen /\ reg[t].n \in 0..MaxLen /\ reg[t].index \in Index
         /\ reg[t].left \in Nat /\ reg[t].n \in Nat
<1>1. t \in Tasks /\ pc[t] \in Point /\ reg[t] \in Reg /\ RecvOK(pc[t], reg[t])
  BY DEF TypeInv, TaskInv, Tasks
<1>2. reg[t].left \in 0..MaxLen /\ reg[t].n \in 0..MaxLen /\ reg[t].index \in Index
  BY <1>1 DEF Reg
<1>3. QED
  BY <1>1, <1>2

-----------------------------------------------------------------------------
(***************************************************************************)
(* Every step keeps the types.                                             *)
(***************************************************************************)
LEMMA ArriveTypes == TypeInv /\ Arrive => TypeInv'
<1> SUFFICES ASSUME TypeInv, Arrive PROVE TypeInv'
  OBVIOUS
<1>1. arrived' \in 0..MaxArrived /\ dr' \in Cells
  <2>1. arrived \in 0..MaxArrived /\ arrived < MaxArrived /\ arrived' = arrived + 1
        /\ dr' = <<Line, arrived + 1>>
    BY DEF Arrive, TypeInv, DataInv
  <2>2. QED
    BY <2>1 DEF Cells, Byte
<1>2. TaskInv'
  BY DEF Arrive, TypeInv, TaskInv
<1>3. DataInv'
  BY <1>1 DEF Arrive, TypeInv, DataInv
<1>4. QED
  BY <1>2, <1>3 DEF TypeInv

LEMMA ShiftedOutTypes == TypeInv /\ ShiftedOut => TypeInv'
<1> SUFFICES ASSUME TypeInv, ShiftedOut PROVE TypeInv'
  OBVIOUS
<1>1. TaskInv'
  BY DEF ShiftedOut, TypeInv, TaskInv
<1>2. DataInv'
  BY DEF ShiftedOut, TypeInv, DataInv
<1>3. QED
  BY <1>1, <1>2 DEF TypeInv

\* The byte that was received is one; the buffer is a buffer afterwards.
LEMMA EchoedTyped ==
  ASSUME TypeInv
  PROVE  /\ Echoed \in Ring(Byte) /\ Enabled \in BOOLEAN /\ Accepted \in BOOLEAN
         /\ dr # NoByte => dr \in Byte /\ Put(rx, dr) \in Ring(Byte)
<1>1. /\ rx \in Ring(Byte) /\ tx \in Ring(Byte) /\ txeie \in BOOLEAN /\ echo \in BOOLEAN
      /\ dr \in Byte \union {NoByte}
  BY DEF TypeInv, DataInv, Cells
<1>2. dr # NoByte => dr \in Byte
  BY <1>1
<1>3. dr \in Byte => Put(rx, dr) \in Ring(Byte) /\ Put(tx, dr) \in Ring(Byte)
  BY <1>1, PutIs
<1>4. Accepted \in BOOLEAN /\ Enabled \in BOOLEAN
  BY <1>1 DEF Accepted, Enabled
<1>5. Echoed \in Ring(Byte)
  BY <1>1, <1>2, <1>3 DEF Echoed, Accepted
<1>6. QED
  BY <1>2, <1>3, <1>4, <1>5

LEMMA IsrTypes == TypeInv /\ Usart2Isr => TypeInv'
<1> SUFFICES ASSUME TypeInv, Usart2Isr PROVE TypeInv'
  OBVIOUS
<1>1. TaskInv'
  BY DEF Usart2Isr, TypeInv, TaskInv
<1>2. rx' \in Ring(Byte) /\ dr' \in Cells
  BY EchoedTyped DEF Usart2Isr, TypeInv, DataInv, Cells
<1>3. kept' \in Seq(Byte)
  <2>1. Accepted => dr \in Byte
    BY EchoedTyped DEF Accepted
  <2>2. kept \in Seq(Byte) /\ kept' = IF Accepted THEN Append(kept, dr) ELSE kept
    BY DEF Usart2Isr, TypeInv, DataInv
  <2>3. QED
    BY <2>1, <2>2
<1>4. tx' \in Ring(Byte) /\ txeie' \in BOOLEAN /\ txe' \in BOOLEAN /\ missed' \in BOOLEAN
      /\ wire' \in Seq(Cells)
  <2>1. /\ Echoed \in Ring(Byte) /\ Enabled \in BOOLEAN
        /\ Pop(Echoed) \in Ring(Byte) /\ First(Echoed) \in Cells
    BY EchoedTyped, PopTyped DEF Cells
  <2>2. wire \in Seq(Cells) /\ txe \in BOOLEAN /\ missed \in BOOLEAN
    BY DEF TypeInv, DataInv
  <2>3. Append(wire, First(Echoed)) \in Seq(Cells)
    BY <2>1, <2>2
  <2>4. Unstarted \in BOOLEAN
    BY DEF Unstarted
  <2>5. CASE ~txe
    BY <2>1, <2>2, <2>5 DEF Usart2Isr
  <2>6. CASE txe /\ Empty(Echoed)
    BY <2>1, <2>2, <2>4, <2>6 DEF Usart2Isr, HandleTxEmpty
  <2>7. CASE txe /\ ~Empty(Echoed)
    BY <2>1, <2>2, <2>3, <2>7 DEF Usart2Isr, HandleTxEmpty
  <2>8. QED
    BY <2>5, <2>6, <2>7
<1>5. echo' \in BOOLEAN /\ arrived' \in 0..MaxArrived /\ got' \in Seq(Cells)
  BY DEF Usart2Isr, TypeInv, DataInv
<1>6. QED
  BY <1>1, <1>2, <1>3, <1>4, <1>5 DEF TypeInv, DataInv

LEMMA SendTypes == ASSUME NEW s \in Senders, TypeInv, Send(s) PROVE TypeInv'
<1>1. PICK len \in 1..MaxLen :
        /\ put[s] + len <= MaxSent /\ Goto(s, "idle", "full") /\ reg' = [reg EXCEPT ![s].left = len]
        /\ UNCHANGED <<echo, rx, tx, txeie, txe, dr, put, arrived, kept, got, wire, missed>>
  BY DEF Send
<1>2. DataInv'
  BY <1>1 DEF TypeInv, DataInv
<1> DEFINE r == [reg[s] EXCEPT !.left = len]
<1>3. r \in Reg /\ r.left = len
  BY <1>1, SenderTyped DEF Reg
<1>4. /\ pc' = [pc EXCEPT ![s] = "full"] /\ reg' = [reg EXCEPT ![s] = r]
      /\ put' = [put EXCEPT ![s] = put[s]]
  BY <1>1, SenderTyped DEF Goto, TypeInv, TaskInv
<1> HIDE DEF r
<1>5. SendOK("full", r, put[s])
  <2>1. r.left >= 1 /\ put[s] + r.left <= MaxSent
    BY <1>1, <1>3
  <2>2. QED
    BY <2>1 DEF SendOK, Sending
<1>6. "full" \in Point /\ put[s] \in 0..MaxSent
  BY SenderTyped DEF Point, Sending
<1>7. TaskInv'
  BY <1>3, <1>4, <1>5, <1>6, OneSender DEF TypeInv
<1>8. QED
  BY <1>2, <1>7 DEF TypeInv

\* A sender that moves on between the accesses, its counts as they are but
\* for n, which is at most left.
LEMMA SenderMoves ==
  ASSUME NEW s \in Senders, TypeInv, NEW q \in Sending,
         NEW r \in Reg, r.left = reg[s].left, pc[s] \in Sending \ {"enable"},
         pc' = [pc EXCEPT ![s] = q], reg' = [reg EXCEPT ![s] = r], UNCHANGED put,
         q \in {"copy", "loadHead", "storeHead", "enable"} => r.n <= r.left, q # "enable"
  PROVE  TaskInv'
<1>1. /\ SendOK(pc[s], reg[s], put[s]) /\ pc[s] # "idle" /\ put[s] \in 0..MaxSent
      /\ put' = [put EXCEPT ![s] = put[s]]
  <2>1. pc[s] # "idle"
    BY DEF Sending
  <2>2. QED
    BY <2>1, SenderTyped DEF TypeInv, TaskInv
<1>2. SendOK(q, r, put[s])
  BY <1>1 DEF SendOK
<1>3. q \in Point
  BY DEF Point
<1>4. QED
  BY <1>1, <1>2, <1>3, OneSender DEF TypeInv

LEMMA TxNotFullTypes == ASSUME NEW s \in Senders, TypeInv, TxNotFull(s) PROVE TypeInv'
<1> DEFINE r == reg[s]
<1>1. r \in Reg /\ r.left = reg[s].left
  BY SenderTyped
<1>2. pc' = [pc EXCEPT ![s] = "empty"] /\ reg' = [reg EXCEPT ![s] = r] /\ UNCHANGED put
  BY SenderTyped DEF TxNotFull, Goto, TypeInv, TaskInv
<1> HIDE DEF r
<1>3. TaskInv'
  <2>1. "empty" \in Sending /\ "empty" # "enable" /\ pc[s] \in Sending \ {"enable"}
    BY DEF TxNotFull, Goto, Sending
  <2>2. "empty" \in {"copy", "loadHead", "storeHead", "enable", "take", "loadTail", "storeTail"}
          => r.n <= r.left
    BY <1>1
  <2>3. QED
    BY <1>1, <1>2, <2>1, <2>2, SenderMoves
<1>4. DataInv'
  BY DEF TxNotFull, TypeInv, DataInv
<1>5. QED
  BY <1>3, <1>4 DEF TypeInv

LEMMA TxEmptyTypes == ASSUME NEW s \in Senders, TypeInv, TxEmpty(s) PROVE TypeInv'
<1> DEFINE r == [reg[s] EXCEPT !.startTx = Empty(tx)]
<1>1. r \in Reg /\ r.left = reg[s].left
  BY SenderTyped DEF Reg, Empty
<1>2. pc' = [pc EXCEPT ![s] = "tail"] /\ reg' = [reg EXCEPT ![s] = r] /\ UNCHANGED put
  BY SenderTyped DEF TxEmpty, Goto, TypeInv, TaskInv
<1> HIDE DEF r
<1>3. TaskInv'
  <2>1. "tail" \in Sending /\ "tail" # "enable" /\ pc[s] \in Sending \ {"enable"}
    BY DEF TxEmpty, Goto, Sending
  <2>2. "tail" \in {"copy", "loadHead", "storeHead", "enable", "take", "loadTail", "storeTail"}
          => r.n <= r.left
    BY <1>1
  <2>3. QED
    BY <1>1, <1>2, <2>1, <2>2, SenderMoves
<1>4. DataInv'
  BY DEF TxEmpty, TypeInv, DataInv
<1>5. QED
  BY <1>3, <1>4 DEF TypeInv

LEMMA LoadTxTailTypes == ASSUME NEW s \in Senders, TypeInv, LoadTxTail(s) PROVE TypeInv'
<1> DEFINE r == [reg[s] EXCEPT !.index = tx.tail]
<1>1. r \in Reg /\ r.left = reg[s].left
  BY SenderTyped, RingIs DEF Reg, TypeInv, DataInv
<1>2. pc' = [pc EXCEPT ![s] = "space"] /\ reg' = [reg EXCEPT ![s] = r] /\ UNCHANGED put
  BY SenderTyped DEF LoadTxTail, Goto, TypeInv, TaskInv
<1> HIDE DEF r
<1>3. TaskInv'
  <2>1. "space" \in Sending /\ "space" # "enable" /\ pc[s] \in Sending \ {"enable"}
    BY DEF LoadTxTail, Goto, Sending
  <2>2. "space" \in {"copy", "loadHead", "storeHead", "enable", "take", "loadTail", "storeTail"}
          => r.n <= r.left
    BY <1>1
  <2>3. QED
    BY <1>1, <1>2, <2>1, <2>2, SenderMoves
<1>4. DataInv'
  BY DEF LoadTxTail, TypeInv, DataInv
<1>5. QED
  BY <1>3, <1>4 DEF TypeInv

LEMMA TxSpaceTypes == ASSUME NEW s \in Senders, TypeInv, TxSpace(s) PROVE TypeInv'
<1> DEFINE n == Least(reg[s].left, FreeSpace(tx.head, reg[s].index))
           r == [reg[s] EXCEPT !.n = n]
<1>1. n \in 0..MaxLen /\ n <= reg[s].left
  <2>1. FreeSpace(tx.head, reg[s].index) \in 0..N-1
    BY SenderTyped, RingIs, AvailableIs DEF TypeInv, DataInv
  <2>2. QED
    BY <2>1, SenderTyped DEF Least
<1>2. pc' = [pc EXCEPT ![s] = "copy"] /\ reg' = [reg EXCEPT ![s] = r] /\ UNCHANGED put
  BY SenderTyped DEF TxSpace, Goto, TypeInv, TaskInv
<1> HIDE DEF n
<1>3. r \in Reg /\ r.left = reg[s].left /\ r.n <= r.left
  BY <1>1, SenderTyped DEF Reg
<1> HIDE DEF r
<1>4. TaskInv'
  <2>1. "copy" \in Sending /\ "copy" # "enable" /\ pc[s] \in Sending \ {"enable"}
    BY DEF TxSpace, Goto, Sending
  <2>2. QED
    BY <1>2, <1>3, <2>1, SenderMoves
<1>5. DataInv'
  BY DEF TxSpace, TypeInv, DataInv
<1>6. QED
  BY <1>4, <1>5 DEF TypeInv

LEMMA CopyInTypes == ASSUME NEW s \in Senders, TypeInv, CopyIn(s) PROVE TypeInv'
<1> DEFINE r == reg[s]
<1>1. r \in Reg /\ r.left = reg[s].left /\ r.n <= r.left
  BY SenderTyped DEF CopyIn, Goto, SendOK
<1>2. pc' = [pc EXCEPT ![s] = "loadHead"] /\ reg' = [reg EXCEPT ![s] = r] /\ UNCHANGED put
  BY SenderTyped DEF CopyIn, Goto, TypeInv, TaskInv
<1> HIDE DEF r
<1>3. TaskInv'
  <2>1. "loadHead" \in Sending /\ "loadHead" # "enable" /\ pc[s] \in Sending \ {"enable"}
    BY DEF CopyIn, Goto, Sending
  <2>2. "loadHead" \in {"copy", "loadHead", "storeHead", "enable", "take", "loadTail", "storeTail"}
          => r.n <= r.left
    BY <1>1
  <2>3. QED
    BY <1>1, <1>2, <2>1, <2>2, SenderMoves
<1>4. DataInv'
  <2>1. [k \in 1..reg[s].n |-> <<s, put[s] + k>>] \in Seq(Byte)
    BY SenderTyped DEF Byte
  <2>2. tx' \in Ring(Byte)
    BY <2>1, CopyToTyped DEF CopyIn, TypeInv, DataInv
  <2>3. QED
    BY <2>2 DEF CopyIn, TypeInv, DataInv
<1>5. QED
  BY <1>3, <1>4 DEF TypeInv

LEMMA LoadTxHeadTypes == ASSUME NEW s \in Senders, TypeInv, LoadTxHead(s) PROVE TypeInv'
<1> DEFINE r == [reg[s] EXCEPT !.index = tx.head]
<1>1. r \in Reg /\ r.left = reg[s].left /\ r.n <= r.left
  BY SenderTyped, RingIs DEF Reg, TypeInv, DataInv, LoadTxHead, Goto, SendOK
<1>2. pc' = [pc EXCEPT ![s] = "storeHead"] /\ reg' = [reg EXCEPT ![s] = r] /\ UNCHANGED put
  BY SenderTyped DEF LoadTxHead, Goto, TypeInv, TaskInv
<1> HIDE DEF r
<1>3. TaskInv'
  <2>1. "storeHead" \in Sending /\ "storeHead" # "enable" /\ pc[s] \in Sending \ {"enable"}
    BY DEF LoadTxHead, Goto, Sending
  <2>2. "storeHead" \in {"copy", "loadHead", "storeHead", "enable", "take", "loadTail", "storeTail"}
          => r.n <= r.left
    BY <1>1
  <2>3. QED
    BY <1>1, <1>2, <2>1, <2>2, SenderMoves
<1>4. DataInv'
  BY DEF LoadTxHead, TypeInv, DataInv
<1>5. QED
  BY <1>3, <1>4 DEF TypeInv

LEMMA StoreTxHeadTypes == ASSUME NEW s \in Senders, TypeInv, StoreTxHead(s) PROVE TypeInv'
<1>1. /\ pc[s] = "storeHead" /\ reg[s].n <= reg[s].left /\ put[s] + reg[s].left <= MaxSent
      /\ reg[s].n \in Nat /\ reg[s].left \in Nat /\ put[s] \in Nat /\ reg[s].left >= 1
  BY SenderTyped DEF StoreTxHead, Goto, SendOK, Sending
<1>2. put[s] + reg[s].n \in 0..MaxSent
  BY <1>1
<1>3. SendOK("enable", reg[s], put[s] + reg[s].n)
  BY <1>1, <1>2 DEF SendOK, Sending
<1>4. /\ pc' = [pc EXCEPT ![s] = "enable"] /\ reg' = [reg EXCEPT ![s] = reg[s]]
      /\ put' = [put EXCEPT ![s] = put[s] + reg[s].n]
  BY SenderTyped DEF StoreTxHead, Goto, TypeInv, TaskInv
<1>5. "enable" \in Point
  BY DEF Point, Sending
<1>6. TaskInv'
  BY <1>2, <1>3, <1>4, <1>5, SenderTyped, OneSender DEF TypeInv
<1>7. tx' \in Ring(Byte)
  <2>1. (reg[s].index + reg[s].n) % N \in Index /\ tx \in Ring(Byte)
    BY SenderTyped, IndexMoved DEF TypeInv, DataInv
  <2>2. QED
    BY <2>1, RingIs, RingMade DEF StoreTxHead
<1>8. DataInv'
  BY <1>7 DEF StoreTxHead, TypeInv, DataInv
<1>9. QED
  BY <1>6, <1>8 DEF TypeInv

LEMMA EnableTypes == ASSUME NEW s \in Senders, TypeInv, Enable(s) PROVE TypeInv'
<1> DEFINE r == [NoReg EXCEPT !.left = reg[s].left - reg[s].n]
           q == IF reg[s].left = reg[s].n THEN "idle" ELSE "full"
<1>1. /\ pc[s] = "enable" /\ reg[s].n <= reg[s].left
      /\ put[s] + (reg[s].left - reg[s].n) <= MaxSent
      /\ reg[s].n \in 0..MaxLen /\ reg[s].left \in 0..MaxLen /\ put[s] \in Nat
  BY SenderTyped DEF Enable, Goto, SendOK, Sending
<1>2. reg[s].left - reg[s].n \in 0..MaxLen
  BY <1>1
<1>3. r \in Reg /\ r.left = reg[s].left - reg[s].n
  BY <1>2, NoRegTyped DEF Reg
<1>4. /\ pc' = [pc EXCEPT ![s] = q] /\ reg' = [reg EXCEPT ![s] = r]
      /\ put' = [put EXCEPT ![s] = put[s]]
  BY SenderTyped DEF Enable, Goto, TypeInv, TaskInv
<1>5. SendOK(q, r, put[s])
  <2>1. CASE reg[s].left = reg[s].n
    BY <2>1 DEF SendOK, Sending
  <2>2. CASE reg[s].left # reg[s].n
    <3>1. r.left >= 1 /\ put[s] + r.left <= MaxSent
      BY <1>1, <1>3, <2>2
    <3>2. QED
      BY <2>2, <3>1 DEF SendOK, Sending
  <2>3. QED
    BY <2>1, <2>2
<1>6. q \in Point /\ put[s] \in 0..MaxSent
  BY SenderTyped DEF Point, Sending
<1> HIDE DEF q, r
<1>7. TaskInv'
  BY <1>3, <1>4, <1>5, <1>6, OneSender DEF TypeInv
<1>8. DataInv'
  <2>1. txeie' \in BOOLEAN
    BY SenderTyped DEF Enable, TypeInv, DataInv
  <2>2. QED
    BY <2>1 DEF Enable, TypeInv, DataInv
<1>9. QED
  BY <1>7, <1>8 DEF TypeInv

LEMMA ReceiverMoves ==
  ASSUME NEW t \in Receivers, TypeInv, NEW q \in Receiving,
         NEW r \in Reg, r.left = reg[t].left, pc[t] \in Receiving,
         pc' = [pc EXCEPT ![t] = q], reg' = [reg EXCEPT ![t] = r], UNCHANGED put,
         q \in {"take", "loadTail", "storeTail"} => r.n <= r.left
  PROVE  TaskInv'
<1>1. RecvOK(pc[t], reg[t]) /\ pc[t] # "idle"
  <2>1. pc[t] # "idle"
    BY DEF Receiving
  <2>2. QED
    BY <2>1, ReceiverTyped
<1>2. RecvOK(q, r)
  BY <1>1 DEF RecvOK
<1>3. q \in Point
  BY DEF Point
<1>4. QED
  BY <1>2, <1>3, OneReceiver DEF TypeInv

LEMMA RecvTypes == ASSUME NEW t \in Receivers, TypeInv, Recv(t) PROVE TypeInv'
<1>1. PICK len \in 1..MaxLen :
        /\ Goto(t, "idle", "wait") /\ reg' = [reg EXCEPT ![t].left = len]
        /\ UNCHANGED <<echo, rx, tx, txeie, txe, dr, put, arrived, kept, got, wire, missed>>
  BY DEF Recv
<1>2. DataInv'
  BY <1>1 DEF TypeInv, DataInv
<1> DEFINE r == [reg[t] EXCEPT !.left = len]
<1>3. r \in Reg /\ r.left = len
  BY <1>1, ReceiverTyped DEF Reg
<1>4. pc' = [pc EXCEPT ![t] = "wait"] /\ reg' = [reg EXCEPT ![t] = r] /\ UNCHANGED put
  BY <1>1, ReceiverTyped DEF Goto, TypeInv, TaskInv
<1> HIDE DEF r
<1>5. RecvOK("wait", r)
  <2>1. r.left >= 1
    BY <1>1, <1>3
  <2>2. QED
    BY <2>1 DEF RecvOK, Receiving
<1>6. "wait" \in Point
  BY DEF Point, Receiving
<1>7. TaskInv'
  BY <1>3, <1>4, <1>5, <1>6, OneReceiver DEF TypeInv
<1>8. QED
  BY <1>2, <1>7 DEF TypeInv

LEMMA RxNotEmptyTypes == ASSUME NEW t \in Receivers, TypeInv, RxNotEmpty(t) PROVE TypeInv'
<1> DEFINE r == reg[t]
<1>1. r \in Reg /\ r.left = reg[t].left
  BY ReceiverTyped
<1>2. pc' = [pc EXCEPT ![t] = "head"] /\ reg' = [reg EXCEPT ![t] = r] /\ UNCHANGED put
  BY ReceiverTyped DEF RxNotEmpty, Goto, TypeInv, TaskInv
<1> HIDE DEF r
<1>3. TaskInv'
  <2>1. "head" \in Receiving /\ pc[t] \in Receiving
    BY DEF RxNotEmpty, Goto, Receiving
  <2>2. "head" \in {"copy", "loadHead", "storeHead", "enable", "take", "loadTail", "storeTail"}
          => r.n <= r.left
    BY <1>1
  <2>3. QED
    BY <1>1, <1>2, <2>1, <2>2, ReceiverMoves
<1>4. DataInv'
  BY DEF RxNotEmpty, TypeInv, DataInv
<1>5. QED
  BY <1>3, <1>4 DEF TypeInv

LEMMA LoadRxHeadTypes == ASSUME NEW t \in Receivers, TypeInv, LoadRxHead(t) PROVE TypeInv'
<1> DEFINE r == [reg[t] EXCEPT !.index = rx.head]
<1>1. r \in Reg /\ r.left = reg[t].left
  BY ReceiverTyped, RingIs DEF Reg, TypeInv, DataInv
<1>2. pc' = [pc EXCEPT ![t] = "available"] /\ reg' = [reg EXCEPT ![t] = r] /\ UNCHANGED put
  BY ReceiverTyped DEF LoadRxHead, Goto, TypeInv, TaskInv
<1> HIDE DEF r
<1>3. TaskInv'
  <2>1. "available" \in Receiving /\ pc[t] \in Receiving
    BY DEF LoadRxHead, Goto, Receiving
  <2>2. "available" \in {"copy", "loadHead", "storeHead", "enable", "take", "loadTail", "storeTail"}
          => r.n <= r.left
    BY <1>1
  <2>3. QED
    BY <1>1, <1>2, <2>1, <2>2, ReceiverMoves
<1>4. DataInv'
  BY DEF LoadRxHead, TypeInv, DataInv
<1>5. QED
  BY <1>3, <1>4 DEF TypeInv

LEMMA RxAvailableTypes == ASSUME NEW t \in Receivers, TypeInv, RxAvailable(t) PROVE TypeInv'
<1> DEFINE n == Least(reg[t].left, Available(reg[t].index, rx.tail))
           r == [reg[t] EXCEPT !.n = n]
<1>1. n \in 0..MaxLen /\ n <= reg[t].left
  <2>1. Available(reg[t].index, rx.tail) \in 0..N-1
    BY ReceiverTyped, RingIs, AvailableIs DEF TypeInv, DataInv
  <2>2. QED
    BY <2>1, ReceiverTyped DEF Least
<1>2. pc' = [pc EXCEPT ![t] = "take"] /\ reg' = [reg EXCEPT ![t] = r] /\ UNCHANGED put
  BY ReceiverTyped DEF RxAvailable, Goto, TypeInv, TaskInv
<1> HIDE DEF n
<1>3. r \in Reg /\ r.left = reg[t].left /\ r.n <= r.left
  BY <1>1, ReceiverTyped DEF Reg
<1> HIDE DEF r
<1>4. TaskInv'
  <2>1. "take" \in Receiving /\ pc[t] \in Receiving
    BY DEF RxAvailable, Goto, Receiving
  <2>2. QED
    BY <1>2, <1>3, <2>1, ReceiverMoves
<1>5. DataInv'
  BY DEF RxAvailable, TypeInv, DataInv
<1>6. QED
  BY <1>4, <1>5 DEF TypeInv

LEMMA CopyOutTypes == ASSUME NEW t \in Receivers, TypeInv, CopyOut(t) PROVE TypeInv'
<1> DEFINE r == reg[t]
<1>1. r \in Reg /\ r.left = reg[t].left /\ r.n <= r.left
  BY ReceiverTyped DEF CopyOut, Goto, RecvOK
<1>2. pc' = [pc EXCEPT ![t] = "loadTail"] /\ reg' = [reg EXCEPT ![t] = r] /\ UNCHANGED put
  BY ReceiverTyped DEF CopyOut, Goto, TypeInv, TaskInv
<1> HIDE DEF r
<1>3. TaskInv'
  <2>1. "loadTail" \in Receiving /\ pc[t] \in Receiving
    BY DEF CopyOut, Goto, Receiving
  <2>2. "loadTail" \in {"copy", "loadHead", "storeHead", "enable", "take", "loadTail", "storeTail"}
          => r.n <= r.left
    BY <1>1
  <2>3. QED
    BY <1>1, <1>2, <2>1, <2>2, ReceiverMoves
<1>4. DataInv'
  <2>1. CopyFromCirc(rx.buf, rx.tail, reg[t].n) \in Seq(Cells)
    BY ReceiverTyped, CopyFromTyped DEF TypeInv, DataInv, Cells
  <2>2. got' \in Seq(Cells)
    BY <2>1 DEF CopyOut, TypeInv, DataInv
  <2>3. QED
    BY <2>2 DEF CopyOut, TypeInv, DataInv
<1>5. QED
  BY <1>3, <1>4 DEF TypeInv

LEMMA LoadRxTailTypes == ASSUME NEW t \in Receivers, TypeInv, LoadRxTail(t) PROVE TypeInv'
<1> DEFINE r == [reg[t] EXCEPT !.index = rx.tail]
<1>1. r \in Reg /\ r.left = reg[t].left /\ r.n <= r.left
  BY ReceiverTyped, RingIs DEF Reg, TypeInv, DataInv, LoadRxTail, Goto, RecvOK
<1>2. pc' = [pc EXCEPT ![t] = "storeTail"] /\ reg' = [reg EXCEPT ![t] = r] /\ UNCHANGED put
  BY ReceiverTyped DEF LoadRxTail, Goto, TypeInv, TaskInv
<1> HIDE DEF r
<1>3. TaskInv'
  <2>1. "storeTail" \in Receiving /\ pc[t] \in Receiving
    BY DEF LoadRxTail, Goto, Receiving
  <2>2. "storeTail" \in {"copy", "loadHead", "storeHead", "enable", "take", "loadTail", "storeTail"}
          => r.n <= r.left
    BY <1>1
  <2>3. QED
    BY <1>1, <1>2, <2>1, <2>2, ReceiverMoves
<1>4. DataInv'
  BY DEF LoadRxTail, TypeInv, DataInv
<1>5. QED
  BY <1>3, <1>4 DEF TypeInv

LEMMA StoreRxTailTypes == ASSUME NEW t \in Receivers, TypeInv, StoreRxTail(t) PROVE TypeInv'
<1> DEFINE r == [NoReg EXCEPT !.left = reg[t].left - reg[t].n]
           q == IF reg[t].left = reg[t].n THEN "idle" ELSE "wait"
<1>1. /\ pc[t] = "storeTail" /\ reg[t].n <= reg[t].left
      /\ reg[t].n \in 0..MaxLen /\ reg[t].left \in 0..MaxLen
  BY ReceiverTyped DEF StoreRxTail, Goto, RecvOK
<1>2. reg[t].left - reg[t].n \in 0..MaxLen
  BY <1>1
<1>3. r \in Reg /\ r.left = reg[t].left - reg[t].n
  BY <1>2, NoRegTyped DEF Reg
<1>4. pc' = [pc EXCEPT ![t] = q] /\ reg' = [reg EXCEPT ![t] = r] /\ UNCHANGED put
  BY ReceiverTyped DEF StoreRxTail, Goto, TypeInv, TaskInv
<1>5. RecvOK(q, r)
  <2>1. CASE reg[t].left = reg[t].n
    BY <2>1 DEF RecvOK
  <2>2. CASE reg[t].left # reg[t].n
    <3>1. r.left >= 1
      BY <1>1, <1>3, <2>2
    <3>2. QED
      BY <2>2, <3>1 DEF RecvOK, Receiving
  <2>3. QED
    BY <2>1, <2>2
<1>6. q \in Point
  BY DEF Point, Receiving
<1> HIDE DEF q, r
<1>7. TaskInv'
  BY <1>3, <1>4, <1>5, <1>6, OneReceiver DEF TypeInv
<1>8. rx' \in Ring(Byte)
  <2>1. (reg[t].index + reg[t].n) % N \in Index /\ rx \in Ring(Byte)
    BY ReceiverTyped, IndexMoved DEF TypeInv, DataInv
  <2>2. QED
    BY <2>1, RingIs, RingMade DEF StoreRxTail
<1>9. DataInv'
  BY <1>8 DEF StoreRxTail, TypeInv, DataInv
<1>10. QED
  BY <1>7, <1>9 DEF TypeInv

LEMMA NextTypes == TypeInv /\ [Next]_vars => TypeInv'
<1> SUFFICES ASSUME TypeInv, [Next]_vars PROVE TypeInv'
  OBVIOUS
<1>1. CASE UNCHANGED vars
  BY <1>1 DEF vars, TypeInv, TaskInv, DataInv
<1>2. CASE Arrive \/ ShiftedOut \/ Usart2Isr
  BY <1>2, ArriveTypes, ShiftedOutTypes, IsrTypes
<1>3. ASSUME NEW s \in Senders, Send(s) \/ SendStep(s) PROVE TypeInv'
  BY <1>3, SendTypes, TxNotFullTypes, TxEmptyTypes, LoadTxTailTypes, TxSpaceTypes,
     CopyInTypes, LoadTxHeadTypes, StoreTxHeadTypes, EnableTypes DEF SendStep
<1>4. ASSUME NEW t \in Receivers, Recv(t) \/ RecvStep(t) PROVE TypeInv'
  BY <1>4, RecvTypes, RxNotEmptyTypes, LoadRxHeadTypes, RxAvailableTypes, CopyOutTypes,
     LoadRxTailTypes, StoreRxTailTypes DEF RecvStep
<1>5. QED
  BY <1>1, <1>2, <1>3, <1>4 DEF Next

LEMMA TypesHold == Spec => []TypeInv
  BY InitTypes, NextTypes, PTL DEF Spec

\* The indices stay indices and no call moves more bytes than it was asked
\* to, for any number of senders and receivers, with and without echo.
THEOREM Typed == Spec => []TypeOK
  BY TypesHold, TypeInvTypes, PTL

-----------------------------------------------------------------------------
(***************************************************************************)
(* Receiving. The tail is at place o of the bytes kept. A receiver that    *)
(* has copied its n bytes and not moved the tail is n ahead of it.         *)
(***************************************************************************)
Reading(p, r, b, o, g) ==
  /\ g = o + (IF p \in {"loadTail", "storeTail"} THEN r.n ELSE 0)
  /\ p = "available" => Available(r.index, b.tail) <= Used(b)
  /\ p \in {"take", "loadTail", "storeTail"} => r.n <= Used(b)
  /\ p = "storeTail" => r.index = b.tail

\* got is the beginning of kept, and the tail at place o of it.
Prefix(g, k) == Len(g) <= Len(k) /\ \A i \in 1..Len(g) : g[i] = k[i]

Received(o) ==
  /\ Holds(rx, kept, o) /\ Prefix(got, kept)
  /\ Receivers = {} => Len(got) = o
  /\ \A t \in Receivers : Reading(pc[t], reg[t], rx, o, Len(got))

RecvInv == TypeInv /\ \E o \in Nat : Received(o)

OneReceives == \A t, u \in Receivers : t = u

LEMMA DataTyped ==
  ASSUME TypeInv
  PROVE  /\ rx \in Ring(Byte) /\ tx \in Ring(Byte) /\ kept \in Seq(Byte) /\ got \in Seq(Cells)
         /\ wire \in Seq(Cells) /\ Len(got) \in Nat /\ Len(kept) \in Nat /\ Len(wire) \in Nat
         /\ Used(rx) \in Nat /\ Used(tx) \in Nat /\ dr \in Cells /\ echo \in BOOLEAN
         /\ arrived \in Nat
<1>1. /\ rx \in Ring(Byte) /\ tx \in Ring(Byte) /\ kept \in Seq(Byte) /\ got \in Seq(Cells)
      /\ wire \in Seq(Cells) /\ dr \in Cells /\ echo \in BOOLEAN /\ arrived \in 0..MaxArrived
  BY DEF TypeInv, DataInv
<1>2. Used(rx) \in Nat /\ Used(tx) \in Nat
  BY <1>1, RingIs
<1>3. arrived \in Nat
  BY <1>1
<1>4. Len(got) \in Nat /\ Len(kept) \in Nat /\ Len(wire) \in Nat
  BY <1>1
<1>5. QED
  BY <1>1, <1>2, <1>3, <1>4

LEMMA InitRecv == Init => RecvInv
<1> SUFFICES ASSUME Init PROVE RecvInv
  OBVIOUS
<1>1. TypeInv
  BY InitTypes
<1>2. Flows(<<>>, EmptyBuffer, <<>>) /\ rx = EmptyBuffer /\ kept = <<>> /\ got = <<>>
  BY EmptyTyped DEF Init
<1>3. Len(<<>>) = 0
  OBVIOUS
<1>4. Holds(rx, kept, 0) /\ Prefix(got, kept) /\ Len(got) = 0
  BY <1>2, <1>3 DEF Flows, Prefix
<1>5. ASSUME NEW t \in Receivers PROVE Reading(pc[t], reg[t], rx, 0, Len(got))
  <2>1. pc[t] = "idle"
    BY DEF Init, Tasks
  <2>2. QED
    BY <1>4, <2>1 DEF Reading
<1>6. Received(0)
  BY <1>4, <1>5 DEF Received
<1>7. QED
  BY <1>1, <1>6 DEF RecvInv

\* Steps of other parties.
LEMMA ReceivedSame ==
  ASSUME NEW o \in Nat, Received(o), UNCHANGED <<rx, kept, got>>,
         \A t \in Receivers : pc'[t] = pc[t] /\ reg'[t] = reg[t]
  PROVE  Received(o)'
  BY DEF Received

LEMMA IsrReceived ==
  ASSUME TypeInv, NEW o \in Nat, Received(o), Usart2Isr
  PROVE  Received(o)'
<1>1. UNCHANGED <<pc, reg, got>>
  BY DEF Usart2Isr
<1>2. CASE Accepted
  <2>1. dr \in Byte /\ dr # NoByte /\ ~Full(rx)
    BY <1>2, EchoedTyped DEF Accepted
  <2>2. rx' = Put(rx, dr) /\ kept' = Append(kept, dr)
    BY <1>2, <2>1 DEF Usart2Isr
  <2>3. Holds(Put(rx, dr), Append(kept, dr), o)
    BY <2>1, DataTyped, HoldsPut DEF Received
  <2>4. Put(rx, dr).tail = rx.tail /\ Used(Put(rx, dr)) = Used(rx) + 1 /\ Used(rx) \in Nat
    BY <2>1, DataTyped, PutIs
  <2>5. Prefix(got, Append(kept, dr))
    <3>1. Len(Append(kept, dr)) = Len(kept) + 1
      BY DataTyped
    <3>2. \A i \in 1..Len(kept) : Append(kept, dr)[i] = kept[i]
      BY DataTyped
    <3>3. Len(got) <= Len(kept) /\ \A i \in 1..Len(got) : got[i] = kept[i]
      BY DEF Received, Prefix
    <3>4. Len(got) \in Nat /\ Len(kept) \in Nat
      BY DataTyped
    <3>5. QED
      BY <3>1, <3>2, <3>3, <3>4 DEF Prefix
  <2>6. ASSUME NEW t \in Receivers PROVE Reading(pc'[t], reg'[t], rx', o, Len(got'))
    <3>1. Reading(pc[t], reg[t], rx, o, Len(got))
      BY DEF Received
    <3>2. Available(reg[t].index, rx.tail) \in Int /\ reg[t].n \in Nat
      <4>1. rx.tail \in Index /\ reg[t].index \in Index
        BY DataTyped, RingIs, ReceiverTyped
      <4>2. QED
        BY <4>1, AvailableIs, ReceiverTyped
    <3>3. rx'.tail = rx.tail /\ Used(rx') = Used(rx) + 1
      BY <2>2, <2>4
    <3>4. QED
      BY <1>1, <2>4, <3>1, <3>2, <3>3 DEF Reading
  <2>7. QED
    BY <1>1, <2>2, <2>3, <2>5, <2>6 DEF Received
<1>3. CASE ~Accepted
  <2>1. kept' = kept
    BY <1>3 DEF Usart2Isr
  <2>2. rx' = rx
    <3>1. CASE dr = NoByte
      BY <3>1 DEF Usart2Isr
    <3>2. CASE dr # NoByte
      <4>1. Full(rx)
        BY <1>3, <3>2 DEF Accepted
      <4>2. QED
        BY <3>2, <4>1 DEF Usart2Isr, Put
    <3>3. QED
      BY <3>1, <3>2
  <2>3. QED
    BY <1>1, <2>1, <2>2, ReceivedSame
<1>4. QED
  BY <1>2, <1>3

\* The steps of the receiver itself.
LEMMA ReadOn ==
  ASSUME OneReceives, NEW t \in Receivers, NEW q \in Nat,
         Holds(rx', kept', q), Prefix(got', kept'), Reading(pc'[t], reg'[t], rx', q, Len(got'))
  PROVE  Received(q)'
<1>1. \A u \in Receivers : u = t
  BY DEF OneReceives
<1>2. \A u \in Receivers : Reading(pc'[u], reg'[u], rx', q, Len(got'))
  BY <1>1
<1>3. Receivers # {}
  OBVIOUS
<1>4. QED
  BY <1>2, <1>3 DEF Received

LEMMA RecvReceived ==
  ASSUME OneReceives, TypeInv, NEW o \in Nat, Received(o), NEW t \in Receivers, Recv(t)
  PROVE  Received(o)'
<1>1. UNCHANGED <<rx, kept, got>> /\ pc[t] = "idle" /\ pc'[t] = "wait"
  BY ReceiverTyped DEF Recv, Goto, TypeInv, TaskInv
<1>2. Reading(pc[t], reg[t], rx, o, Len(got))
  BY DEF Received
<1>3. Reading(pc'[t], reg'[t], rx', o, Len(got'))
  BY <1>1, <1>2 DEF Reading
<1>4. QED
  BY <1>1, <1>3, ReadOn DEF Received

LEMMA RxNotEmptyReceived ==
  ASSUME OneReceives, TypeInv, NEW o \in Nat, Received(o), NEW t \in Receivers, RxNotEmpty(t)
  PROVE  Received(o)'
<1>1. UNCHANGED <<rx, kept, got>> /\ pc[t] = "wait" /\ pc'[t] = "head"
  BY ReceiverTyped DEF RxNotEmpty, Goto, TypeInv, TaskInv
<1>2. Reading(pc[t], reg[t], rx, o, Len(got))
  BY DEF Received
<1>3. Reading(pc'[t], reg'[t], rx', o, Len(got'))
  BY <1>1, <1>2 DEF Reading
<1>4. QED
  BY <1>1, <1>3, ReadOn DEF Received

LEMMA LoadRxHeadReceived ==
  ASSUME OneReceives, TypeInv, NEW o \in Nat, Received(o), NEW t \in Receivers, LoadRxHead(t)
  PROVE  Received(o)'
<1>1. UNCHANGED <<rx, kept, got>> /\ pc[t] = "head" /\ pc'[t] = "available"
  BY ReceiverTyped DEF LoadRxHead, Goto, TypeInv, TaskInv
<1>2. Reading(pc[t], reg[t], rx, o, Len(got))
  BY DEF Received
<1>3. reg'[t].index = rx.head
  BY ReceiverTyped DEF LoadRxHead, TypeInv, TaskInv, Reg
<1>4. Available(reg'[t].index, rx.tail) <= Used(rx)
  BY <1>3, DataTyped DEF Used
<1>5. Reading(pc'[t], reg'[t], rx', o, Len(got'))
  BY <1>1, <1>2, <1>4 DEF Reading
<1>6. QED
  BY <1>1, <1>5, ReadOn DEF Received

LEMMA RxAvailableReceived ==
  ASSUME OneReceives, TypeInv, NEW o \in Nat, Received(o), NEW t \in Receivers, RxAvailable(t)
  PROVE  Received(o)'
<1>1. UNCHANGED <<rx, kept, got>> /\ pc[t] = "available" /\ pc'[t] = "take"
  BY ReceiverTyped DEF RxAvailable, Goto, TypeInv, TaskInv
<1>2. Reading(pc[t], reg[t], rx, o, Len(got))
  BY DEF Received
<1>3. reg'[t].n = Least(reg[t].left, Available(reg[t].index, rx.tail))
  BY ReceiverTyped DEF RxAvailable, TypeInv, TaskInv, Reg
<1>4. reg'[t].n <= Used(rx)
  <2>1. Available(reg[t].index, rx.tail) <= Used(rx) /\ Available(reg[t].index, rx.tail) \in Int
    BY <1>1, <1>2, DataTyped, RingIs, ReceiverTyped, AvailableIs DEF Reading
  <2>2. reg[t].left \in Nat /\ Used(rx) \in Nat
    BY DataTyped, ReceiverTyped
  <2>3. QED
    BY <1>3, <2>1, <2>2 DEF Least
<1>5. Reading(pc'[t], reg'[t], rx', o, Len(got'))
  BY <1>1, <1>2, <1>4 DEF Reading
<1>6. QED
  BY <1>1, <1>5, ReadOn DEF Received

LEMMA CopyOutReceived ==
  ASSUME OneReceives, TypeInv, NEW o \in Nat, Received(o), NEW t \in Receivers, CopyOut(t)
  PROVE  Received(o)'
<1> DEFINE n == reg[t].n
           f == CopyFromCirc(rx.buf, rx.tail, n)
<1>1. /\ UNCHANGED <<rx, kept, reg>> /\ pc[t] = "take" /\ pc'[t] = "loadTail" /\ got' = got \o f
  BY ReceiverTyped DEF CopyOut, Goto, TypeInv, TaskInv
<1>2. Reading(pc[t], reg[t], rx, o, Len(got))
  BY DEF Received
<1>3. Len(got) = o /\ n \in 0..Used(rx) /\ n \in Nat
  BY <1>1, <1>2, DataTyped, ReceiverTyped DEF Reading
<1>4. f \in Seq(Byte) /\ Len(f) = n /\ \A i \in 1..n : f[i] = kept[o + i]
  BY <1>3, DataTyped, CopiedOut DEF Received
<1>5. /\ Len(got \o f) = Len(got) + n
      /\ \A i \in 1..Len(got) : (got \o f)[i] = got[i]
      /\ \A i \in 1..n : (got \o f)[Len(got) + i] = f[i]
  <2>1. PICK x \in Seq(Cells) : x = f
    BY <1>4, DataTyped DEF Cells
  <2>2. got \in Seq(Cells) /\ Len(x) = n
    BY <1>4, <2>1, DataTyped
  <2>3. /\ Len(got \o x) = Len(got) + Len(x)
        /\ \A i \in 1..Len(got) : (got \o x)[i] = got[i]
        /\ \A i \in 1..Len(x) : (got \o x)[Len(got) + i] = x[i]
    BY <2>2
  <2>4. QED
    BY <2>1, <2>2, <2>3
<1> HIDE DEF f
<1>6. Prefix(got', kept')
  <2>1. Len(kept) = o + Used(rx) /\ Used(rx) \in Nat
    BY DataTyped DEF Received, Holds
  <2>2. Len(got') <= Len(kept)
    BY <1>1, <1>3, <1>5, <2>1
  <2>3. ASSUME NEW i \in 1..Len(got') PROVE got'[i] = kept[i]
    <3>1. CASE i \in 1..Len(got)
      BY <1>1, <1>5, <3>1 DEF Received, Prefix
    <3>2. CASE i \notin 1..Len(got)
      <4>1. i - o \in 1..n /\ o + (i - o) = i
        BY <1>1, <1>3, <1>5, <3>2
      <4>2. QED
        BY <1>1, <1>3, <1>4, <1>5, <4>1
    <3>3. QED
      BY <3>1, <3>2
  <2>4. QED
    BY <1>1, <2>2, <2>3 DEF Prefix
<1>7. Reading(pc'[t], reg'[t], rx', o, Len(got'))
  <2>1. Len(got') = o + reg'[t].n /\ reg'[t].n <= Used(rx')
    BY <1>1, <1>3, <1>5
  <2>2. QED
    BY <1>1, <2>1 DEF Reading
<1>8. QED
  BY <1>1, <1>6, <1>7, ReadOn DEF Received

LEMMA LoadRxTailReceived ==
  ASSUME OneReceives, TypeInv, NEW o \in Nat, Received(o), NEW t \in Receivers, LoadRxTail(t)
  PROVE  Received(o)'
<1>1. UNCHANGED <<rx, kept, got>> /\ pc[t] = "loadTail" /\ pc'[t] = "storeTail"
  BY ReceiverTyped DEF LoadRxTail, Goto, TypeInv, TaskInv
<1>2. Reading(pc[t], reg[t], rx, o, Len(got))
  BY DEF Received
<1>3. reg'[t].index = rx.tail /\ reg'[t].n = reg[t].n
  BY ReceiverTyped DEF LoadRxTail, TypeInv, TaskInv, Reg
<1>4. Reading(pc'[t], reg'[t], rx', o, Len(got'))
  BY <1>1, <1>2, <1>3 DEF Reading
<1>5. QED
  BY <1>1, <1>4, ReadOn DEF Received

LEMMA StoreRxTailReceived ==
  ASSUME OneReceives, TypeInv, NEW o \in Nat, Received(o), NEW t \in Receivers, StoreRxTail(t)
  PROVE  \E q \in Nat : Received(q)'
<1>1. /\ UNCHANGED <<kept, got>> /\ pc[t] = "storeTail" /\ pc'[t] \in {"idle", "wait"}
      /\ rx' = [rx EXCEPT !.tail = (reg[t].index + reg[t].n) % N]
  BY ReceiverTyped DEF StoreRxTail, Goto, TypeInv, TaskInv
<1>2. Reading(pc[t], reg[t], rx, o, Len(got))
  BY DEF Received
<1>3. /\ reg[t].index = rx.tail /\ Len(got) = o + reg[t].n
      /\ reg[t].n \in 0..Used(rx) /\ o + reg[t].n \in Nat
  BY <1>1, <1>2, DataTyped, ReceiverTyped DEF Reading
<1>4. Holds(rx', kept, o + reg[t].n)
  BY <1>1, <1>3, DataTyped, HoldsRetire DEF Received
<1>5. Reading(pc'[t], reg'[t], rx', o + reg[t].n, Len(got'))
  BY <1>1, <1>3 DEF Reading
<1>6. PICK q \in Nat : q = o + reg[t].n
  BY <1>3
<1>7. Received(q)'
  BY <1>1, <1>4, <1>5, <1>6, ReadOn DEF Received
<1>8. QED
  BY <1>7

\* What a step of a sender does to the tasks' counters and locals.
LEMMA SenderLocals ==
  ASSUME TypeInv, NEW s \in Senders, Send(s) \/ SendStep(s)
  PROVE  /\ \E q \in Point : pc' = [pc EXCEPT ![s] = q]
         /\ \E r \in Reg : reg' = [reg EXCEPT ![s] = r]
<1>1. \E q : pc' = [pc EXCEPT ![s] = q]
  BY DEF Send, SendStep, TxNotFull, TxEmpty, LoadTxTail, TxSpace, CopyIn, LoadTxHead,
         StoreTxHead, Enable, Goto
<1>2. \E r : reg' = [reg EXCEPT ![s] = r]
  <2>1. reg = [reg EXCEPT ![s] = reg[s]]
    BY DEF TypeInv, TaskInv
  <2>2. QED
    BY <2>1 DEF Send, SendStep, TxNotFull, TxEmpty, LoadTxTail, TxSpace, CopyIn, LoadTxHead,
                StoreTxHead, Enable
<1>3. TypeInv' /\ s \in Tasks
  BY NextTypes DEF Next, Tasks
<1>4. pc'[s] \in Point /\ reg'[s] \in Reg
  BY <1>3 DEF TypeInv, TaskInv
<1>5. pc' = [pc EXCEPT ![s] = pc'[s]] /\ reg' = [reg EXCEPT ![s] = reg'[s]]
  BY <1>1, <1>2, <1>3 DEF TypeInv, TaskInv
<1>6. QED
  BY <1>4, <1>5

LEMMA NextRecv ==
  ASSUME OneReceives
  PROVE  RecvInv /\ [Next]_vars => RecvInv'
<1> SUFFICES ASSUME RecvInv, [Next]_vars PROVE RecvInv'
  OBVIOUS
<1>1. TypeInv /\ TypeInv'
  BY NextTypes DEF RecvInv
<1>2. PICK o \in Nat : Received(o)
  BY DEF RecvInv
<1>3. \E q \in Nat : Received(q)'
  <2>1. CASE UNCHANGED vars
    BY <1>2, <2>1, ReceivedSame DEF vars
  <2>2. CASE Arrive \/ ShiftedOut
    BY <1>2, <2>2, ReceivedSame DEF Arrive, ShiftedOut
  <2>3. CASE Usart2Isr
    BY <1>1, <1>2, <2>3, IsrReceived
  <2>4. ASSUME NEW s \in Senders, Send(s) \/ SendStep(s) PROVE \E q \in Nat : Received(q)'
    <3>1. UNCHANGED <<rx, kept, got>>
      BY <2>4 DEF Send, SendStep, TxNotFull, TxEmpty, LoadTxTail, TxSpace, CopyIn, LoadTxHead,
                  StoreTxHead, Enable
    <3>2. /\ \E q \in Point : pc' = [pc EXCEPT ![s] = q]
          /\ \E r \in Reg : reg' = [reg EXCEPT ![s] = r]
      BY <1>1, <2>4, SenderLocals
    <3>3. ASSUME NEW t \in Receivers PROVE pc'[t] = pc[t] /\ reg'[t] = reg[t]
      <4>1. t # s /\ t \in Tasks
        BY DEF Tasks
      <4>2. QED
        BY <1>1, <3>2, <4>1 DEF TypeInv, TaskInv
    <3>4. QED
      BY <1>2, <3>1, <3>3, ReceivedSame
  <2>5. ASSUME NEW t \in Receivers, Recv(t) \/ RecvStep(t) PROVE \E q \in Nat : Received(q)'
    BY <1>1, <1>2, <2>5, RecvReceived, RxNotEmptyReceived, LoadRxHeadReceived,
       RxAvailableReceived, CopyOutReceived, LoadRxTailReceived, StoreRxTailReceived DEF RecvStep
  <2>6. QED
    BY <2>1, <2>2, <2>3, <2>4, <2>5 DEF Next
<1>4. QED
  BY <1>1, <1>3 DEF RecvInv

LEMMA RecvInvReceives == RecvInv => ReceivedOnce
<1> SUFFICES ASSUME RecvInv, \A t \in Receivers : pc[t] \notin {"loadTail", "storeTail"}
             PROVE  got \o Contents(rx) = kept
  BY DEF ReceivedOnce
<1>1. PICK o \in Nat : Received(o)
  BY DEF RecvInv
<1>2. Len(got) = o
  <2>1. CASE Receivers = {}
    BY <1>1, <2>1 DEF Received
  <2>2. CASE Receivers # {}
    <3>1. PICK t \in Receivers : TRUE
      BY <2>2
    <3>2. Reading(pc[t], reg[t], rx, o, Len(got)) /\ pc[t] \notin {"loadTail", "storeTail"}
      BY <1>1 DEF Received
    <3>3. QED
      BY <3>2 DEF Reading
  <2>3. QED
    BY <2>1, <2>2
<1>3. Flows(got, rx, kept)
  BY <1>1, <1>2 DEF Received, Flows, Prefix
<1>4. QED
  BY <1>3, DataTyped, FlowsJoined DEF RecvInv

\* With at most one task that receives, recv delivers exactly the bytes that
\* rx had room for, each once and in the order they came, whatever the handler
\* adds between its accesses, and whoever sends.
THEOREM ReceivesInOrder ==
  ASSUME \A t, u \in Receivers : t = u
  PROVE  Spec => []ReceivedOnce
<1>1. Init => RecvInv
  BY InitRecv
<1>2. RecvInv /\ [Next]_vars => RecvInv'
  BY NextRecv DEF OneReceives
<1>3. RecvInv => ReceivedOnce
  BY RecvInvReceives
<1>4. QED
  BY <1>1, <1>2, <1>3, PTL DEF Spec

-----------------------------------------------------------------------------
(***************************************************************************)
(* Sending, without echo. What is on the wire and what is in tx make up    *)
(* the bytes handed over. From the copy on the next n bytes are behind the *)
(* head, and the room they need stays, because the handler only takes      *)
(* bytes out.                                                              *)
(***************************************************************************)
Given(s, m) == [k \in 1..m |-> <<s, k>>]
Following(s, m, n) == [k \in 1..n |-> <<s, m + k>>]

Writing(p, r, m, b, s) ==
  /\ p = "space" => Used(b) <= Available(b.head, r.index)
  /\ p \in {"copy", "loadHead", "storeHead"} => r.n <= FreeSpace(b.head, b.tail)
  /\ p \in {"loadHead", "storeHead"} => Staged(b, Following(s, m, r.n), r.n)
  /\ p = "storeHead" => r.index = b.head

Sent(s) ==
  /\ Flows(wire, tx, Given(s, put[s]))
  /\ Writing(pc[s], reg[s], put[s], tx, s)

SendInv == TypeInv /\ (~echo => \A s \in Senders : Sent(s))

OneSends == \A s, u \in Senders : s = u

LEMMA GivenTyped ==
  ASSUME NEW s \in Senders, NEW m \in Nat
  PROVE  Given(s, m) \in Seq(Byte) /\ Len(Given(s, m)) = m
  BY DEF Given, Byte

LEMMA FollowingTyped ==
  ASSUME NEW s \in Senders, NEW m \in Nat, NEW n \in Nat
  PROVE  Following(s, m, n) \in Seq(Byte) /\ Len(Following(s, m, n)) = n
  BY DEF Following, Byte

LEMMA GivenJoined ==
  ASSUME NEW s \in Senders, NEW m \in Nat, NEW n \in Nat
  PROVE  Given(s, m) \o Following(s, m, n) = Given(s, m + n)
<1>1. /\ Given(s, m) \in Seq(Byte) /\ Len(Given(s, m)) = m
      /\ Following(s, m, n) \in Seq(Byte) /\ Len(Following(s, m, n)) = n
      /\ Given(s, m + n) \in Seq(Byte) /\ Len(Given(s, m + n)) = m + n
  <2>1. m + n \in Nat
    OBVIOUS
  <2>2. QED
    BY <2>1, GivenTyped, FollowingTyped
<1>2. PICK x \in Seq(Byte), y \in Seq(Byte), z \in Seq(Byte) :
        x = Given(s, m) /\ y = Following(s, m, n) /\ z = Given(s, m + n)
  BY <1>1
<1>3. /\ x \o y \in Seq(Byte) /\ Len(x \o y) = m + n
      /\ \A i \in 1..m : (x \o y)[i] = x[i]
      /\ \A i \in 1..n : (x \o y)[m + i] = y[i]
  BY <1>1, <1>2
<1>4. ASSUME NEW i \in 1..m + n PROVE (x \o y)[i] = z[i]
  <2>1. z[i] = <<s, i>>
    BY <1>2 DEF Given
  <2>2. CASE i <= m
    <3>1. i \in 1..m /\ x[i] = <<s, i>>
      BY <1>2, <2>2 DEF Given
    <3>2. QED
      BY <1>3, <2>1, <3>1
  <2>3. CASE i > m
    <3>1. PICK k \in 1..n : i = m + k
      <4>1. i - m \in 1..n /\ i = m + (i - m)
        BY <2>3
      <4>2. QED
        BY <4>1
    <3>2. y[k] = <<s, m + k>>
      BY <1>2 DEF Following
    <3>3. QED
      BY <1>3, <2>1, <3>1, <3>2
  <2>4. i <= m \/ i > m
    OBVIOUS
  <2>5. QED
    BY <2>2, <2>3, <2>4, Zenon
<1>5. x \o y = z
  BY <1>1, <1>2, <1>3, <1>4, SeqEqual
<1>6. QED
  BY <1>2, <1>5

LEMMA SpaceIs ==
  ASSUME TypeInv, NEW s \in Senders
  PROVE  /\ Available(tx.head, reg[s].index) \in Int
         /\ FreeSpace(tx.head, reg[s].index) = N - 1 - Available(tx.head, reg[s].index)
         /\ FreeSpace(tx.head, tx.tail) \in Int /\ FreeSpace(tx.head, tx.tail) = N - 1 - Used(tx)
         /\ Used(tx) \in Int /\ reg[s].n \in Int
<1>1. tx \in Ring(Byte) /\ reg[s].index \in Index /\ reg[s].n \in Nat
  BY DataTyped, SenderTyped
<1>2. tx.head \in Index /\ tx.tail \in Index /\ Used(tx) \in Nat
  BY <1>1, RingIs
<1>3. /\ Available(tx.head, reg[s].index) \in 0..N-1
      /\ FreeSpace(tx.head, reg[s].index) = N - 1 - Available(tx.head, reg[s].index)
  BY <1>1, <1>2, AvailableIs
<1>4. FreeSpace(tx.head, tx.tail) \in 0..N-1 /\ FreeSpace(tx.head, tx.tail) = N - 1 - Used(tx)
  BY <1>2, AvailableIs DEF Used
<1>5. QED
  BY <1>1, <1>2, <1>3, <1>4

LEMMA InitSend == Init => SendInv
<1> SUFFICES ASSUME Init PROVE SendInv
  OBVIOUS
<1>1. TypeInv
  BY InitTypes
<1>2. ASSUME NEW s \in Senders PROVE Sent(s)
  <2>1. pc[s] = "idle" /\ put[s] = 0
    BY DEF Init, Tasks
  <2>2. Given(s, 0) = <<>>
    <3>1. Given(s, 0) \in Seq(Byte) /\ Len(Given(s, 0)) = 0
      BY GivenTyped
    <3>2. QED
      BY <3>1, EmptySeq
  <2>3. Flows(wire, tx, Given(s, put[s]))
    BY <2>1, <2>2, EmptyTyped DEF Init
  <2>4. Writing(pc[s], reg[s], put[s], tx, s)
    BY <2>1 DEF Writing
  <2>5. QED
    BY <2>3, <2>4 DEF Sent
<1>3. QED
  BY <1>1, <1>2 DEF SendInv

LEMMA IsrSent ==
  ASSUME TypeInv, ~echo, NEW s \in Senders, Sent(s), Usart2Isr
  PROVE  Sent(s)'
<1>1. UNCHANGED <<pc, reg, put>> /\ Echoed = tx
  BY DEF Usart2Isr, Echoed
<1>2. CASE ~txe \/ Empty(tx)
  <2>1. tx' = tx /\ wire' = wire
    BY <1>1, <1>2 DEF Usart2Isr, HandleTxEmpty
  <2>2. QED
    BY <1>1, <2>1 DEF Sent
<1>3. CASE txe /\ ~Empty(tx)
  <2>1. tx' = Pop(tx) /\ wire' = Append(wire, First(tx))
    BY <1>1, <1>3 DEF Usart2Isr, HandleTxEmpty
  <2>2. Given(s, put[s]) \in Seq(Byte)
    BY GivenTyped, SenderTyped
  <2>3. Flows(wire', tx', Given(s, put[s]))
    BY <1>3, <2>1, <2>2, DataTyped, FlowsPop DEF Sent
  <2>4. /\ tx'.head = tx.head /\ tx'.buf = tx.buf /\ Used(tx') = Used(tx) - 1
        /\ tx' \in Ring(Byte)
    BY <1>3, <2>1, <2>2, DataTyped, FirstIs DEF Sent, Flows
  <2>5. FreeSpace(tx'.head, tx'.tail) = FreeSpace(tx.head, tx.tail) + 1
    <3>1. /\ FreeSpace(tx'.head, tx'.tail) = N - 1 - Used(tx')
          /\ FreeSpace(tx.head, tx.tail) = N - 1 - Used(tx)
      BY <2>4, DataTyped, RingIs, AvailableIs DEF Used
    <3>2. QED
      BY <2>4, <3>1, DataTyped
  <2>6. Writing(pc'[s], reg'[s], put'[s], tx', s)
    <3>1. Writing(pc[s], reg[s], put[s], tx, s)
      BY DEF Sent
    <3>2. Available(tx.head, reg[s].index) \in Int /\ FreeSpace(tx.head, tx.tail) \in Int
          /\ reg[s].n \in Int /\ Used(tx) \in Int
      BY SpaceIs
    <3>3. PICK a \in Int, f \in Int, n \in Int, u \in Int :
            /\ a = Available(tx.head, reg[s].index) /\ f = FreeSpace(tx.head, tx.tail)
            /\ n = reg[s].n /\ u = Used(tx)
      BY <3>2
    <3>4. pc[s] = "space" => u - 1 <= a
      BY <3>1, <3>3 DEF Writing
    <3>5. pc[s] \in {"copy", "loadHead", "storeHead"} => n <= f + 1
      BY <3>1, <3>3 DEF Writing
    <3>6. pc[s] \in {"loadHead", "storeHead"} => Staged(tx', Following(s, put[s], n), n)
      BY <2>4, <3>1, <3>3 DEF Writing, Staged
    <3>7. QED
      BY <1>1, <2>4, <2>5, <3>1, <3>3, <3>4, <3>5, <3>6 DEF Writing
  <2>7. QED
    BY <1>1, <2>3, <2>6 DEF Sent
<1>4. QED
  BY <1>2, <1>3

\* Steps of the sender that leave tx, or its bytes, as they are.
LEMMA SendSent ==
  ASSUME TypeInv, NEW s \in Senders, Sent(s), Send(s) PROVE Sent(s)'
<1>1. UNCHANGED <<wire, tx, put>> /\ pc'[s] = "full"
  BY SenderTyped DEF Send, Goto, TypeInv, TaskInv
<1>2. QED
  BY <1>1 DEF Sent, Writing

LEMMA TxNotFullSent ==
  ASSUME TypeInv, NEW s \in Senders, Sent(s), TxNotFull(s) PROVE Sent(s)'
<1>1. UNCHANGED <<wire, tx, put>> /\ pc'[s] = "empty"
  BY SenderTyped DEF TxNotFull, Goto, TypeInv, TaskInv
<1>2. QED
  BY <1>1 DEF Sent, Writing

LEMMA TxEmptySent ==
  ASSUME TypeInv, NEW s \in Senders, Sent(s), TxEmpty(s) PROVE Sent(s)'
<1>1. UNCHANGED <<wire, tx, put>> /\ pc'[s] = "tail"
  BY SenderTyped DEF TxEmpty, Goto, TypeInv, TaskInv
<1>2. QED
  BY <1>1 DEF Sent, Writing

LEMMA LoadTxTailSent ==
  ASSUME TypeInv, NEW s \in Senders, Sent(s), LoadTxTail(s) PROVE Sent(s)'
<1>1. UNCHANGED <<wire, tx, put>> /\ pc'[s] = "space" /\ reg'[s].index = tx.tail
  BY SenderTyped DEF LoadTxTail, Goto, TypeInv, TaskInv, Reg
<1>2. Used(tx) <= Available(tx.head, reg'[s].index)
  BY <1>1, DataTyped DEF Used
<1>3. QED
  BY <1>1, <1>2 DEF Sent, Writing

LEMMA TxSpaceSent ==
  ASSUME TypeInv, NEW s \in Senders, Sent(s), TxSpace(s) PROVE Sent(s)'
<1>1. UNCHANGED <<wire, tx, put>> /\ pc[s] = "space" /\ pc'[s] = "copy"
  BY SenderTyped DEF TxSpace, Goto, TypeInv, TaskInv
<1>2. reg'[s].n = Least(reg[s].left, FreeSpace(tx.head, reg[s].index))
  BY SenderTyped DEF TxSpace, TypeInv, TaskInv, Reg
<1>3. reg'[s].n <= FreeSpace(tx.head, tx.tail)
  <2>1. Used(tx) <= Available(tx.head, reg[s].index)
    BY <1>1 DEF Sent, Writing
  <2>2. /\ FreeSpace(tx.head, reg[s].index) = N - 1 - Available(tx.head, reg[s].index)
        /\ Available(tx.head, reg[s].index) \in Int
        /\ FreeSpace(tx.head, tx.tail) = N - 1 - Used(tx) /\ Used(tx) \in Int
    BY SpaceIs
  <2>3. reg[s].left \in Int
    BY SenderTyped
  <2>4. QED
    BY <1>2, <2>1, <2>2, <2>3 DEF Least
<1>4. QED
  BY <1>1, <1>3 DEF Sent, Writing

LEMMA CopyInSent ==
  ASSUME TypeInv, NEW s \in Senders, Sent(s), CopyIn(s) PROVE Sent(s)'
<1> DEFINE n == reg[s].n
           f == Following(s, put[s], n)
<1>1. /\ UNCHANGED <<wire, put, reg>> /\ pc[s] = "copy" /\ pc'[s] = "loadHead"
      /\ tx' = [tx EXCEPT !.buf = CopyToCirc(tx.buf, tx.head, f)]
  BY SenderTyped DEF CopyIn, Goto, TypeInv, TaskInv, Following
<1>2. f \in Seq(Byte) /\ Len(f) = n /\ n <= FreeSpace(tx.head, tx.tail)
  <2>1. put[s] \in Nat /\ n \in Nat
    BY SenderTyped
  <2>2. f \in Seq(Byte) /\ Len(f) = n
    BY <2>1, FollowingTyped
  <2>3. n <= FreeSpace(tx.head, tx.tail)
    BY <1>1 DEF Sent, Writing
  <2>4. QED
    BY <2>2, <2>3
<1> HIDE DEF f, n
<1>3. /\ tx'.head = tx.head /\ tx'.tail = tx.tail /\ Used(tx') = Used(tx)
      /\ \A i \in 1..Used(tx) : tx'.buf[Cell(tx.tail, i)] = tx.buf[Cell(tx.tail, i)]
      /\ Staged(tx', f, n)
  <2>1. /\ tx'.head = tx.head /\ tx'.tail = tx.tail
        /\ tx'.buf = CopyToCirc(tx.buf, tx.head, f)
    BY <1>1, DataTyped DEF Ring
  <2>2. tx \in Ring(Byte) /\ f \in Seq(Byte) /\ Len(f) <= FreeSpace(tx.head, tx.tail)
    BY <1>2, DataTyped
  <2>3. /\ Used(tx') = Used(tx)
        /\ \A i \in 1..Used(tx) : tx'.buf[Cell(tx.tail, i)] = tx.buf[Cell(tx.tail, i)]
        /\ Staged(tx', f, Len(f))
    BY <2>1, <2>2, CopiedIn
  <2>4. QED
    BY <1>2, <2>1, <2>3
<1>4. Flows(wire, tx', Given(s, put[s]))
  BY <1>3, HoldsAlike DEF Sent, Flows
<1>5. Writing(pc'[s], reg'[s], put'[s], tx', s)
  BY <1>1, <1>2, <1>3 DEF Writing, f, n
<1>6. QED
  BY <1>1, <1>4, <1>5 DEF Sent

LEMMA LoadTxHeadSent ==
  ASSUME TypeInv, NEW s \in Senders, Sent(s), LoadTxHead(s) PROVE Sent(s)'
<1>1. UNCHANGED <<wire, tx, put>> /\ pc[s] = "loadHead" /\ pc'[s] = "storeHead"
  BY SenderTyped DEF LoadTxHead, Goto, TypeInv, TaskInv
<1>2. reg'[s].index = tx.head /\ reg'[s].n = reg[s].n
  BY SenderTyped DEF LoadTxHead, TypeInv, TaskInv, Reg
<1>3. QED
  BY <1>1, <1>2 DEF Sent, Writing

LEMMA StoreTxHeadSent ==
  ASSUME TypeInv, NEW s \in Senders, Sent(s), StoreTxHead(s) PROVE Sent(s)'
<1> DEFINE n == reg[s].n
           f == Following(s, put[s], n)
           g == Given(s, put[s])
<1>1. /\ UNCHANGED <<wire, reg>> /\ pc[s] = "storeHead" /\ pc'[s] = "enable"
      /\ tx' = [tx EXCEPT !.head = (reg[s].index + n) % N]
      /\ put'[s] = put[s] + n
  BY SenderTyped DEF StoreTxHead, Goto, TypeInv, TaskInv
<1>2. reg[s].index = tx.head /\ n <= FreeSpace(tx.head, tx.tail) /\ Staged(tx, f, n)
  BY <1>1 DEF Sent, Writing
<1>3. /\ f \in Seq(Byte) /\ Len(f) = n /\ g \in Seq(Byte) /\ Len(g) = put[s]
      /\ g \o f = Given(s, put[s] + n) /\ put[s] \in Nat /\ n \in Nat
  <2>1. put[s] \in Nat /\ n \in Nat
    BY SenderTyped
  <2>2. g \in Seq(Byte) /\ Len(g) = put[s]
    BY <2>1, GivenTyped
  <2>3. f \in Seq(Byte) /\ Len(f) = n
    BY <2>1, FollowingTyped
  <2>4. g \o f = Given(s, put[s] + n)
    BY <2>1, GivenJoined
  <2>5. QED
    BY <2>1, <2>2, <2>3, <2>4
<1>4. Flows(wire, tx, g)
  BY DEF Sent
<1>5. Given(s, put[s] + n) = Given(s, put'[s])
  BY <1>1
<1> HIDE DEF f, g
<1>6. Holds(tx', g \o f, Len(wire))
  BY <1>1, <1>2, <1>3, <1>4, DataTyped, HoldsMore DEF Flows
<1>7. ASSUME NEW i \in 1..Len(wire) PROVE wire[i] = (g \o f)[i]
  <2>1. wire[i] = g[i] /\ Len(g) = Len(wire) + Used(tx)
    BY <1>4 DEF Flows, Holds
  <2>2. i \in 1..Len(g)
    BY <1>3, <2>1, DataTyped
  <2>3. QED
    BY <1>3, <2>1, <2>2
<1>8. Flows(wire, tx', g \o f)
  BY <1>6, <1>7 DEF Flows
<1>9. QED
  BY <1>1, <1>3, <1>5, <1>8 DEF Sent, Writing

LEMMA EnableSent ==
  ASSUME TypeInv, NEW s \in Senders, Sent(s), Enable(s) PROVE Sent(s)'
<1>1. UNCHANGED <<wire, tx, put>> /\ pc'[s] \in {"idle", "full"}
  BY SenderTyped DEF Enable, Goto, TypeInv, TaskInv
<1>2. QED
  BY <1>1 DEF Sent, Writing

\* What a step of a receiver does to the tasks' counters and locals.
LEMMA ReceiverLocals ==
  ASSUME TypeInv, NEW t \in Receivers, Recv(t) \/ RecvStep(t)
  PROVE  /\ UNCHANGED <<echo, tx, dr, put, arrived, kept, wire>>
         /\ \A s \in Senders : pc'[s] = pc[s] /\ reg'[s] = reg[s]
<1>1. \E q : pc' = [pc EXCEPT ![t] = q]
  BY DEF Recv, RecvStep, RxNotEmpty, LoadRxHead, RxAvailable, CopyOut, LoadRxTail,
         StoreRxTail, Goto
<1>2. \E r : reg' = [reg EXCEPT ![t] = r]
  <2>1. reg = [reg EXCEPT ![t] = reg[t]]
    BY DEF TypeInv, TaskInv
  <2>2. QED
    BY <2>1 DEF Recv, RecvStep, RxNotEmpty, LoadRxHead, RxAvailable, CopyOut, LoadRxTail,
                StoreRxTail
<1>3. UNCHANGED <<echo, tx, dr, put, arrived, kept, wire>>
  BY DEF Recv, RecvStep, RxNotEmpty, LoadRxHead, RxAvailable, CopyOut, LoadRxTail, StoreRxTail
<1>4. ASSUME NEW s \in Senders PROVE pc'[s] = pc[s] /\ reg'[s] = reg[s]
  <2>1. s # t /\ s \in Tasks
    BY DEF Tasks
  <2>2. QED
    BY <1>1, <1>2, <2>1 DEF TypeInv, TaskInv
<1>5. QED
  BY <1>3, <1>4

LEMMA EchoStays == [Next]_vars => echo' = echo
<1>1. ASSUME NEW s \in Senders, Send(s) \/ SendStep(s) PROVE echo' = echo
  BY <1>1 DEF Send, SendStep, TxNotFull, TxEmpty, LoadTxTail, TxSpace, CopyIn, LoadTxHead,
              StoreTxHead, Enable
<1>2. ASSUME NEW t \in Receivers, Recv(t) \/ RecvStep(t) PROVE echo' = echo
  BY <1>2 DEF Recv, RecvStep, RxNotEmpty, LoadRxHead, RxAvailable, CopyOut, LoadRxTail,
              StoreRxTail
<1>3. QED
  BY <1>1, <1>2 DEF Next, vars, Arrive, ShiftedOut, Usart2Isr

LEMMA NextSend ==
  ASSUME OneSends
  PROVE  SendInv /\ [Next]_vars => SendInv'
<1> SUFFICES ASSUME SendInv, [Next]_vars PROVE SendInv'
  OBVIOUS
<1>1. TypeInv /\ TypeInv' /\ echo' = echo
  BY NextTypes, EchoStays DEF SendInv
<1>2. ASSUME ~echo, NEW s \in Senders PROVE Sent(s)'
  <2>1. Sent(s)
    BY <1>2 DEF SendInv
  <2>2. CASE UNCHANGED vars
    BY <2>1, <2>2 DEF vars, Sent
  <2>3. CASE Arrive \/ ShiftedOut
    BY <2>1, <2>3 DEF Arrive, ShiftedOut, Sent
  <2>4. CASE Usart2Isr
    BY <1>1, <1>2, <2>1, <2>4, IsrSent
  <2>5. ASSUME NEW u \in Senders, Send(u) \/ SendStep(u) PROVE Sent(s)'
    <3>1. u = s
      BY DEF OneSends
    <3>2. QED
      BY <1>1, <2>1, <2>5, <3>1, SendSent, TxNotFullSent, TxEmptySent, LoadTxTailSent,
         TxSpaceSent, CopyInSent, LoadTxHeadSent, StoreTxHeadSent, EnableSent DEF SendStep
  <2>6. ASSUME NEW t \in Receivers, Recv(t) \/ RecvStep(t) PROVE Sent(s)'
    BY <1>1, <2>1, <2>6, ReceiverLocals DEF Sent
  <2>7. QED
    BY <2>2, <2>3, <2>4, <2>5, <2>6 DEF Next
<1>3. QED
  BY <1>1, <1>2 DEF SendInv

LEMMA SendInvSends == SendInv => SentOnce
<1> SUFFICES ASSUME SendInv, ~echo, NEW s \in Senders
             PROVE  Out = [k \in 1..put[s] |-> <<s, k>>]
  BY DEF SentOnce
<1>1. Flows(wire, tx, Given(s, put[s]))
  BY DEF SendInv, Sent
<1>2. wire \o Contents(tx) = Given(s, put[s])
  BY <1>1, DataTyped, GivenTyped, SenderTyped, FlowsJoined DEF SendInv
<1>3. QED
  BY <1>2 DEF Out, Given

\* With at most one task that sends, and without echo, every byte handed over
\* goes out, or waits to, exactly once and in its order, whatever the handler
\* takes out of tx between the sender's accesses, for calls of any length.
THEOREM SendsInOrder ==
  ASSUME \A s, u \in Senders : s = u
  PROVE  Spec => []SentOnce
<1>1. Init => SendInv
  BY InitSend
<1>2. SendInv /\ [Next]_vars => SendInv'
  BY NextSend DEF OneSends
<1>3. SendInv => SentOnce
  BY SendInvSends
<1>4. QED
  BY <1>1, <1>2, <1>3, PTL DEF Spec

-----------------------------------------------------------------------------
(***************************************************************************)
(* Echoes. As long as no task has sent, what went into tx are bytes that   *)
(* were kept, in order of arrival: the byte the handler fetches arrived    *)
(* after every byte it kept before.                                        *)
(***************************************************************************)
Numbered ==
  /\ dr # NoByte => dr = <<Line, arrived>>
  /\ \A j \in 1..Len(kept) : /\ kept[j][2] \in Nat /\ kept[j][2] <= arrived
                             /\ dr # NoByte => kept[j][2] < arrived

Echoes(e, k) ==
  /\ \A i \in 1..Len(e) : \E j \in 1..Len(k) : k[j] = e[i]
  /\ \A i, j \in 1..Len(e) : i < j => e[i][2] < e[j][2]

Echoing(e) == e \in Seq(Byte) /\ Flows(wire, tx, e) /\ Echoes(e, kept)

EchoInv == TypeInv /\ Numbered /\ (Quiet => \E e : Echoing(e))

LEMMA InitEcho == Init => EchoInv
<1> SUFFICES ASSUME Init PROVE EchoInv
  OBVIOUS
<1>1. TypeInv
  BY InitTypes
<1>2. Numbered
  BY DEF Numbered, Init
<1>3. Echoing(<<>>)
  BY EmptyTyped DEF Echoing, Echoes, Init
<1>4. QED
  BY <1>1, <1>2, <1>3 DEF EchoInv

LEMMA ArriveEcho == ASSUME EchoInv, Arrive PROVE Numbered' /\ (Quiet' => \E e : Echoing(e)')
<1>1. /\ UNCHANGED <<wire, tx, kept, pc, put>> /\ dr = NoByte
      /\ dr' = <<Line, arrived + 1>> /\ arrived' = arrived + 1 /\ arrived \in Nat
  BY DataTyped DEF Arrive, EchoInv
<1>2. \A j \in 1..Len(kept) : kept[j][2] \in Nat /\ kept[j][2] <= arrived
  BY DEF EchoInv, Numbered
<1>3. Numbered'
  BY <1>1, <1>2 DEF Numbered
<1>4. Quiet' => Quiet
  BY <1>1 DEF Quiet
<1>5. ASSUME NEW e, Echoing(e) PROVE Echoing(e)'
  BY <1>1, <1>5 DEF Echoing
<1>6. QED
  BY <1>3, <1>4, <1>5 DEF EchoInv

\* The byte fetched goes behind the others.
LEMMA EchoesMore ==
  ASSUME TypeInv, Numbered, Accepted, NEW e \in Seq(Byte), Echoes(e, kept)
  PROVE  Echoes(e, Append(kept, dr)) /\ Echoes(Append(e, dr), Append(kept, dr))
<1>1. /\ dr = <<Line, arrived>> /\ dr[2] = arrived /\ dr \in Byte
      /\ \A j \in 1..Len(kept) : kept[j][2] \in Nat /\ kept[j][2] < arrived
  <2>1. dr # NoByte /\ dr \in Byte
    BY EchoedTyped DEF Accepted
  <2>2. QED
    BY <2>1 DEF Numbered
<1>2. /\ Len(kept) \in Nat /\ Len(e) \in Nat
      /\ Len(Append(kept, dr)) = Len(kept) + 1 /\ Len(Append(e, dr)) = Len(e) + 1
  BY <1>1, DataTyped
<1>3. /\ \A j \in 1..Len(kept) : Append(kept, dr)[j] = kept[j]
      /\ Append(kept, dr)[Len(kept) + 1] = dr
  BY <1>1, DataTyped
<1>4. /\ \A i \in 1..Len(e) : Append(e, dr)[i] = e[i]
      /\ Append(e, dr)[Len(e) + 1] = dr
  BY <1>1
<1>5. PICK k, f : k = Append(kept, dr) /\ f = Append(e, dr)
  OBVIOUS
<1>6. ASSUME NEW i \in 1..Len(e) PROVE \E j \in 1..Len(k) : k[j] = e[i]
  <2>1. PICK j \in 1..Len(kept) : kept[j] = e[i]
    BY DEF Echoes
  <2>2. j \in 1..Len(k) /\ k[j] = e[i]
    BY <1>2, <1>3, <1>5, <2>1
  <2>3. QED
    BY <2>2
<1>7. Echoes(e, k)
  BY <1>6 DEF Echoes
<1>8. ASSUME NEW i \in 1..Len(f) PROVE \E j \in 1..Len(k) : k[j] = f[i]
  <2>1. CASE i <= Len(e)
    <3>1. i \in 1..Len(e) /\ f[i] = e[i]
      BY <1>2, <1>4, <1>5, <2>1
    <3>2. QED
      BY <1>6, <3>1
  <2>2. CASE i = Len(e) + 1
    <3>1. f[i] = dr /\ k[Len(kept) + 1] = dr /\ Len(kept) + 1 \in 1..Len(k)
      BY <1>2, <1>3, <1>4, <1>5, <2>2
    <3>2. QED
      BY <3>1
  <2>3. i <= Len(e) \/ i = Len(e) + 1
    BY <1>2, <1>5
  <2>4. QED
    BY <2>1, <2>2, <2>3, Zenon
<1>9. ASSUME NEW i \in 1..Len(f), NEW j \in 1..Len(f), i < j PROVE f[i][2] < f[j][2]
  <2>1. i \in 1..Len(e) /\ f[i] = e[i]
    BY <1>2, <1>4, <1>5, <1>9
  <2>2. CASE j <= Len(e)
    <3>1. j \in 1..Len(e) /\ f[j] = e[j]
      BY <1>2, <1>4, <1>5, <2>2
    <3>2. QED
      BY <1>9, <2>1, <3>1 DEF Echoes
  <2>3. CASE j = Len(e) + 1
    <3>1. PICK m \in 1..Len(kept) : kept[m] = e[i]
      BY <2>1 DEF Echoes
    <3>2. f[j] = dr
      BY <1>4, <1>5, <2>3
    <3>3. QED
      BY <1>1, <2>1, <3>1, <3>2
  <2>4. j <= Len(e) \/ j = Len(e) + 1
    BY <1>2, <1>5
  <2>5. QED
    BY <2>2, <2>3, <2>4, Zenon
<1>10. Echoes(f, k)
  BY <1>8, <1>9 DEF Echoes
<1>11. QED
  BY <1>5, <1>7, <1>10

\* What the handler has put into tx before it looks for a byte to send.
LEMMA HandlerEchoes ==
  ASSUME TypeInv, Numbered, Usart2Isr, NEW e, Echoing(e)
  PROVE  \E f \in Seq(Byte) : Flows(wire, Echoed, f) /\ Echoes(f, kept')
<1>1. e \in Seq(Byte) /\ Flows(wire, tx, e) /\ Echoes(e, kept)
  BY DEF Echoing
<1>2. CASE ~Accepted
  BY <1>1, <1>2 DEF Echoed, Usart2Isr
<1>3. CASE Accepted
  <2>1. /\ Echoes(e, Append(kept, dr)) /\ Echoes(Append(e, dr), Append(kept, dr))
        /\ kept' = Append(kept, dr) /\ dr \in Byte
    BY <1>1, <1>3, EchoesMore, EchoedTyped DEF Usart2Isr, Accepted
  <2>2. CASE ~echo \/ Full(tx)
    <3>1. Echoed = tx
      BY <2>2 DEF Echoed, Put
    <3>2. QED
      BY <1>1, <2>1, <3>1
  <2>3. CASE echo /\ ~Full(tx)
    <3>1. Echoed = Put(tx, dr)
      BY <1>3, <2>3 DEF Echoed
    <3>2. Flows(wire, Put(tx, dr), Append(e, dr)) /\ Append(e, dr) \in Seq(Byte)
      BY <1>1, <2>1, <2>3, DataTyped, FlowsPut
    <3>3. QED
      BY <2>1, <3>1, <3>2
  <2>4. QED
    BY <2>2, <2>3
<1>4. QED
  BY <1>2, <1>3

LEMMA IsrEcho == ASSUME EchoInv, Usart2Isr PROVE Numbered' /\ (Quiet' => \E e : Echoing(e)')
<1>1. TypeInv /\ Numbered /\ UNCHANGED <<pc, put, arrived>> /\ dr' = NoByte
  BY DEF EchoInv, Usart2Isr
<1>2. Numbered'
  <2>1. CASE ~Accepted
    BY <1>1, <2>1 DEF Numbered, Usart2Isr
  <2>2. CASE Accepted
    <3>1. kept' = Append(kept, dr) /\ dr \in Byte /\ dr = <<Line, arrived>> /\ arrived \in Nat
      BY <1>1, <2>2, EchoedTyped, DataTyped DEF Accepted, Numbered, Usart2Isr
    <3>2. Len(kept') = Len(kept) + 1 /\ Len(kept) \in Nat /\ kept'[Len(kept) + 1] = dr
          /\ \A j \in 1..Len(kept) : kept'[j] = kept[j]
      BY <1>1, <3>1, DataTyped
    <3>3. ASSUME NEW j \in 1..Len(kept') PROVE kept'[j][2] \in Nat /\ kept'[j][2] <= arrived
      <4>1. CASE j \in 1..Len(kept)
        BY <1>1, <3>2, <4>1 DEF Numbered
      <4>2. CASE j = Len(kept) + 1
        BY <3>1, <3>2, <4>2
      <4>3. QED
        BY <3>2, <4>1, <4>2
    <3>4. QED
      BY <1>1, <3>3 DEF Numbered
  <2>3. QED
    BY <2>1, <2>2
<1>3. ASSUME Quiet' PROVE \E e : Echoing(e)'
  <2>1. PICK e : Echoing(e)
    BY <1>1, <1>3 DEF EchoInv, Quiet
  <2>2. PICK f \in Seq(Byte) : Flows(wire, Echoed, f) /\ Echoes(f, kept')
    BY <1>1, <2>1, HandlerEchoes
  <2>3. Flows(wire', tx', f)
    <3>1. CASE ~txe \/ Empty(Echoed)
      BY <2>2, <3>1 DEF Usart2Isr, HandleTxEmpty
    <3>2. CASE txe /\ ~Empty(Echoed)
      <4>1. tx' = Pop(Echoed) /\ wire' = Append(wire, First(Echoed))
        BY <3>2 DEF Usart2Isr, HandleTxEmpty
      <4>2. PICK b \in Ring(Byte), w \in Seq(Cells) : b = Echoed /\ w = wire
        BY <1>1, EchoedTyped, DataTyped
      <4>3. Flows(w, b, f) /\ ~Empty(b)
        BY <2>2, <3>2, <4>2
      <4>4. Flows(Append(w, First(b)), Pop(b), f)
        BY <4>3, FlowsPop
      <4>5. QED
        BY <4>1, <4>2, <4>4
    <3>3. QED
      BY <3>1, <3>2
  <2>4. Echoing(f)'
    BY <2>2, <2>3 DEF Echoing
  <2>5. QED
    BY <2>4
<1>4. QED
  BY <1>2, <1>3

\* A sender that has begun is not done before it has handed a byte over.
LEMMA SenderLoud ==
  ASSUME TypeInv, NEW s \in Senders, Send(s) \/ SendStep(s)
  PROVE  ~Quiet' /\ UNCHANGED <<dr, arrived, kept>>
<1>1. UNCHANGED <<dr, arrived, kept>>
  BY DEF Send, SendStep, TxNotFull, TxEmpty, LoadTxTail, TxSpace, CopyIn, LoadTxHead,
         StoreTxHead, Enable
<1>2. CASE Enable(s)
  <2>1. /\ pc[s] = "enable" /\ UNCHANGED put /\ reg[s].left \in Nat /\ reg[s].n \in Nat
        /\ pc'[s] = IF reg[s].left = reg[s].n THEN "idle" ELSE "full"
        /\ put[s] \in Nat /\ SendOK(pc[s], reg[s], put[s])
    BY <1>2, SenderTyped DEF Enable, Goto, TypeInv, TaskInv
  <2>2. reg[s].left >= 1 /\ reg[s].n <= put[s]
    BY <2>1 DEF SendOK
  <2>3. pc'[s] # "idle" \/ put'[s] # 0
    BY <2>1, <2>2
  <2>4. QED
    BY <1>1, <2>3 DEF Quiet
<1>3. CASE ~Enable(s)
  <2>1. pc'[s] # "idle"
    BY <1>3, SenderTyped
       DEF Send, SendStep, TxNotFull, TxEmpty, LoadTxTail, TxSpace, CopyIn, LoadTxHead,
           StoreTxHead, Goto, TypeInv, TaskInv
  <2>2. QED
    BY <1>1, <2>1 DEF Quiet
<1>4. QED
  BY <1>2, <1>3

LEMMA NextEcho == EchoInv /\ [Next]_vars => EchoInv'
<1> SUFFICES ASSUME EchoInv, [Next]_vars PROVE EchoInv'
  OBVIOUS
<1>1. TypeInv /\ TypeInv'
  BY NextTypes DEF EchoInv
<1>2. ASSUME UNCHANGED <<wire, tx, dr, arrived, kept, put>>,
             \A s \in Senders : pc'[s] = pc[s]
      PROVE  Numbered' /\ (Quiet' => \E e : Echoing(e)')
  <2>1. Numbered'
    BY <1>2 DEF EchoInv, Numbered
  <2>2. Quiet' => Quiet
    BY <1>2 DEF Quiet
  <2>3. ASSUME NEW e, Echoing(e) PROVE Echoing(e)'
    BY <1>2, <2>3 DEF Echoing
  <2>4. QED
    BY <2>1, <2>2, <2>3 DEF EchoInv
<1>3. Numbered' /\ (Quiet' => \E e : Echoing(e)')
  <2>1. CASE UNCHANGED vars \/ ShiftedOut
    BY <1>2, <2>1 DEF vars, ShiftedOut
  <2>2. CASE Arrive
    BY <2>2, ArriveEcho
  <2>3. CASE Usart2Isr
    BY <2>3, IsrEcho
  <2>4. ASSUME NEW s \in Senders, Send(s) \/ SendStep(s)
        PROVE  Numbered' /\ (Quiet' => \E e : Echoing(e)')
    <3>1. ~Quiet' /\ UNCHANGED <<dr, arrived, kept>>
      BY <1>1, <2>4, SenderLoud
    <3>2. Numbered'
      BY <3>1 DEF EchoInv, Numbered
    <3>3. QED
      BY <3>1, <3>2
  <2>5. ASSUME NEW t \in Receivers, Recv(t) \/ RecvStep(t)
        PROVE  Numbered' /\ (Quiet' => \E e : Echoing(e)')
    <3>1. /\ UNCHANGED <<wire, tx, dr, arrived, kept, put>>
          /\ \A s \in Senders : pc'[s] = pc[s]
      BY <1>1, <2>5, ReceiverLocals
    <3>2. QED
      BY <1>2, <3>1
  <2>6. QED
    BY <2>1, <2>2, <2>3, <2>4, <2>5 DEF Next
<1>4. QED
  BY <1>1, <1>3 DEF EchoInv

LEMMA EchoInvEchoes == EchoInv => EchoedInOrder
<1> SUFFICES ASSUME EchoInv, Quiet
             PROVE  /\ \A i \in DOMAIN Out : \E j \in DOMAIN kept : kept[j] = Out[i]
                    /\ \A i, j \in DOMAIN Out : i < j => Out[i][2] < Out[j][2]
  BY DEF EchoedInOrder
<1>1. PICK e : e \in Seq(Byte) /\ Flows(wire, tx, e) /\ Echoes(e, kept)
  BY DEF EchoInv, Echoing
<1>2. Out = e
  BY <1>1, DataTyped, FlowsJoined DEF Out, EchoInv
<1>3. DOMAIN Out = 1..Len(e) /\ DOMAIN kept = 1..Len(kept)
  BY <1>1, <1>2, DataTyped DEF EchoInv
<1>4. QED
  BY <1>1, <1>2, <1>3 DEF Echoes

\* Until a task sends, what goes out are bytes that were kept, none twice and
\* in the order they came, whichever of them tx had no room for.
THEOREM EchoesInOrder == Spec => []EchoedInOrder
<1>1. Init => EchoInv
  BY InitEcho
<1>2. EchoInv /\ [Next]_vars => EchoInv'
  BY NextEcho
<1>3. EchoInv => EchoedInOrder
  BY EchoInvEchoes
<1>4. QED
  BY <1>1, <1>2, <1>3, PTL DEF Spec
=============================================================================
