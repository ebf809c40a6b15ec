-------------------------------- MODULE Uart --------------------------------
(***************************************************************************)
(* The serial port: tasks that send and receive, the interrupt handler,    *)
(* and the two ring buffers between them.                                  *)
(*                                                                         *)
(* The handler runs to its end before any task goes on, and so is one      *)
(* step. A task may be interrupted or switched out between any two of its  *)
(* loads and stores of head, tail and the cells; it takes one step for     *)
(* each that another party can disturb or notice. A byte is named by where *)
(* it comes from and its number there. One that the hardware loses to an   *)
(* overrun is a byte that never arrived.                                   *)
(***************************************************************************)
EXTENDS CircBuffer, FiniteSets

CONSTANTS
  Senders, Receivers,  \* the tasks that call send, and recv
  Line,                \* the other end of the wire, as the source of a byte
  MaxLen,              \* bound on the length of one call
  MaxSent,             \* bound on the bytes a task sends
  MaxArrived           \* bound on the bytes that arrive

ASSUME TasksAssumption == Senders \intersect Receivers = {} /\ Line \notin Senders
ASSUME BoundsAssumption == MaxLen \in Nat /\ MaxSent \in Nat /\ MaxArrived \in Nat

VARIABLES
  echo,     \* UART::echo, which the program may set before it uses the port
  rx, tx,   \* the ring buffers
  txeie,    \* the transmit interrupt is enabled
  txe,      \* USART_SR_TXE: the data register is free
  dr,       \* the received byte the handler has not fetched yet
  pc, reg,  \* where each task is in a call, and its locals
  put,      \* number of bytes each sender has handed over
  arrived,  \* number of bytes that arrived
  kept,     \* the arrived bytes that rx had room for
  got,      \* the bytes recv has delivered
  wire,     \* the bytes transmitted
  missed    \* history: transmission was stopped behind a sender's back

vars == <<echo, rx, tx, txeie, txe, dr, pc, reg, put, arrived, kept, got, wire, missed>>

Tasks == Senders \union Receivers
Byte  == ({Line} \union Senders) \X Nat

\* Control points, each named for the access that comes next.
Sending   == {"full", "empty", "tail", "space", "copy", "loadHead", "storeHead", "enable"}
Receiving == {"wait", "head", "available", "take", "loadTail", "storeTail"}

\* left: bytes of the call still to move; n: bytes moved by this round;
\* index: a head or tail that was loaded; startTx: as in send.
NoReg == [left |-> 0, n |-> 0, index |-> 0, startTx |-> FALSE]

TypeOK ==
  /\ rx \in Ring(Byte) /\ tx \in Ring(Byte)
  /\ echo \in BOOLEAN /\ txeie \in BOOLEAN /\ txe \in BOOLEAN /\ missed \in BOOLEAN
  /\ dr \in Byte \union {NoByte}
  /\ pc \in [Tasks -> {"idle"} \union Sending \union Receiving]
  /\ reg \in [Tasks -> [left : 0..MaxLen, n : 0..MaxLen, index : Index, startTx : BOOLEAN]]
  /\ put \in [Senders -> 0..MaxSent] /\ arrived \in 0..MaxArrived
  /\ kept \in Seq(Byte)
  /\ got \in Seq(Byte \union {NoByte}) /\ wire \in Seq(Byte \union {NoByte})

\* UART::init: the receive interrupt is on for good, TXE is set, nothing sent.
Init ==
  /\ echo \in BOOLEAN
  /\ rx = EmptyBuffer /\ tx = EmptyBuffer
  /\ txeie = FALSE /\ txe = TRUE /\ dr = NoByte
  /\ pc = [t \in Tasks |-> "idle"] /\ reg = [t \in Tasks |-> NoReg]
  /\ put = [s \in Senders |-> 0] /\ arrived = 0
  /\ kept = <<>> /\ got = <<>> /\ wire = <<>>
  /\ missed = FALSE

-----------------------------------------------------------------------------
(***************************************************************************)
(* The hardware.                                                           *)
(***************************************************************************)
Arrive ==
  /\ arrived < MaxArrived /\ dr = NoByte
  /\ arrived' = arrived + 1
  /\ dr' = <<Line, arrived + 1>>
  /\ UNCHANGED <<echo, rx, tx, txeie, txe, pc, reg, put, kept, got, wire, missed>>

ShiftedOut ==
  /\ ~txe /\ txe' = TRUE
  /\ UNCHANGED <<echo, rx, tx, txeie, dr, pc, reg, put, arrived, kept, got, wire, missed>>

-----------------------------------------------------------------------------
(***************************************************************************)
(* usart2_isr: first a received byte, then, whenever TXE is set and even   *)
(* if its interrupt is off, a byte to send.                                *)
(***************************************************************************)
Accepted == dr # NoByte /\ ~Full(rx)

\* tx and the interrupt enable after handleRxNotEmpty.
Echoed == IF Accepted /\ echo THEN Put(tx, dr) ELSE tx
Enabled == txeie \/ (Accepted /\ echo)

\* A sender that found tx in use, and so will not enable the interrupt, has
\* not moved head yet.
Unstarted == \E s \in Senders :
  pc[s] \in {"tail", "space", "copy", "loadHead", "storeHead"} /\ ~reg[s].startTx

HandleTxEmpty ==
  IF Empty(Echoed)
  THEN /\ txeie' = FALSE /\ tx' = Echoed
       /\ missed' = (missed \/ Unstarted)
       /\ UNCHANGED <<txe, wire>>
  ELSE /\ txeie' = Enabled /\ tx' = Pop(Echoed)
       /\ wire' = Append(wire, First(Echoed))
       /\ txe' = FALSE
       /\ UNCHANGED missed

Usart2Isr ==
  /\ dr # NoByte \/ (txe /\ txeie)
  /\ rx' = IF dr # NoByte THEN Put(rx, dr) ELSE rx
  /\ kept' = IF Accepted THEN Append(kept, dr) ELSE kept
  /\ dr' = NoByte
  /\ IF txe
     THEN HandleTxEmpty
     ELSE tx' = Echoed /\ txeie' = Enabled /\ UNCHANGED <<txe, wire, missed>>
  /\ UNCHANGED <<echo, pc, reg, put, arrived, got>>

-----------------------------------------------------------------------------
(***************************************************************************)
(* Tasks. A yield in a waiting loop is a step not taken.                   *)
(***************************************************************************)
Goto(t, from, to) == pc[t] = from /\ pc' = [pc EXCEPT ![t] = to]

Least(x, y) == IF x < y THEN x ELSE y

Send(s) == \E len \in 1..MaxLen :
  /\ put[s] + len <= MaxSent
  /\ Goto(s, "idle", "full")
  /\ reg' = [reg EXCEPT ![s].left = len]
  /\ UNCHANGED <<echo, rx, tx, txeie, txe, dr, put, arrived, kept, got, wire, missed>>

\* full() is false.
TxNotFull(s) ==
  /\ Goto(s, "full", "empty")
  /\ ~Full(tx)
  /\ UNCHANGED <<echo, rx, tx, txeie, txe, dr, reg, put, arrived, kept, got, wire, missed>>

\* startTx = tx.empty()
TxEmpty(s) ==
  /\ Goto(s, "empty", "tail")
  /\ reg' = [reg EXCEPT ![s].startTx = Empty(tx)]
  /\ UNCHANGED <<echo, rx, tx, txeie, txe, dr, put, arrived, kept, got, wire, missed>>

\* freeSpace() loads tail, then head.
LoadTxTail(s) ==
  /\ Goto(s, "tail", "space")
  /\ reg' = [reg EXCEPT ![s].index = tx.tail]
  /\ UNCHANGED <<echo, rx, tx, txeie, txe, dr, put, arrived, kept, got, wire, missed>>

TxSpace(s) ==
  /\ Goto(s, "space", "copy")
  /\ reg' = [reg EXCEPT ![s].n = Least(reg[s].left, FreeSpace(tx.head, reg[s].index))]
  /\ UNCHANGED <<echo, rx, tx, txeie, txe, dr, put, arrived, kept, got, wire, missed>>

CopyIn(s) ==
  /\ Goto(s, "copy", "loadHead")
  /\ tx' = [tx EXCEPT !.buf =
             CopyToCirc(@, tx.head, [k \in 1..reg[s].n |-> <<s, put[s] + k>>])]
  /\ UNCHANGED <<echo, rx, txeie, txe, dr, reg, put, arrived, kept, got, wire, missed>>

\* head = (head + toWrite) & MASK
LoadTxHead(s) ==
  /\ Goto(s, "loadHead", "storeHead")
  /\ reg' = [reg EXCEPT ![s].index = tx.head]
  /\ UNCHANGED <<echo, rx, tx, txeie, txe, dr, put, arrived, kept, got, wire, missed>>

\* Variant: head is not masked.
StoreTxHeadUnmasked(s) ==
  /\ Goto(s, "storeHead", "enable")
  /\ tx' = [tx EXCEPT !.head = reg[s].index + reg[s].n]
  /\ put' = [put EXCEPT ![s] = @ + reg[s].n]
  /\ UNCHANGED <<echo, rx, txeie, txe, dr, reg, arrived, kept, got, wire, missed>>

StoreTxHead(s) ==
  /\ Goto(s, "storeHead", "enable")
  /\ tx' = [tx EXCEPT !.head = (reg[s].index + reg[s].n) % N]
  /\ put' = [put EXCEPT ![s] = @ + reg[s].n]
  /\ UNCHANGED <<echo, rx, txeie, txe, dr, reg, arrived, kept, got, wire, missed>>

\* Variant: the transmit interrupt is not enabled.
EnableForgotten(s) ==
  /\ Goto(s, "enable", IF reg[s].left = reg[s].n THEN "idle" ELSE "full")
  /\ reg' = [reg EXCEPT ![s] = [NoReg EXCEPT !.left = reg[s].left - reg[s].n]]
  /\ UNCHANGED <<echo, rx, tx, txeie, txe, dr, put, arrived, kept, got, wire, missed>>

\* if (startTx) enable, and around the loop.
Enable(s) ==
  /\ Goto(s, "enable", IF reg[s].left = reg[s].n THEN "idle" ELSE "full")
  /\ txeie' = (txeie \/ reg[s].startTx)
  /\ reg' = [reg EXCEPT ![s] = [NoReg EXCEPT !.left = reg[s].left - reg[s].n]]
  /\ UNCHANGED <<echo, rx, tx, txe, dr, put, arrived, kept, got, wire, missed>>

Recv(t) == \E len \in 1..MaxLen :
  /\ Goto(t, "idle", "wait")
  /\ reg' = [reg EXCEPT ![t].left = len]
  /\ UNCHANGED <<echo, rx, tx, txeie, txe, dr, put, arrived, kept, got, wire, missed>>

\* Variant: recv waits for a full buffer.
RxFull(t) ==
  /\ Goto(t, "wait", "head")
  /\ Full(rx)
  /\ UNCHANGED <<echo, rx, tx, txeie, txe, dr, reg, put, arrived, kept, got, wire, missed>>

\* empty() is false.
RxNotEmpty(t) ==
  /\ Goto(t, "wait", "head")
  /\ ~Empty(rx)
  /\ UNCHANGED <<echo, rx, tx, txeie, txe, dr, reg, put, arrived, kept, got, wire, missed>>

\* available() loads head, then tail.
LoadRxHead(t) ==
  /\ Goto(t, "head", "available")
  /\ reg' = [reg EXCEPT ![t].index = rx.head]
  /\ UNCHANGED <<echo, rx, tx, txeie, txe, dr, put, arrived, kept, got, wire, missed>>

RxAvailable(t) ==
  /\ Goto(t, "available", "take")
  /\ reg' = [reg EXCEPT ![t].n = Least(reg[t].left, Available(reg[t].index, rx.tail))]
  /\ UNCHANGED <<echo, rx, tx, txeie, txe, dr, put, arrived, kept, got, wire, missed>>

CopyOut(t) ==
  /\ Goto(t, "take", "loadTail")
  /\ got' = got \o CopyFromCirc(rx.buf, rx.tail, reg[t].n)
  /\ UNCHANGED <<echo, rx, tx, txeie, txe, dr, reg, put, arrived, kept, wire, missed>>

\* tail = (tail + toRead) & MASK
LoadRxTail(t) ==
  /\ Goto(t, "loadTail", "storeTail")
  /\ reg' = [reg EXCEPT ![t].index = rx.tail]
  /\ UNCHANGED <<echo, rx, tx, txeie, txe, dr, put, arrived, kept, got, wire, missed>>

StoreRxTail(t) ==
  /\ Goto(t, "storeTail", IF reg[t].left = reg[t].n THEN "idle" ELSE "wait")
  /\ rx' = [rx EXCEPT !.tail = (reg[t].index + reg[t].n) % N]
  /\ reg' = [reg EXCEPT ![t] = [NoReg EXCEPT !.left = reg[t].left - reg[t].n]]
  /\ UNCHANGED <<echo, tx, txeie, txe, dr, put, arrived, kept, got, wire, missed>>

-----------------------------------------------------------------------------
\* A task in a call goes on.
SendStep(s) ==
  \/ TxNotFull(s) \/ TxEmpty(s) \/ LoadTxTail(s) \/ TxSpace(s)
  \/ CopyIn(s) \/ LoadTxHead(s) \/ StoreTxHead(s) \/ Enable(s)

RecvStep(t) ==
  \/ RxNotEmpty(t) \/ LoadRxHead(t) \/ RxAvailable(t)
  \/ CopyOut(t) \/ LoadRxTail(t) \/ StoreRxTail(t)

Next ==
  \/ Arrive \/ ShiftedOut \/ Usart2Isr
  \/ \E s \in Senders : Send(s) \/ SendStep(s)
  \/ \E t \in Receivers : Recv(t) \/ RecvStep(t)

(***************************************************************************)
(* The transmitter works, interrupts are taken, the scheduler comes back   *)
(* to every task, and a receiving task calls recv again.                   *)
(***************************************************************************)
Fairness ==
  /\ WF_vars(ShiftedOut) /\ WF_vars(Usart2Isr)
  /\ \A s \in Senders : WF_vars(SendStep(s))
  /\ \A t \in Receivers : WF_vars(Recv(t) \/ RecvStep(t))

Spec == Init /\ [][Next]_vars /\ Fairness

-----------------------------------------------------------------------------
\* The bytes that are out, or on their way.
Out == wire \o Contents(tx)

\* Every byte handed over by send goes out, or waits to, exactly once and in
\* its order, however the handler empties tx meanwhile, if the handler puts
\* nothing there itself.
SentOnce == ~echo => \A s \in Senders : Out = [k \in 1..put[s] |-> <<s, k>>]

\* recv delivers exactly the bytes rx had room for, in the order they came,
\* however the handler fills rx meanwhile.
ReceivedOnce ==
  (\A t \in Receivers : pc[t] \notin {"loadTail", "storeTail"}) =>
    got \o Contents(rx) = kept

\* No task has handed anything over.
Quiet == \A s \in Senders : pc[s] = "idle" /\ put[s] = 0

\* An echo is of a byte that was kept, no byte is echoed twice, and echoes
\* keep their order, also when tx has no room for some.
EchoedInOrder == Quiet =>
  /\ \A i \in DOMAIN Out : \E j \in DOMAIN kept : kept[j] = Out[i]
  /\ \A i, j \in DOMAIN Out : i < j => Out[i][2] < Out[j][2]

\* Bytes in tx get out, unless the handler stopped the transmission between
\* a sender's look at tx and its own store to it.
Drains == ~Empty(tx) ~> (Empty(tx) \/ missed)

\* What uart.hpp says of send, without that condition.
SendsData == ~Empty(tx) ~> Empty(tx)

\* Every byte kept reaches a task that keeps receiving.
Delivers == \A k \in 1..MaxArrived : Len(kept) >= k ~> Len(got) >= k
=============================================================================
