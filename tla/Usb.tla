--------------------------------- MODULE Usb ---------------------------------
(***************************************************************************)
(* The USB serial port (COMM == 2). The interrupt handler takes a packet   *)
(* from the OUT endpoint, waits inside the interrupt until the IN endpoint *)
(* has taken its echo, and keeps what rx has room for. A task sends in     *)
(* packets and receives through rx. A byte is the number of its place in   *)
(* the host's stream, or 0 for a byte of the task.                         *)
(***************************************************************************)
EXTENDS CircBuffer

CONSTANTS
  Packet,       \* largest packet, 64 on the device
  MaxOut,       \* bound of the run: bytes the host sends
  MaxIn,        \* bound of the run: bytes the task sends
  Wanted        \* length of a recv

ASSUME UsbAssumption ==
  Packet \in Nat \ {0} /\ MaxOut \in Nat /\ MaxIn \in Nat /\ Wanted \in Nat \ {0}

VARIABLES
  out, in,      \* packets waiting at the OUT and at the IN endpoint
  offered,      \* bytes the host has sent
  rx,
  isr,          \* packet the handler is echoing
  src,          \* bytes send has still to put into packets
  read,         \* bytes the recv under way has
  copied,       \* bytes copyOut has copied before it moves tail
  kept,         \* bytes that found room in rx
  got,          \* bytes recv has handed over
  host          \* bytes of the echo the host has read

usbVars == <<out, in, offered, rx, isr, src, read, copied, kept, got, host>>

UsbInit ==
  /\ out = <<>> /\ in = <<>> /\ offered = 0 /\ rx = EmptyBuffer
  /\ isr = <<>> /\ src = MaxIn /\ read = 0 /\ copied = 0
  /\ kept = <<>> /\ got = <<>> /\ host = <<>>

-----------------------------------------------------------------------------
\* The host, and the controller's two endpoints.
HostSends ==
  /\ out = <<>>
  /\ \E n \in 1..Packet :
       /\ offered + n <= MaxOut
       /\ out' = [i \in 1..n |-> offered + i] /\ offered' = offered + n
  /\ UNCHANGED <<in, rx, isr, src, read, copied, kept, got, host>>

HostReads ==
  /\ in # <<>> /\ in' = <<>>
  /\ host' = IF in[1] = 0 THEN host ELSE host \o in
  /\ UNCHANGED <<out, offered, rx, isr, src, read, copied, kept, got>>

\* cdcacm_data_rx_cb up to its loop; tasks do not run until it has returned.
RxCallback ==
  /\ isr = <<>> /\ out # <<>>
  /\ isr' = out /\ out' = <<>>
  /\ UNCHANGED <<in, offered, rx, src, read, copied, kept, got, host>>

\* Variant: the packet is copied whatever room there is.
Unclipped(packet) == packet

Clipped(packet) ==
  LET space == FreeSpace(rx.head, rx.tail) IN
  IF Len(packet) > space THEN SubSeq(packet, 1, space) ELSE packet

\* The IN endpoint takes the echo; what fits goes to rx.
Echoed ==
  /\ isr # <<>> /\ in = <<>>
  /\ in' = isr /\ isr' = <<>>
  /\ rx' = [rx EXCEPT !.buf = CopyToCirc(rx.buf, rx.head, Clipped(isr)),
                      !.head = (@ + Len(Clipped(isr))) % N]
  /\ kept' = kept \o Clipped(isr)
  /\ UNCHANGED <<out, offered, src, read, copied, got, host>>

-----------------------------------------------------------------------------
\* A task inside USB::send: one round of its loop.
Chunk == IF src > Packet THEN Packet ELSE src
Send ==
  /\ isr = <<>> /\ src > 0 /\ in = <<>>
  /\ in' = [i \in 1..Chunk |-> 0] /\ src' = src - Chunk
  /\ UNCHANGED <<out, offered, rx, isr, read, copied, kept, got, host>>

\* A task inside USB::recv(dst, Wanted): copyOut takes what is there, then
\* moves tail.
CopyOut ==
  /\ isr = <<>> /\ copied = 0 /\ ~Empty(rx)
  /\ LET avail == Available(rx.head, rx.tail)
         n == IF Wanted - read > avail THEN avail ELSE Wanted - read
     IN  /\ copied' = n
         /\ got' = got \o CopyFromCirc(rx.buf, rx.tail, n)
  /\ UNCHANGED <<out, in, offered, rx, isr, src, read, kept, host>>

\* Variant: tail moves by the length asked for.
MoveTailAll ==
  /\ isr = <<>> /\ copied > 0
  /\ rx' = [rx EXCEPT !.tail = (@ + Wanted) % N]
  /\ read' = 0 /\ copied' = 0
  /\ UNCHANGED <<out, in, offered, isr, src, kept, got, host>>

MoveTail ==
  /\ isr = <<>> /\ copied > 0
  /\ rx' = [rx EXCEPT !.tail = (@ + copied) % N]
  /\ read' = (read + copied) % Wanted /\ copied' = 0
  /\ UNCHANGED <<out, in, offered, isr, src, kept, got, host>>

Recv == CopyOut \/ MoveTail

UsbNext == HostSends \/ HostReads \/ RxCallback \/ Echoed \/ Send \/ Recv

\* The host reads, the controller interrupts, the scheduler serves the task.
\* The handler's loop gets the endpoint when it is free; a sender may find it
\* taken by an echo each time and gets it in the end if it is served often.
UsbFairness == WF_usbVars(HostReads) /\ WF_usbVars(RxCallback) /\ WF_usbVars(Echoed)
               /\ WF_usbVars(Recv)

UsbSpec == UsbInit /\ [][UsbNext]_usbVars /\ UsbFairness

-----------------------------------------------------------------------------
UsbTypeOK ==
  /\ rx \in Ring(Nat)
  /\ offered \in 0..MaxOut /\ src \in 0..MaxIn
  /\ out \in Seq(Nat) /\ in \in Seq(Nat) /\ isr \in Seq(Nat)
  /\ read \in 0..Wanted - 1 /\ copied \in 0..Wanted
  /\ kept \in Seq(Nat) /\ got \in Seq(Nat) /\ host \in Seq(Nat)

(***************************************************************************)
(* recv hands over exactly the bytes that found room, in order, while the  *)
(* handler fills rx between the copy and the move of tail; what it has not *)
(* handed over yet is in rx.                                               *)
(***************************************************************************)
KeptInOrder ==
  /\ Len(got) <= Len(kept) /\ \A i \in DOMAIN got : got[i] = kept[i]
  /\ copied = 0 => got \o Contents(rx) = kept

(***************************************************************************)
(* Every byte of the host comes back to it, in order, dropped or not.      *)
(***************************************************************************)
EchoInOrder == \A i \in DOMAIN host : host[i] = i

InOrder == KeptInOrder /\ EchoInOrder

(***************************************************************************)
(* A host that goes on reading gets its echo, and recv what was kept:      *)
(* the handler's wait for the endpoint ends.                               *)
(***************************************************************************)
AllEchoed == \A n \in 1..MaxOut : (offered >= n) ~> (Len(host) >= n)
AllHandedOver == \A n \in 1..MaxOut : (Len(kept) >= n) ~> (Len(got) >= n)

\* All of it, as far as the host reads and a task receives.
AllPassedOn == AllEchoed /\ AllHandedOver
=============================================================================
