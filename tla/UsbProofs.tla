------------------------------- MODULE UsbProofs -------------------------------
(***************************************************************************)
(* The bytes of the USB serial port, for any size of rx and of the         *)
(* packets, and any number of bytes.                                       *)
(***************************************************************************)
EXTENDS Usb, CircBufferProofs

\* The bytes of the IN endpoint that are an echo.
Waiting == IF in # <<>> /\ in[1] # 0 THEN Len(in) ELSE 0

\* The host's bytes that came back, those at the IN endpoint, in the handler
\* and at the OUT endpoint are all it sent, in order.
Circulating ==
  /\ \A i \in 1..Len(host) : host[i] = i
  /\ \A i \in 1..Waiting : in[i] = Len(host) + i
  /\ \A i \in 1..Len(isr) : isr[i] = Len(host) + Waiting + i
  /\ \A i \in 1..Len(out) : out[i] = Len(host) + Waiting + Len(isr) + i
  /\ offered = Len(host) + Waiting + Len(isr) + Len(out)

\* The tail is at place o of the bytes kept, and recv may have copied some
\* that it has not moved the tail past.
Kept(o) ==
  /\ Holds(rx, kept, o)
  /\ Len(got) = o + copied /\ copied <= Used(rx)
  /\ \A i \in 1..Len(got) : got[i] = kept[i]

UsbInv == UsbTypeOK /\ read + copied <= Wanted /\ Circulating /\ \E o \in Nat : Kept(o)

USE SizeAssumption, UsbAssumption

-----------------------------------------------------------------------------
LEMMA UsbTyped ==
  ASSUME UsbTypeOK
  PROVE  /\ rx \in Ring(Nat) /\ Used(rx) \in Nat /\ N \in Nat
         /\ out \in Seq(Nat) /\ in \in Seq(Nat) /\ isr \in Seq(Nat)
         /\ kept \in Seq(Nat) /\ got \in Seq(Nat) /\ host \in Seq(Nat)
         /\ Len(out) \in Nat /\ Len(in) \in Nat /\ Len(isr) \in Nat
         /\ Len(kept) \in Nat /\ Len(got) \in Nat /\ Len(host) \in Nat
         /\ offered \in Nat /\ src \in Nat /\ read \in Nat /\ copied \in Nat
         /\ Waiting \in Nat
<1>1. /\ out \in Seq(Nat) /\ in \in Seq(Nat) /\ isr \in Seq(Nat)
      /\ kept \in Seq(Nat) /\ got \in Seq(Nat) /\ host \in Seq(Nat)
  BY DEF UsbTypeOK
<1>2. offered \in Nat /\ src \in Nat /\ read \in Nat /\ copied \in Nat
  BY DEF UsbTypeOK
<1>3. rx \in Ring(Nat) /\ Used(rx) \in Nat /\ N \in Nat
  BY RingIs DEF UsbTypeOK
<1>4. Waiting \in Nat
  BY <1>1 DEF Waiting
<1>5. QED
  BY <1>1, <1>2, <1>3, <1>4

LEMMA InitUsb == UsbInit => UsbInv
<1> SUFFICES ASSUME UsbInit PROVE UsbInv
  OBVIOUS
<1>1. rx \in Ring(Nat) /\ Used(rx) = 0 /\ Flows(<<>>, rx, <<>>)
  BY EmptyTyped DEF UsbInit
<1>2. UsbTypeOK
  BY <1>1 DEF UsbInit, UsbTypeOK
<1>3. Circulating
  BY DEF UsbInit, Circulating, Waiting
<1>4. Kept(0)
  BY <1>1 DEF UsbInit, Kept, Flows
<1>5. read + copied <= Wanted
  BY DEF UsbInit
<1>6. QED
  BY <1>2, <1>3, <1>4, <1>5 DEF UsbInv

-----------------------------------------------------------------------------
(***************************************************************************)
(* The endpoints.                                                          *)
(***************************************************************************)
LEMMA HostSendsUsb == ASSUME UsbInv, HostSends PROVE UsbInv'
<1>1. PICK n \in 1..Packet :
        /\ out = <<>> /\ offered + n <= MaxOut
        /\ out' = [i \in 1..n |-> offered + i] /\ offered' = offered + n
        /\ UNCHANGED <<in, rx, isr, src, read, copied, kept, got, host>>
  BY DEF HostSends
<1>2. UsbTypeOK /\ offered \in Nat /\ n \in Nat
  BY UsbTyped DEF UsbInv
<1>3. out' \in Seq(Nat) /\ Len(out') = n /\ \A i \in 1..n : out'[i] = offered + i
  BY <1>1, <1>2
<1>4. offered' \in 0..MaxOut
  BY <1>1, <1>2
<1>5. UsbTypeOK'
  BY <1>1, <1>2, <1>3, <1>4 DEF UsbTypeOK
<1>6. Circulating'
  <2>1. Circulating /\ Len(out) = 0 /\ Waiting' = Waiting
    BY <1>1 DEF UsbInv, Waiting
  <2>2. /\ \A i \in 1..Len(host) : host[i] = i
        /\ \A i \in 1..Waiting : in[i] = Len(host) + i
        /\ \A i \in 1..Len(isr) : isr[i] = Len(host) + Waiting + i
        /\ offered = Len(host) + Waiting + Len(isr)
    BY <1>2, <2>1, UsbTyped DEF Circulating
  <2>3. \A i \in 1..Len(out') : out'[i] = Len(host) + Waiting + Len(isr) + i
    BY <1>3, <2>2
  <2>4. offered' = Len(host) + Waiting + Len(isr) + Len(out')
    BY <1>1, <1>3, <2>2
  <2>5. QED
    BY <1>1, <2>1, <2>2, <2>3, <2>4 DEF Circulating
<1>7. (\E o \in Nat : Kept(o))' /\ (read + copied <= Wanted)'
  BY <1>1 DEF UsbInv, Kept
<1>8. QED
  BY <1>5, <1>6, <1>7 DEF UsbInv

LEMMA HostReadsUsb == ASSUME UsbInv, HostReads PROVE UsbInv'
<1>1. /\ in # <<>> /\ in' = <<>> /\ UNCHANGED <<out, offered, rx, isr, src, read, copied, kept, got>>
      /\ host' = IF in[1] = 0 THEN host ELSE host \o in
  BY DEF HostReads
<1>2. UsbTypeOK /\ Circulating
  BY DEF UsbInv
<1>3. host' \in Seq(Nat)
  BY <1>1, <1>2, UsbTyped
<1>4. UsbTypeOK'
  BY <1>1, <1>2, <1>3 DEF UsbTypeOK
<1>5. Waiting' = 0
  BY <1>1 DEF Waiting
<1>6. Len(host') = Len(host) + Waiting /\ \A i \in 1..Len(host') : host'[i] = i
  <2>1. CASE in[1] = 0
    <3>1. host' = host /\ Waiting = 0
      BY <1>1, <2>1 DEF Waiting
    <3>2. QED
      BY <1>2, <3>1, UsbTyped DEF Circulating
  <2>2. CASE in[1] # 0
    <3>1. host' = host \o in /\ Waiting = Len(in)
      BY <1>1, <2>2 DEF Waiting
    <3>2. /\ Len(host \o in) = Len(host) + Len(in)
          /\ \A i \in 1..Len(host) + Len(in) :
               (host \o in)[i] = IF i <= Len(host) THEN host[i] ELSE in[i - Len(host)]
          /\ Len(host) \in Nat /\ Len(in) \in Nat
      BY <1>2, UsbTyped, ConcatProperties
    <3>3. ASSUME NEW i \in 1..Len(host) + Len(in) PROVE (host \o in)[i] = i
      <4>1. CASE i <= Len(host)
        BY <1>2, <3>2, <4>1 DEF Circulating
      <4>2. CASE i > Len(host)
        <5>1. i - Len(host) \in 1..Waiting /\ Len(host) + (i - Len(host)) = i
          BY <3>1, <3>2, <4>2
        <5>2. in[i - Len(host)] = Len(host) + (i - Len(host))
          BY <1>2, <5>1 DEF Circulating
        <5>3. QED
          BY <3>2, <4>2, <5>1, <5>2
      <4>3. i <= Len(host) \/ i > Len(host)
        BY <3>2
      <4>4. QED
        BY <4>1, <4>2, <4>3, Zenon
    <3>4. QED
      BY <3>1, <3>2, <3>3
  <2>3. QED
    BY <2>1, <2>2
<1>7. Circulating'
  <2>1. PICK h \in Nat, w \in Nat, k \in Nat, m \in Nat :
          h = Len(host) /\ w = Waiting /\ k = Len(isr) /\ m = Len(out)
    BY <1>2, UsbTyped
  <2>2. /\ \A i \in 1..k : isr[i] = h + w + i
        /\ \A i \in 1..m : out[i] = h + w + k + i
        /\ offered = h + w + k + m
    BY <1>2, <2>1 DEF Circulating
  <2>3. Len(host') = h + w /\ \A i \in 1..Len(host') : host'[i] = i
    BY <1>6, <2>1
  <2>4. /\ \A i \in 1..0 : in'[i] = h + w + i
        /\ \A i \in 1..k : isr'[i] = h + w + 0 + i
        /\ \A i \in 1..m : out'[i] = h + w + 0 + k + i
        /\ offered' = h + w + 0 + k + m /\ Len(isr') = k /\ Len(out') = m
    BY <1>1, <2>1, <2>2
  <2>5. QED
    BY <1>5, <2>3, <2>4 DEF Circulating
<1>8. (\E o \in Nat : Kept(o))' /\ (read + copied <= Wanted)'
  BY <1>1 DEF UsbInv, Kept
<1>9. QED
  BY <1>4, <1>7, <1>8 DEF UsbInv

LEMMA RxCallbackUsb == ASSUME UsbInv, RxCallback PROVE UsbInv'
<1>1. /\ isr = <<>> /\ isr' = out /\ out' = <<>>
      /\ UNCHANGED <<in, offered, rx, src, read, copied, kept, got, host>>
  BY DEF RxCallback
<1>2. UsbTypeOK /\ Circulating
  BY DEF UsbInv
<1>3. UsbTypeOK'
  BY <1>1, <1>2 DEF UsbTypeOK
<1>4. Circulating'
  <2>1. Len(isr) = 0 /\ Len(out') = 0 /\ Waiting' = Waiting
    BY <1>1 DEF Waiting
  <2>2. PICK h \in Nat, w \in Nat, m \in Nat : h = Len(host) /\ w = Waiting /\ m = Len(out)
    BY <1>2, UsbTyped
  <2>3. (\A i \in 1..m : out[i] = h + w + i) /\ offered = h + w + m
    BY <1>2, <2>1, <2>2 DEF Circulating
  <2>4. QED
    BY <1>1, <1>2, <2>1, <2>2, <2>3 DEF Circulating
<1>5. (\E o \in Nat : Kept(o))' /\ (read + copied <= Wanted)'
  BY <1>1 DEF UsbInv, Kept
<1>6. QED
  BY <1>3, <1>4, <1>5 DEF UsbInv

LEMMA SendUsb == ASSUME UsbInv, Send PROVE UsbInv'
<1>1. /\ src > 0 /\ in = <<>> /\ in' = [i \in 1..Chunk |-> 0] /\ src' = src - Chunk
      /\ UNCHANGED <<out, offered, rx, isr, read, copied, kept, got, host>>
  BY DEF Send
<1>2. UsbTypeOK /\ Circulating /\ src \in 0..MaxIn
  BY DEF UsbInv, UsbTypeOK
<1>3. Chunk \in Nat /\ Chunk >= 1 /\ Chunk <= src
  BY <1>1, <1>2 DEF Chunk
<1>4. in' \in Seq(Nat) /\ in'[1] = 0
  BY <1>1, <1>3
<1>5. src' \in 0..MaxIn
  BY <1>1, <1>2, <1>3
<1>6. UsbTypeOK'
  BY <1>1, <1>2, <1>4, <1>5 DEF UsbTypeOK
<1>7. Waiting = 0 /\ Waiting' = 0
  BY <1>1, <1>4 DEF Waiting
<1>8. Circulating'
  BY <1>1, <1>2, <1>7 DEF Circulating
<1>9. (\E o \in Nat : Kept(o))' /\ (read + copied <= Wanted)'
  BY <1>1 DEF UsbInv, Kept
<1>10. QED
  BY <1>6, <1>8, <1>9 DEF UsbInv

-----------------------------------------------------------------------------
(***************************************************************************)
(* The handler and rx.                                                     *)
(***************************************************************************)
LEMMA ClippedIs ==
  ASSUME UsbTypeOK
  PROVE  Clipped(isr) \in Seq(Nat) /\ Len(Clipped(isr)) <= FreeSpace(rx.head, rx.tail)
<1>1. isr \in Seq(Nat) /\ Len(isr) \in Nat
  BY UsbTyped
<1>2. FreeSpace(rx.head, rx.tail) \in Nat
  BY UsbTyped, RingIs, AvailableIs
<1>3. CASE Len(isr) > FreeSpace(rx.head, rx.tail)
  <2>1. PICK k \in Nat : k = FreeSpace(rx.head, rx.tail)
    BY <1>2
  <2>2. \A i \in 1..k : isr[i] \in Nat
    BY <1>1, <1>3, <2>1
  <2>3. SubSeq(isr, 1, k) \in Seq(Nat) /\ Len(SubSeq(isr, 1, k)) = IF 1 <= k THEN k - 1 + 1 ELSE 0
    BY <2>2, SubSeqProperties
  <2>4. QED
    BY <1>3, <2>1, <2>3 DEF Clipped
<1>4. CASE ~(Len(isr) > FreeSpace(rx.head, rx.tail))
  BY <1>1, <1>2, <1>4 DEF Clipped
<1>5. QED
  BY <1>3, <1>4

LEMMA EchoedUsb == ASSUME UsbInv, Echoed PROVE UsbInv'
<1> DEFINE f == Clipped(isr)
           b == [rx EXCEPT !.buf = CopyToCirc(rx.buf, rx.head, f)]
<1>1. /\ isr # <<>> /\ in = <<>> /\ in' = isr /\ isr' = <<>> /\ kept' = kept \o f
      /\ UNCHANGED <<out, offered, src, read, copied, got, host>>
  BY DEF Echoed
<1>2. UsbTypeOK /\ Circulating
  BY DEF UsbInv
<1>3. PICK o \in Nat : Kept(o)
  BY DEF UsbInv
<1>4. rx \in Ring(Nat) /\ f \in Seq(Nat) /\ Len(f) <= FreeSpace(rx.head, rx.tail) /\ Len(f) \in Nat
  BY <1>2, UsbTyped, ClippedIs
<1>5. b \in Ring(Nat)
  BY <1>4, CopyToTyped
<1>6. b.head = rx.head /\ b.tail = rx.tail /\ b.buf = CopyToCirc(rx.buf, rx.head, f)
  BY <1>4 DEF Ring
<1>7. rx' = [b EXCEPT !.head = (b.head + Len(f)) % N]
  BY <1>4 DEF Echoed, Ring
<1> HIDE DEF f, b
<1>8. /\ Used(b) = Used(rx) /\ Staged(b, f, Len(f))
      /\ \A i \in 1..Used(rx) : b.buf[Cell(rx.tail, i)] = rx.buf[Cell(rx.tail, i)]
  BY <1>4, <1>6, CopiedIn
<1>9. Holds(b, kept, o)
  BY <1>3, <1>6, <1>8, HoldsAlike DEF Kept
<1>10. rx' \in Ring(Nat) /\ Holds(rx', kept \o f, o)
  <2>1. kept \in Seq(Nat) /\ Len(f) <= FreeSpace(b.head, b.tail)
    BY <1>2, <1>4, <1>6, UsbTyped
  <2>2. QED
    BY <1>4, <1>5, <1>7, <1>8, <1>9, <2>1, HoldsMore
<1>11. /\ Len(kept \o f) = Len(kept) + Len(f) /\ kept \o f \in Seq(Nat)
       /\ \A i \in 1..Len(kept) : (kept \o f)[i] = kept[i]
  BY <1>2, <1>4, UsbTyped
<1>12. Kept(o)'
  <2>1. Used(rx') = Used(rx) + Len(f)
    <3>1. Used(rx') \in Nat /\ Used(rx) \in Nat
      <4>1. PICK r \in Ring(Nat) : r = rx'
        BY <1>10
      <4>2. Used(r) \in Nat
        BY RingIs
      <4>3. QED
        BY <1>2, <4>1, <4>2, UsbTyped
    <3>2. Len(kept) = o + Used(rx) /\ Len(kept \o f) = o + Used(rx')
      BY <1>3, <1>10 DEF Kept, Holds
    <3>3. PICK u \in Nat, v \in Nat, l \in Nat : u = Used(rx') /\ v = Used(rx) /\ l = Len(f)
      BY <1>4, <3>1
    <3>4. o + u = o + v + l
      BY <1>11, <3>2, <3>3
    <3>5. QED
      BY <3>3, <3>4
  <2>2. Len(got) = o + copied /\ copied <= Used(rx) /\ Len(kept) = o + Used(rx)
    BY <1>3 DEF Kept, Holds
  <2>3. Len(got) <= Len(kept) /\ copied <= Used(rx')
    BY <1>2, <1>4, <2>1, <2>2, UsbTyped
  <2>4. \A i \in 1..Len(got) : got[i] = (kept \o f)[i]
    BY <1>2, <1>3, <1>11, <2>3, UsbTyped DEF Kept
  <2>5. QED
    BY <1>1, <1>10, <2>2, <2>3, <2>4 DEF Kept
<1>13. UsbTypeOK'
  BY <1>1, <1>2, <1>10, <1>11 DEF UsbTypeOK
<1>14. Circulating'
  <2>1. Waiting = 0 /\ Len(isr') = 0
    BY <1>1 DEF Waiting
  <2>2. PICK h \in Nat, k \in Nat, m \in Nat : h = Len(host) /\ k = Len(isr) /\ m = Len(out)
    BY <1>2, UsbTyped
  <2>3. /\ \A i \in 1..k : isr[i] = h + i
        /\ \A i \in 1..m : out[i] = h + k + i
        /\ offered = h + k + m
    BY <1>2, <2>1, <2>2 DEF Circulating
  <2>4. k >= 1 /\ isr[1] # 0
    <3>1. k # 0
      BY <1>1, <1>2, <2>2, UsbTyped, EmptySeq
    <3>2. 1 \in 1..k /\ h + 1 # 0
      BY <3>1
    <3>3. QED
      BY <2>3, <3>2
  <2>5. Waiting' = k
    BY <1>1, <2>2, <2>4 DEF Waiting
  <2>6. /\ \A i \in 1..h : host'[i] = i
        /\ \A i \in 1..k : in'[i] = h + i
        /\ \A i \in 1..0 : isr'[i] = h + k + i
        /\ \A i \in 1..m : out'[i] = h + k + 0 + i
        /\ offered' = h + k + 0 + m /\ Len(host') = h /\ Len(out') = m
    BY <1>1, <1>2, <2>2, <2>3 DEF Circulating
  <2>7. QED
    BY <2>1, <2>5, <2>6 DEF Circulating
<1>15. QED
  BY <1>1, <1>12, <1>13, <1>14 DEF UsbInv

LEMMA CopyOutUsb == ASSUME UsbInv, CopyOut PROVE UsbInv'
<1> DEFINE avail == Available(rx.head, rx.tail)
           n == IF Wanted - read > avail THEN avail ELSE Wanted - read
           f == CopyFromCirc(rx.buf, rx.tail, n)
<1>1. /\ copied = 0 /\ copied' = n /\ got' = got \o f
      /\ UNCHANGED <<out, in, offered, rx, isr, src, read, kept, host>>
  BY DEF CopyOut
<1>2. UsbTypeOK /\ Circulating
  BY DEF UsbInv
<1>3. PICK o \in Nat : Kept(o)
  BY DEF UsbInv
<1>4. avail = Used(rx) /\ avail \in Nat
  BY <1>2, UsbTyped DEF Used
<1>5. read \in 0..Wanted - 1
  BY <1>2 DEF UsbTypeOK
<1>6. n \in 0..Used(rx) /\ read + n <= Wanted /\ n \in 0..Wanted
  BY <1>4, <1>5
<1> HIDE DEF n, avail
<1>7. f \in Seq(Nat) /\ Len(f) = n /\ \A i \in 1..n : f[i] = kept[o + i]
  <2>1. Holds(rx, kept, o) /\ kept \in Seq(Nat) /\ rx \in Ring(Nat)
    BY <1>2, <1>3, UsbTyped DEF Kept
  <2>2. QED
    BY <1>6, <2>1, CopiedOut
<1> HIDE DEF f
<1>8. Len(got) = o
  BY <1>1, <1>3 DEF Kept
<1>9. /\ got \o f \in Seq(Nat) /\ Len(got \o f) = o + n
      /\ \A i \in 1..o + n : (got \o f)[i] = IF i <= o THEN got[i] ELSE f[i - o]
  BY <1>2, <1>7, <1>8, UsbTyped, ConcatProperties
<1>10. ASSUME NEW i \in 1..o + n PROVE (got \o f)[i] = kept[i]
  <2>1. CASE i <= o
    BY <1>3, <1>8, <1>9, <2>1 DEF Kept
  <2>2. CASE i > o
    <3>1. i - o \in 1..n /\ o + (i - o) = i
      BY <1>6, <2>2
    <3>2. f[i - o] = kept[i]
      BY <1>7, <3>1
    <3>3. QED
      BY <1>9, <2>2, <3>2
  <2>3. i <= o \/ i > o
    BY <1>6
  <2>4. QED
    BY <2>1, <2>2, <2>3, Zenon
<1>11. Kept(o)'
  <2>1. n <= Used(rx)
    BY <1>6
  <2>2. QED
    BY <1>1, <1>3, <1>9, <1>10, <2>1 DEF Kept
<1>12. UsbTypeOK'
  BY <1>1, <1>2, <1>6, <1>9 DEF UsbTypeOK
<1>13. Circulating'
  BY <1>1, <1>2 DEF Circulating, Waiting
<1>14. (read + copied <= Wanted)'
  BY <1>1, <1>6
<1>15. QED
  BY <1>11, <1>12, <1>13, <1>14 DEF UsbInv

LEMMA MoveTailUsb == ASSUME UsbInv, MoveTail PROVE UsbInv'
<1>1. /\ rx' = [rx EXCEPT !.tail = (rx.tail + copied) % N]
      /\ read' = (read + copied) % Wanted /\ copied' = 0
      /\ UNCHANGED <<out, in, offered, isr, src, kept, got, host>>
  BY DEF MoveTail
<1>2. UsbTypeOK /\ Circulating
  BY DEF UsbInv
<1>3. PICK o \in Nat : Kept(o)
  BY DEF UsbInv
<1>4. rx \in Ring(Nat) /\ copied \in 0..Used(rx) /\ Holds(rx, kept, o) /\ copied \in Nat
  BY <1>2, <1>3, UsbTyped DEF Kept
<1>5. rx' \in Ring(Nat) /\ Holds(rx', kept, o + copied) /\ Used(rx') = Used(rx) - copied
  BY <1>1, <1>4, HoldsRetire
<1>6. PICK q \in Nat : q = o + copied
  BY <1>4
<1>7. Kept(q)'
  <2>1. Len(got') = q + copied' /\ copied' <= Used(rx')
    <3>1. Len(got) = o + copied
      BY <1>3 DEF Kept
    <3>2. Used(rx) \in Nat
      BY <1>2, UsbTyped
    <3>3. QED
      BY <1>1, <1>4, <1>5, <1>6, <3>1, <3>2
  <2>2. \A i \in 1..Len(got') : got'[i] = kept'[i]
    BY <1>1, <1>3 DEF Kept
  <2>3. QED
    BY <1>1, <1>5, <1>6, <2>1, <2>2 DEF Kept
<1>8. read' \in 0..Wanted - 1
  <2>1. PICK x \in Nat : x = read + copied
    BY <1>2, UsbTyped
  <2>2. x % Wanted \in 0..Wanted - 1
    OBVIOUS
  <2>3. QED
    BY <1>1, <2>1, <2>2
<1>9. UsbTypeOK'
  BY <1>1, <1>2, <1>5, <1>8 DEF UsbTypeOK
<1>10. Circulating'
  BY <1>1, <1>2 DEF Circulating, Waiting
<1>11. (read + copied <= Wanted)'
  BY <1>1, <1>8
<1>12. QED
  BY <1>7, <1>9, <1>10, <1>11 DEF UsbInv

LEMMA NextUsb == UsbInv /\ [UsbNext]_usbVars => UsbInv'
<1> SUFFICES ASSUME UsbInv, [UsbNext]_usbVars PROVE UsbInv'
  OBVIOUS
<1>1. CASE UNCHANGED usbVars
  BY <1>1 DEF usbVars, UsbInv, UsbTypeOK, Circulating, Waiting, Kept
<1>2. QED
  BY <1>1, HostSendsUsb, HostReadsUsb, RxCallbackUsb, EchoedUsb, SendUsb, CopyOutUsb, MoveTailUsb
     DEF UsbNext, Recv

-----------------------------------------------------------------------------
LEMMA UsbInvInOrder == UsbInv => InOrder
<1> SUFFICES ASSUME UsbInv PROVE InOrder
  OBVIOUS
<1>1. UsbTypeOK /\ Circulating
  BY DEF UsbInv
<1>2. PICK o \in Nat : Kept(o)
  BY DEF UsbInv
<1>3. Len(got) = o + copied /\ copied <= Used(rx) /\ Len(kept) = o + Used(rx)
      /\ \A i \in 1..Len(got) : got[i] = kept[i]
  BY <1>2 DEF Kept, Holds
<1>4. Len(got) <= Len(kept) /\ DOMAIN got = 1..Len(got) /\ DOMAIN host = 1..Len(host)
  BY <1>1, <1>3, UsbTyped
<1>5. ASSUME copied = 0 PROVE got \o Contents(rx) = kept
  <2>1. Flows(got, rx, kept)
    BY <1>2, <1>3, <1>5 DEF Kept, Flows
  <2>2. QED
    BY <1>1, <2>1, UsbTyped, FlowsJoined
<1>6. KeptInOrder
  BY <1>3, <1>4, <1>5 DEF KeptInOrder
<1>7. EchoInOrder
  BY <1>1, <1>4 DEF EchoInOrder, Circulating
<1>8. QED
  BY <1>6, <1>7 DEF InOrder

\* The variables keep their types, whatever the host sends and a task asks for.
THEOREM UsbTypeCorrect == UsbSpec => []UsbTypeOK
<1>1. UsbInit => UsbInv
  BY InitUsb
<1>2. UsbInv /\ [UsbNext]_usbVars => UsbInv'
  BY NextUsb
<1>3. UsbInv => UsbTypeOK
  BY DEF UsbInv
<1>4. QED
  BY <1>1, <1>2, <1>3, PTL DEF UsbSpec

\* recv delivers exactly the bytes rx had room for, and the host gets every
\* byte of its own back, each once and in order, though the handler fills rx
\* between recv's copy and its move of the tail, and a task sends in between.
THEOREM PassesInOrder == UsbSpec => []InOrder
<1>1. UsbInit => UsbInv
  BY InitUsb
<1>2. UsbInv /\ [UsbNext]_usbVars => UsbInv'
  BY NextUsb
<1>3. UsbInv => InOrder
  BY UsbInvInOrder
<1>4. QED
  BY <1>1, <1>2, <1>3, PTL DEF UsbSpec
=============================================================================
