---------------------------- MODULE DatagramProofs ----------------------------
(***************************************************************************)
(* Proofs about Datagram, for every set of bytes, every decoder of headers *)
(* and every size of the receive buffers.  The invariant is that of the    *)
(* loop in SplitHeaderBody, carried on to the segments in the pipeline:    *)
(* a receiver writes only to a buffer that no segment has.                 *)
(***************************************************************************)
EXTENDS Datagram, SequenceTheorems, TLAPS

\* Buffer b starts with the bytes of d, whatever is behind them.
Holds(b, d) ==
  /\ d \in Seq(Byte)
  /\ Len(d) \in 1 .. receiveBufferSize
  /\ \A k \in 1 .. Len(d) : mem[b][k - 1] = d[k]

\* The first separator of d is its byte n + 1, and the slices are cut there.
CutAt(d, h, b, n) ==
  /\ n \in 0 .. Len(d) - 1
  /\ h = <<0, n>> /\ b = <<n + 1, Len(d)>>
  /\ d[n + 1] = separator
  /\ \A k \in 1 .. n : d[k] # separator

Uncut(d, h, b) ==
  /\ h = <<0, Len(d)>> /\ b = <<0, 0>>
  /\ \A k \in 1 .. Len(d) : d[k] # separator

Prefix(d, n) == [k \in 1 .. n |-> d[k]]

TypeOK ==
  /\ pc \in {"read", "scan", "decide"}
  /\ bufPointer \in Buffer
  /\ DOMAIN mem = Buffer
  /\ \A b \in Buffer : DOMAIN mem[b] = 0 .. receiveBufferSize - 1

\* The receiver, from the end of its read to its decision.
ReceiverInv ==
  pc # "read" =>
    /\ Holds(bufPointer, datagram)
    /\ rlen = Len(datagram)
    /\ \A s \in sent : s.PoolBuf # bufPointer

\* The loop of SplitHeaderBody.
LoopInv ==
  /\ pc = "scan" => /\ i \in 0 .. rlen - 1
                    /\ header = <<0, rlen>> /\ body = <<0, 0>>
                    /\ \A k \in 1 .. i : datagram[k] # separator
  /\ pc = "decide" => \/ \E n : CutAt(datagram, header, body, n)
                      \/ Uncut(datagram, header, body)

\* A segment in the pipeline.
SegmentInv(s) ==
  /\ s.PoolBuf \in Buffer
  /\ Holds(s.PoolBuf, s.of)
  /\ \E n \in 0 .. Len(s.of) - 2 :
       /\ CutAt(s.of, <<0, n>>, s.Raw, n)
       /\ IsValid(Decode(Prefix(s.of, n)))

DatagramInv ==
  /\ TypeOK
  /\ ReceiverInv
  /\ LoopInv
  /\ \A s \in sent : SegmentInv(s)

\* The first n bytes that were read are those of the datagram.
LEMMA PrefixBytes ==
  ASSUME NEW b, NEW d, Holds(b, d), NEW n \in 0 .. Len(d)
  PROVE  /\ Bytes(b, <<0, n>>) = Prefix(d, n)
         /\ Prefix(d, n) \in Seq(Byte)
         /\ Len(Prefix(d, n)) = n
<1>1. Len(d) \in Nat /\ \A k \in 1 .. Len(d) : d[k] \in Byte
  BY DEF Holds
<1>2. n \in Nat /\ \A k \in 1 .. n : mem[b][0 + k - 1] = d[k] /\ d[k] \in Byte
  BY <1>1 DEF Holds
<1>3. Bytes(b, <<0, n>>) = [k \in 1 .. n |-> mem[b][0 + k - 1]]
  BY <1>2 DEF Bytes
<1>4. Bytes(b, <<0, n>>) = Prefix(d, n)
  BY <1>2, <1>3 DEF Prefix
<1>5. Prefix(d, n) \in Seq(Byte) /\ Len(Prefix(d, n)) = n
  BY <1>2 DEF Prefix
<1>. QED
  BY <1>4, <1>5

\* The slices of a cut are the datagram.
LEMMA CutSplits ==
  ASSUME NEW b, NEW d, Holds(b, d), NEW h, NEW y, NEW n, CutAt(d, h, y, n)
  PROVE  /\ Bytes(b, h) = Prefix(d, n)
         /\ Len(Bytes(b, y)) = Len(d) - n - 1
         /\ Bytes(b, y) \in Seq(Byte)
         /\ Splits(d, Prefix(d, n), Bytes(b, y))
<1>1. d \in Seq(Byte) /\ Len(d) \in Nat /\ n \in 0 .. Len(d) - 1
  BY DEF Holds, CutAt
<1>2. /\ Bytes(b, h) = Prefix(d, n)
      /\ Prefix(d, n) \in Seq(Byte) /\ Len(Prefix(d, n)) = n
  <2>1. h = <<0, n>> /\ n \in 0 .. Len(d)
    BY <1>1 DEF CutAt
  <2>. QED
    BY <2>1, PrefixBytes
<1>3. /\ Bytes(b, y) = [k \in 1 .. Len(d) - (n + 1) |-> d[n + 1 + k]]
      /\ Bytes(b, y) \in Seq(Byte) /\ Len(Bytes(b, y)) = Len(d) - (n + 1)
  <2>. DEFINE t == [k \in 1 .. Len(d) - (n + 1) |-> d[n + 1 + k]]
  <2>1. Bytes(b, y) = [k \in 1 .. Len(d) - (n + 1) |-> mem[b][n + 1 + k - 1]]
    BY DEF Bytes, CutAt
  <2>2. ASSUME NEW k \in 1 .. Len(d) - (n + 1)
        PROVE  mem[b][n + 1 + k - 1] = d[n + 1 + k] /\ d[n + 1 + k] \in Byte
    <3>1. n + 1 + k \in 1 .. Len(d)
      BY <1>1
    <3>. QED
      BY <1>1, <3>1 DEF Holds
  <2>3. Bytes(b, y) = t
    BY <2>1, <2>2
  <2>4. Len(d) - (n + 1) \in Nat
    BY <1>1
  <2>5. t \in Seq(Byte) /\ Len(t) = Len(d) - (n + 1)
    BY <2>2, <2>4
  <2>. QED
    BY <2>3, <2>5
<1>. DEFINE hb == Prefix(d, n)
            bb == Bytes(b, y)
            hs == hb \o <<separator>>
            whole == hs \o bb
<1>5. /\ hb \in Seq(Byte) /\ Len(hb) = n /\ \A k \in 1 .. n : hb[k] = d[k]
      /\ bb \in Seq(Byte) /\ Len(bb) = Len(d) - (n + 1)
      /\ \A k \in 1 .. Len(d) - (n + 1) : bb[k] = d[n + 1 + k]
  BY <1>2, <1>3 DEF Prefix
<1>6. <<separator>> \in Seq(Byte) /\ Len(<<separator>>) = 1 /\ <<separator>>[1] = separator
  BY ByteAssumption
<1>. HIDE DEF hb, bb
<1>7. /\ hs \in Seq(Byte) /\ Len(hs) = n + 1
      /\ \A k \in 1 .. n + 1 : hs[k] = d[k]
  <2>1. hs \in Seq(Byte) /\ Len(hs) = n + 1
    BY <1>1, <1>5, <1>6, ConcatProperties
  <2>2. ASSUME NEW k \in 1 .. n + 1 PROVE hs[k] = d[k]
    <3>1. hs[k] = IF k <= n THEN hb[k] ELSE <<separator>>[k - n]
      BY <1>1, <1>5, <1>6, ConcatProperties
    <3>2. CASE k <= n
      BY <3>1, <3>2, <1>1, <1>5
    <3>3. CASE k = n + 1
      <4>1. ~(k <= n) /\ k - n = 1
        BY <3>3, <1>1
      <4>2. hs[k] = separator
        BY <3>1, <4>1, <1>6
      <4>. QED
        BY <3>3, <4>2 DEF CutAt
    <3>4. k <= n \/ k = n + 1
      BY <1>1
    <3>. QED
      BY <3>2, <3>3, <3>4
  <2>. QED
    BY <2>1, <2>2
<1>. HIDE DEF hs
<1>8. /\ whole \in Seq(Byte) /\ Len(whole) = Len(d)
      /\ \A k \in 1 .. Len(d) : whole[k] = d[k]
  <2>1. whole \in Seq(Byte) /\ Len(whole) = Len(hs) + Len(bb)
    BY <1>5, <1>7, ConcatProperties
  <2>3. Len(hs) + Len(bb) = Len(d)
    BY <1>1, <1>5, <1>7
  <2>2. ASSUME NEW k \in 1 .. Len(d) PROVE whole[k] = d[k]
    <3>1. whole[k] = IF k <= n + 1 THEN hs[k] ELSE bb[k - (n + 1)]
      BY <1>1, <1>5, <1>7, ConcatProperties
    <3>2. CASE k <= n + 1
      BY <3>1, <3>2, <1>1, <1>7
    <3>3. CASE ~(k <= n + 1)
      <4>1. k - (n + 1) \in 1 .. Len(d) - (n + 1) /\ n + 1 + (k - (n + 1)) = k
        BY <3>3, <1>1
      <4>. QED
        BY <3>1, <3>3, <4>1, <1>5
    <3>. QED
      BY <3>2, <3>3
  <2>. QED
    BY <2>1, <2>2, <2>3
<1>9. whole = d
  BY <1>1, <1>8, SeqEqual
<1>10. \A k \in DOMAIN hb : hb[k] # separator
  BY <1>1, <1>5 DEF CutAt
<1>11. Splits(d, hb, bb)
  BY <1>9, <1>10 DEF Splits, hs
<1>12. Len(bb) = Len(d) - n - 1
  BY <1>1, <1>5
<1>. QED
  BY <1>2, <1>5, <1>11, <1>12 DEF hb, bb

\* Without a separator the header is the datagram.
LEMMA UncutWhole ==
  ASSUME NEW b, NEW d, Holds(b, d), NEW h, NEW y, Uncut(d, h, y)
  PROVE  Bytes(b, h) = d /\ Bytes(b, y) = << >> /\ \A k \in DOMAIN d : d[k] # separator
<1>1. d \in Seq(Byte) /\ Len(d) \in Nat /\ h = <<0, Len(d)>> /\ y = <<0, 0>>
  BY DEF Holds, Uncut
<1>2. /\ Bytes(b, h) = Prefix(d, Len(d))
      /\ Prefix(d, Len(d)) \in Seq(Byte) /\ Len(Prefix(d, Len(d))) = Len(d)
  <2>1. Len(d) \in 0 .. Len(d)
    BY <1>1
  <2>. QED
    BY <1>1, <2>1, PrefixBytes
<1>3. \A k \in 1 .. Len(d) : Prefix(d, Len(d))[k] = d[k]
  BY <1>1 DEF Prefix
<1>4. Bytes(b, h) = d
  BY <1>1, <1>2, <1>3, SeqEqual
<1>5. Bytes(b, y) = << >>
  <2>1. Bytes(b, y) = [k \in 1 .. 0 - 0 |-> mem[b][0 + k - 1]]
    BY <1>1 DEF Bytes
  <2>. QED
    BY <2>1
<1>. QED
  BY <1>1, <1>4, <1>5 DEF Uncut

-----------------------------------------------------------------------------
(* The steps *)

\* Nothing has been read.
LEMMA InvInit == ASSUME Init PROVE DatagramInv
BY DEF Init, DatagramInv, TypeOK, ReceiverInv, LoopInv

\* A datagram is written to a buffer that no segment has.
LEMMA ReadInv == ASSUME DatagramInv, Read PROVE DatagramInv'
<1>1. PICK b \in Buffer \ {s.PoolBuf : s \in sent}, d \in Datagrams :
        /\ bufPointer' = b
        /\ mem' = [mem EXCEPT ![b] =
             [k \in 0 .. receiveBufferSize - 1 |-> IF k < Len(d) THEN d[k + 1] ELSE @[k]]]
        /\ datagram' = d
        /\ rlen' = Len(d)
        /\ i' = 0
        /\ header' = <<0, Len(d)>>
        /\ body' = <<0, 0>>
        /\ pc' = "scan"
        /\ UNCHANGED sent
  BY DEF Read, Message
<1>2. d \in Seq(Byte) /\ Len(d) \in 1 .. receiveBufferSize /\ receiveBufferSize \in Nat
  BY DatagramsAssumption, SizeAssumption
<1>3. TypeOK'
  BY <1>1 DEF DatagramInv, TypeOK
<1>4. Holds(b, d)'
  <2>1. ASSUME NEW k \in 1 .. Len(d) PROVE mem'[b][k - 1] = d[k]
    <3>1. k - 1 \in 0 .. receiveBufferSize - 1 /\ k - 1 < Len(d) /\ (k - 1) + 1 = k
      BY <1>2
    <3>2. mem'[b] =
            [j \in 0 .. receiveBufferSize - 1 |-> IF j < Len(d) THEN d[j + 1] ELSE mem[b][j]]
      BY <1>1 DEF DatagramInv, TypeOK
    <3>. QED
      BY <3>1, <3>2
  <2>. QED
    BY <1>2, <2>1 DEF Holds
<1>5. ReceiverInv'
  BY <1>1, <1>4 DEF ReceiverInv
<1>6. LoopInv'
  BY <1>1, <1>2 DEF LoopInv
<1>7. ASSUME NEW s \in sent PROVE SegmentInv(s)'
  <2>1. SegmentInv(s) /\ s.PoolBuf # b
    BY <1>1 DEF DatagramInv
  <2>2. mem'[s.PoolBuf] = mem[s.PoolBuf]
    BY <1>1, <2>1 DEF DatagramInv, TypeOK, SegmentInv
  <2>. QED
    BY <2>1, <2>2 DEF SegmentInv, Holds
<1>. QED
  BY <1>1, <1>3, <1>5, <1>6, <1>7 DEF DatagramInv

\* Steps that write to no buffer keep what the segments have.
LEMMA SegmentsKept ==
  ASSUME DatagramInv, UNCHANGED mem, NEW s \in sent
  PROVE  SegmentInv(s)'
BY DEF DatagramInv, SegmentInv, Holds

\* The byte at i, which is byte i + 1 of the datagram.
LEMMA ByteAtI ==
  ASSUME DatagramInv, pc = "scan"
  PROVE  /\ i \in Nat /\ Len(datagram) \in Nat /\ i < Len(datagram)
         /\ mem[bufPointer][i] = datagram[i + 1]
<1>1. i \in 0 .. Len(datagram) - 1 /\ Holds(bufPointer, datagram)
  BY DEF DatagramInv, ReceiverInv, LoopInv
<1>2. Len(datagram) \in Nat
  BY <1>1 DEF Holds
<1>3. i + 1 \in 1 .. Len(datagram) /\ (i + 1) - 1 = i
  BY <1>1, <1>2
<1>. QED
  BY <1>1, <1>2, <1>3 DEF Holds

\* The separator.
LEMMA ScanMatchInv == ASSUME DatagramInv, ScanMatch PROVE DatagramInv'
<1>1. /\ pc = "scan" /\ pc' = "decide"
      /\ header' = <<0, i>> /\ body' = <<i + 1, rlen>>
      /\ mem[bufPointer][i] = separator
      /\ UNCHANGED <<bufPointer, mem, rlen, i, datagram, sent>>
  BY DEF ScanMatch
<1>2. TypeOK' /\ ReceiverInv'
  BY <1>1 DEF DatagramInv, TypeOK, ReceiverInv, Holds
<1>3. CutAt(datagram, header', body', i)
  <2>1. rlen = Len(datagram) /\ \A k \in 1 .. i : datagram[k] # separator
    BY <1>1 DEF DatagramInv, ReceiverInv, LoopInv
  <2>2. i \in 0 .. Len(datagram) - 1 /\ datagram[i + 1] = separator
    BY <1>1, ByteAtI
  <2>. QED
    BY <1>1, <2>1, <2>2 DEF CutAt
<1>4. CutAt(datagram, header, body, i)'
  BY <1>1, <1>3 DEF CutAt
<1>5. LoopInv'
  BY <1>1, <1>4 DEF LoopInv
<1>. QED
  BY <1>1, <1>2, <1>5, SegmentsKept DEF DatagramInv

\* Another byte.
LEMMA ScanNextInv == ASSUME DatagramInv, ScanNext PROVE DatagramInv'
<1>1. /\ pc = "scan"
      /\ i' = i + 1
      /\ pc' = IF i + 1 < rlen THEN "scan" ELSE "decide"
      /\ mem[bufPointer][i] # separator
      /\ UNCHANGED <<bufPointer, mem, rlen, header, body, datagram, sent>>
  BY DEF ScanNext
<1>2. TypeOK' /\ ReceiverInv'
  BY <1>1 DEF DatagramInv, TypeOK, ReceiverInv, Holds
<1>3. /\ rlen = Len(datagram) /\ \A k \in 1 .. i : datagram[k] # separator
      /\ header = <<0, rlen>> /\ body = <<0, 0>>
  BY <1>1 DEF DatagramInv, ReceiverInv, LoopInv
<1>4. /\ i \in Nat /\ Len(datagram) \in Nat /\ i < Len(datagram)
      /\ datagram[i + 1] # separator
  BY <1>1, ByteAtI
<1>5. \A k \in 1 .. i + 1 : datagram[k] # separator
  <2>1. \A k \in 1 .. i + 1 : k \in 1 .. i \/ k = i + 1
    BY <1>4
  <2>. QED
    BY <1>3, <1>4, <2>1
<1>6. CASE i + 1 < rlen
  <2>1. i + 1 \in 0 .. rlen - 1
    BY <1>3, <1>4, <1>6
  <2>2. LoopInv'
    BY <1>1, <1>3, <1>5, <1>6, <2>1 DEF LoopInv
  <2>. QED
    BY <1>1, <1>2, <2>2, SegmentsKept DEF DatagramInv
<1>7. CASE ~(i + 1 < rlen)
  <2>1. i + 1 = Len(datagram)
    BY <1>3, <1>4, <1>7
  <2>2. Uncut(datagram, header, body)'
    BY <1>1, <1>3, <1>5, <2>1 DEF Uncut
  <2>3. LoopInv'
    BY <1>1, <1>7, <2>2 DEF LoopInv
  <2>. QED
    BY <1>1, <1>2, <2>3, SegmentsKept DEF DatagramInv
<1>. QED
  BY <1>6, <1>7

\* The segment is sent, or its buffer returned.
LEMMA DecideInv == ASSUME DatagramInv, Decide PROVE DatagramInv'
<1>1. /\ pc = "decide" /\ pc' = "read"
      /\ UNCHANGED <<bufPointer, mem, rlen, i, header, body, datagram>>
      /\ sent' = IF Wellformed
                   THEN sent \cup {[Raw |-> body, PoolBuf |-> bufPointer, of |-> datagram]}
                   ELSE sent
  BY DEF Decide
<1>2. TypeOK' /\ ReceiverInv' /\ LoopInv'
  BY <1>1 DEF DatagramInv, TypeOK, ReceiverInv, LoopInv
<1>3. ASSUME Wellformed, NEW s, s = [Raw |-> body, PoolBuf |-> bufPointer, of |-> datagram]
      PROVE  SegmentInv(s)
  <2>1. Holds(bufPointer, datagram) /\ bufPointer \in Buffer
    BY <1>1 DEF DatagramInv, TypeOK, ReceiverInv
  <2>2. body[2] > body[1] /\ IsValid(Decode(Bytes(bufPointer, header)))
    BY <1>3 DEF Wellformed
  <2>3. ~Uncut(datagram, header, body)
    BY <2>2 DEF Uncut
  <2>4. PICK n : CutAt(datagram, header, body, n)
    BY <1>1, <2>3 DEF DatagramInv, LoopInv
  <2>5. n \in 0 .. Len(datagram) - 2
    <3>1. Len(datagram) \in Nat /\ n \in 0 .. Len(datagram) - 1
      BY <2>1, <2>4 DEF Holds, CutAt
    <3>2. body[1] = n + 1 /\ body[2] = Len(datagram)
      BY <2>4 DEF CutAt
    <3>. QED
      BY <2>2, <3>1, <3>2
  <2>6. CutAt(datagram, <<0, n>>, body, n)
    BY <2>4 DEF CutAt
  <2>7. IsValid(Decode(Prefix(datagram, n)))
    <3>1. Bytes(bufPointer, header) = Prefix(datagram, n)
      BY <2>1, <2>4, CutSplits
    <3>. QED
      BY <2>2, <3>1
  <2>8. s.PoolBuf = bufPointer /\ s.Raw = body /\ s.of = datagram
    BY <1>3
  <2>. QED
    BY <2>1, <2>5, <2>6, <2>7, <2>8 DEF SegmentInv
<1>4. ASSUME NEW s \in sent' PROVE SegmentInv(s)'
  <2>1. SegmentInv(s)
    BY <1>1, <1>3 DEF DatagramInv
  <2>. QED
    BY <1>1, <2>1 DEF SegmentInv, Holds
<1>. QED
  BY <1>2, <1>4 DEF DatagramInv

\* A segment leaves the pipeline.
LEMMA ReleaseInv == ASSUME DatagramInv, Release PROVE DatagramInv'
<1>1. /\ UNCHANGED <<pc, bufPointer, mem, rlen, i, header, body, datagram>>
      /\ sent' \subseteq sent
  BY DEF Release
<1>2. TypeOK' /\ ReceiverInv'
  BY <1>1 DEF DatagramInv, TypeOK, ReceiverInv, Holds
<1>3. LoopInv'
  BY <1>1 DEF DatagramInv, LoopInv, CutAt, Uncut
<1>. QED
  BY <1>1, <1>2, <1>3, SegmentsKept DEF DatagramInv

\* A step that changes nothing.
LEMMA StutterInv == ASSUME DatagramInv, UNCHANGED vars PROVE DatagramInv'
<1>1. UNCHANGED <<pc, bufPointer, mem, rlen, i, header, body, datagram, sent>>
  BY DEF vars
<1>2. TypeOK' /\ ReceiverInv'
  BY <1>1 DEF DatagramInv, TypeOK, ReceiverInv, Holds
<1>3. LoopInv'
  BY <1>1 DEF DatagramInv, LoopInv, CutAt, Uncut
<1>. QED
  BY <1>1, <1>2, <1>3, SegmentsKept DEF DatagramInv

\* The loop invariant and the segments' own hold in every state.
THEOREM DatagramInvariant == Spec => []DatagramInv
<1>1. DatagramInv /\ [Next]_vars => DatagramInv'
  BY ReadInv, ScanMatchInv, ScanNextInv, DecideInv, ReleaseInv, StutterInv DEF Next
<1>. QED
  BY <1>1, InvInit, PTL DEF Spec

\* What poll() splits off is exactly the datagram (SplitHeaderBody), for
\* datagrams and buffers of any size.
THEOREM SplitTheorem == Spec => []SplitExact
<1>1. DatagramInv => SplitExact
  <2>. SUFFICES ASSUME DatagramInv, pc = "decide" PROVE SplitExact
    BY DEF SplitExact
  <2>1. Holds(bufPointer, datagram)
    BY DEF DatagramInv, ReceiverInv
  <2>2. ASSUME NEW n, CutAt(datagram, header, body, n) PROVE SplitExact
    <3>1. Splits(datagram, Bytes(bufPointer, header), Bytes(bufPointer, body))
      BY <2>1, <2>2, CutSplits
    <3>. QED
      BY <3>1 DEF SplitExact
  <2>3. CASE Uncut(datagram, header, body)
    <3>1. /\ Bytes(bufPointer, header) = datagram /\ Bytes(bufPointer, body) = << >>
          /\ \A k \in DOMAIN datagram : datagram[k] # separator
      BY <2>1, <2>3, UncutWhole
    <3>. QED
      BY <3>1 DEF SplitExact
  <2>. QED
    BY <2>2, <2>3 DEF DatagramInv, LoopInv
<1>. QED
  BY <1>1, DatagramInvariant, PTL

\* A segment's payload stays the body of its datagram until its buffer is
\* returned, however many datagrams are read meanwhile.
THEOREM SegmentTheorem == Spec => []SegmentExact
<1>1. DatagramInv => SegmentExact
  <2>. SUFFICES ASSUME DatagramInv, NEW s \in sent
                PROVE  LET b == Bytes(s.PoolBuf, s.Raw) IN
                       /\ b # << >>
                       /\ Len(b) < Len(s.of)
                       /\ LET h == SubSeq(s.of, 1, Len(s.of) - Len(b) - 1)
                          IN  Splits(s.of, h, b) /\ IsValid(Decode(h))
    BY DEF SegmentExact
  <2>. DEFINE b == Bytes(s.PoolBuf, s.Raw)
              d == s.of
  <2>1. PICK n \in 0 .. Len(d) - 2 : /\ CutAt(d, <<0, n>>, s.Raw, n)
                                     /\ IsValid(Decode(Prefix(d, n)))
    BY DEF DatagramInv, SegmentInv
  <2>2. Holds(s.PoolBuf, d)
    BY DEF DatagramInv, SegmentInv
  <2>3. d \in Seq(Byte) /\ Len(d) \in Nat
    BY <2>2 DEF Holds
  <2>4. Len(b) = Len(d) - n - 1 /\ b \in Seq(Byte) /\ Splits(d, Prefix(d, n), b)
    BY <2>1, <2>2, CutSplits
  <2>. HIDE DEF b, d
  <2>5. b # << >> /\ Len(b) < Len(d) /\ Len(d) - Len(b) - 1 = n /\ n \in Nat /\ n <= Len(d)
    BY <2>1, <2>3, <2>4
  <2>6. SubSeq(d, 1, n) = Prefix(d, n)
    BY <2>3, <2>5 DEF Prefix
  <2>. QED
    BY <2>1, <2>4, <2>5, <2>6 DEF b, d
<1>. QED
  BY <1>1, DatagramInvariant, PTL
=============================================================================
