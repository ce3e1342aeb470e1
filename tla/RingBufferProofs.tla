--------------------------- MODULE RingBufferProofs ---------------------------
(***************************************************************************)
(* Proofs about RingBuffer used as in MCRingBuffer, for any number of      *)
(* senders, buffers and segments and any capacity of the channel: senders  *)
(* that truncate at the same time neither leak nor share a buffer, and     *)
(* every segment is in flight, delivered or counted as spillover.          *)
(***************************************************************************)
EXTENDS MCRingBuffer, BufferPoolProofs

USE DEF poolVars, sendVars, ringVars, clientVars

-----------------------------------------------------------------------------
(* The buffers of the segments that senders hold: f is sendSeg or sendOld. *)

MaybeSegment == TraceSegment \cup {noSegment}

Held(f) == {f[s].PoolBuf : s \in Sender} \ {nil}

HeldDistinct(f) ==
  \A r, s \in Sender : f[r].PoolBuf = f[s].PoolBuf /\ f[r].PoolBuf # nil => r = s

\* nil is not a buffer, so a segment is told from noSegment by its buffer.
LEMMA SegmentBuf ==
  ASSUME NEW seg \in MaybeSegment
  PROVE  /\ seg # noSegment <=> seg \in TraceSegment
         /\ seg \in TraceSegment <=> seg.PoolBuf \in Buffer
         /\ seg = noSegment <=> seg.PoolBuf = nil
BY bufferLimitAssumption DEF MaybeSegment, TraceSegment, noSegment, nil, Buffer

\* A sender without a segment gets one whose buffer no other sender has.
LEMMA HeldTakes ==
  ASSUME NEW f \in [Sender -> MaybeSegment], HeldDistinct(f), NEW s \in Sender,
         f[s] = noSegment, NEW seg \in TraceSegment, seg.PoolBuf \notin Held(f)
  PROVE  /\ [f EXCEPT ![s] = seg] \in [Sender -> MaybeSegment]
         /\ Held([f EXCEPT ![s] = seg]) = Held(f) \cup {seg.PoolBuf}
         /\ HeldDistinct([f EXCEPT ![s] = seg])
<1>1. seg \in MaybeSegment /\ seg.PoolBuf # nil /\ noSegment.PoolBuf = nil
  BY SegmentBuf, bufferLimitAssumption DEF MaybeSegment, noSegment, nil, Buffer
<1> QED
  BY <1>1 DEF Held, HeldDistinct

\* A sender lets go of its segment.
LEMMA HeldGives ==
  ASSUME NEW f \in [Sender -> MaybeSegment], HeldDistinct(f), NEW s \in Sender
  PROVE  /\ [f EXCEPT ![s] = noSegment] \in [Sender -> MaybeSegment]
         /\ Held([f EXCEPT ![s] = noSegment]) = Held(f) \ {f[s].PoolBuf}
         /\ HeldDistinct([f EXCEPT ![s] = noSegment])
<1>1. noSegment \in MaybeSegment /\ noSegment.PoolBuf = nil
  BY DEF MaybeSegment, noSegment
<1> QED
  BY <1>1 DEF Held, HeldDistinct

-----------------------------------------------------------------------------
(* The inductive invariant. *)

\* The buffer in the consumer's hands.
OutBuf == {out.PoolBuf} \ {nil}

ClientTypeOK ==
  /\ PoolTypeOK
  /\ TelemetryTypeOK
  /\ RingTypeOK
  /\ out \in MaybeSegment
  /\ made \in 0 .. MaxSegments
  /\ delivered \in Nat

\* Five places share the buffers of the pool among them.
Shared(pool, ring, send, old, consumer) ==
  /\ pool \cup ring \cup send \cup old \cup consumer = Buffer
  /\ pool \cap (ring \cup send \cup old \cup consumer) = {}
  /\ ring \cap (send \cup old \cup consumer) = {}
  /\ send \cap (old \cup consumer) = {}
  /\ old \cap consumer = {}

Owned ==
  /\ Distinct(c)
  /\ HeldDistinct(sendSeg)
  /\ HeldDistinct(sendOld)
  /\ Shared(InPool, Bufs(c), Held(sendSeg), Held(sendOld), OutBuf)

\* What a call of Send holds, by the place it is at; sendTmp was loaded from a
\* count that spillover has caught up with.
SendInv ==
  \A s \in Sender :
    /\ sendAt[s] = "idle" <=> sendSeg[s] = noSegment
    /\ sendAt[s] = "drop" <=> sendOld[s] # noSegment
    /\ sendTmp[s] <= T["spillover"]

RingInv ==
  /\ ClientTypeOK
  /\ PoolConsistent
  /\ Owned
  /\ SendInv
  /\ TruncationLedger

\* A step that leaves buffers where they are.
LEMMA FrameOwned ==
  ASSUME Owned, UNCHANGED <<Buffers, c, sendSeg, sendOld, out>>
  PROVE  Owned'
<1>1. InPool' = InPool /\ OutBuf' = OutBuf
  BY DEF InPool, OutBuf
<1>2. Bufs(c)' = Bufs(c) /\ Held(sendSeg)' = Held(sendSeg) /\ Held(sendOld)' = Held(sendOld)
  BY DEF Bufs, Held
<1>3. Distinct(c)' /\ HeldDistinct(sendSeg)' /\ HeldDistinct(sendOld)'
  BY DEF Owned, Distinct, HeldDistinct
<1> QED
  BY <1>1, <1>2, <1>3 DEF Owned, Shared

\* A step that leaves the pool alone.
LEMMA FramePool ==
  UNCHANGED poolVars => /\ InPool' = InPool
                        /\ PoolTypeOK => PoolTypeOK'
                        /\ PoolConsistent => PoolConsistent'
BY DEF PoolTypeOK, PoolConsistent, HashMatchesStack, NoDuplicates, WithinLimit, InPool

\* The parts of the type invariant in terms of MaybeSegment.
LEMMA SendTypes ==
  ASSUME RingTypeOK
  PROVE  /\ c \in Seq(TraceSegment)
         /\ sendSeg \in [Sender -> MaybeSegment]
         /\ sendOld \in [Sender -> MaybeSegment]
BY DEF RingTypeOK, MaybeSegment

-----------------------------------------------------------------------------
(* The ledger. *)

Calls == Busy({"try", "full", "drop"})
Drops == Busy({"drop"})

\* The senders in Send are finitely many.
LEMMA BusyFinite ==
  /\ IsFiniteSet(Calls) /\ Cardinality(Calls) \in Nat
  /\ IsFiniteSet(Drops) /\ Cardinality(Drops) \in Nat
<1>1. Calls \subseteq Sender /\ Drops \subseteq Sender
  BY DEF Calls, Drops, Busy
<1> QED
  BY <1>1, ClientAssumption, FS_Subset, FS_CardinalityType

\* The segments in the consumer's hands.
Handed == IF out = noSegment THEN 0 ELSE 1

\* The ledger by its terms.
LEMMA LedgerIs ==
  TruncationLedger <=>
    /\ made = Cardinality(Calls) + Len(c) + Handed + delivered
              + Cardinality(Drops) + T["spillover"]
    /\ count <= T["spillover"]
<1>1. {out} \ {noSegment} = IF out = noSegment THEN {} ELSE {out}
  OBVIOUS
<1>2. Cardinality({out} \ {noSegment}) = Handed
  BY <1>1, FS_EmptySet, FS_Singleton DEF Handed
<1> QED
  BY <1>2 DEF TruncationLedger, Calls, Drops

\* The terms are numbers.
LEMMA LedgerNumbers ==
  ASSUME ClientTypeOK
  PROVE  /\ Cardinality(Calls) \in Nat /\ Cardinality(Drops) \in Nat
         /\ Len(c) \in Nat /\ Handed \in Nat /\ T["spillover"] \in Nat
         /\ made \in Nat /\ delivered \in Nat /\ count \in Nat
<1>1. Len(c) \in Nat /\ T["spillover"] \in Nat /\ made \in Nat /\ delivered \in Nat /\ count \in Nat
  BY ClientAssumption DEF ClientTypeOK, RingTypeOK, TelemetryTypeOK, CounterNames
<1>2. Handed \in Nat
  BY DEF Handed
<1> QED
  BY <1>1, <1>2, BusyFinite

\* The same after a step.
LEMMA LedgerIsNext ==
  TruncationLedger' <=>
    /\ made' = Cardinality(Calls') + Len(c') + Handed' + delivered'
               + Cardinality(Drops') + T'["spillover"]
    /\ count' <= T'["spillover"]
<1>1. {out'} \ {noSegment} = IF out' = noSegment THEN {} ELSE {out'}
  OBVIOUS
<1>2. Cardinality({out'} \ {noSegment}) = Handed'
  BY <1>1, FS_EmptySet, FS_Singleton DEF Handed
<1> QED
  BY <1>2 DEF TruncationLedger, Calls, Drops

\* The same numbers after a step.
LEMMA LedgerNumbersNext ==
  ASSUME ClientTypeOK'
  PROVE  /\ Cardinality(Calls') \in Nat /\ Cardinality(Drops') \in Nat
         /\ Len(c') \in Nat /\ Handed' \in Nat /\ T'["spillover"] \in Nat
         /\ made' \in Nat /\ delivered' \in Nat /\ count' \in Nat
<1>1. /\ Len(c') \in Nat /\ T'["spillover"] \in Nat
      /\ made' \in Nat /\ delivered' \in Nat /\ count' \in Nat
  BY ClientAssumption DEF ClientTypeOK, RingTypeOK, TelemetryTypeOK, CounterNames
<1>2. Handed' \in Nat
  BY DEF Handed
<1>3. Calls' \subseteq Sender /\ Drops' \subseteq Sender
  BY DEF Calls, Drops, Busy
<1>4. Cardinality(Calls') \in Nat /\ Cardinality(Drops') \in Nat
  BY <1>3, ClientAssumption, FS_Subset, FS_CardinalityType
<1> QED
  BY <1>1, <1>2, <1>4

\* A step keeps the ledger if what enters or leaves its places balances.
LEMMA LedgerMoves ==
  ASSUME ClientTypeOK, ClientTypeOK', TruncationLedger,
         made' - made = (Cardinality(Calls') - Cardinality(Calls)) + (Len(c') - Len(c))
                        + (Handed' - Handed) + (delivered' - delivered)
                        + (Cardinality(Drops') - Cardinality(Drops))
                        + (T'["spillover"] - T["spillover"]),
         count' <= T'["spillover"]
  PROVE  TruncationLedger'
<1>1. PICK a0 \in Nat, a1 \in Nat, a2 \in Nat, a3 \in Nat, a4 \in Nat, a5 \in Nat, a6 \in Nat :
        /\ a0 = made /\ a1 = Cardinality(Calls) /\ a2 = Len(c) /\ a3 = Handed
        /\ a4 = delivered /\ a5 = Cardinality(Drops) /\ a6 = T["spillover"]
  BY LedgerNumbers
<1>2. PICK b0 \in Nat, b1 \in Nat, b2 \in Nat, b3 \in Nat, b4 \in Nat, b5 \in Nat, b6 \in Nat :
        /\ b0 = made' /\ b1 = Cardinality(Calls') /\ b2 = Len(c') /\ b3 = Handed'
        /\ b4 = delivered' /\ b5 = Cardinality(Drops') /\ b6 = T'["spillover"]
  BY LedgerNumbersNext
<1>3. a0 = a1 + a2 + a3 + a4 + a5 + a6
  BY <1>1, LedgerIs
<1>4. b0 - a0 = (b1 - a1) + (b2 - a2) + (b3 - a3) + (b4 - a4) + (b5 - a5) + (b6 - a6)
  BY <1>1, <1>2
<1>5. b0 = b1 + b2 + b3 + b4 + b5 + b6
  BY <1>3, <1>4
<1> QED
  BY <1>2, <1>5, LedgerIsNext

-----------------------------------------------------------------------------
(* What the invariant says, in the form the steps use it. *)

\* nil is not a buffer.
LEMMA NilNoBuffer == nil \notin Buffer
BY bufferLimitAssumption DEF nil, Buffer

\* The buffers of the pool, the channel, the senders and the consumer.
LEMMA OwnedBufs ==
  ASSUME Owned
  PROVE  /\ InPool \subseteq Buffer
         /\ Bufs(c) \subseteq Buffer
         /\ Held(sendSeg) \subseteq Buffer
         /\ Held(sendOld) \subseteq Buffer
         /\ OutBuf \subseteq Buffer
BY DEF Owned, Shared

\* Get and Send: a buffer of the pool goes to a sender.
LEMMA ClientSendInv ==
  ASSUME RingInv, NEW s \in Sender, ClientSend(s)
  PROVE  RingInv'
<1> USE DEF RingInv, ClientTypeOK
<1>1. PICK b \in Buffer : Get(b) /\ SendCall(s, [PoolBuf |-> b, Raw |-> made + 1])
  BY DEF ClientSend
<1> DEFINE seg == [PoolBuf |-> b, Raw |-> made + 1]
<1>2. /\ made < MaxSegments
      /\ made' = made + 1
      /\ UNCHANGED <<T, out, delivered>>
  BY DEF ClientSend
<1>3. /\ sendAt[s] = "idle"
      /\ sendAt' = [sendAt EXCEPT ![s] = "try"]
      /\ sendSeg' = [sendSeg EXCEPT ![s] = seg]
      /\ UNCHANGED <<c, closed, count, sendOld, sendTmp, panic>>
  BY <1>1 DEF SendCall
<1>4. seg \in TraceSegment /\ seg.PoolBuf = b /\ seg # noSegment
  BY <1>2, ClientAssumption, NilNoBuffer DEF TraceSegment, SegmentIds, noSegment
<1>5. sendSeg[s] = noSegment
  BY <1>3 DEF SendInv
<1>6. PoolTypeOK' /\ PoolConsistent' /\ b \in InPool /\ InPool' = InPool \ {b}
  BY <1>1, GetEffect, NilNoBuffer
<1>7. b \notin Held(sendSeg)
  BY <1>6 DEF Owned, Shared
<1>8. /\ sendSeg' \in [Sender -> MaybeSegment]
      /\ Held(sendSeg)' = Held(sendSeg) \cup {b}
      /\ HeldDistinct(sendSeg)'
  <2> HIDE DEF seg
  <2>1. Held([sendSeg EXCEPT ![s] = seg]) = Held(sendSeg) \cup {seg.PoolBuf}
    BY <1>4, <1>5, <1>7, SendTypes, HeldTakes DEF Owned
  <2>2. /\ [sendSeg EXCEPT ![s] = seg] \in [Sender -> MaybeSegment]
        /\ HeldDistinct([sendSeg EXCEPT ![s] = seg])
    BY <1>4, <1>5, <1>7, SendTypes, HeldTakes DEF Owned
  <2>3. Held(sendSeg') = Held(sendSeg) \cup {b} /\ HeldDistinct(sendSeg')
    BY <1>3, <1>4, <2>1, <2>2
  <2> QED
    BY <1>3, <2>2, <2>3 DEF Held, HeldDistinct
<1>9. Owned'
  <2>1. /\ Bufs(c)' = Bufs(c) /\ Distinct(c)'
        /\ Held(sendOld)' = Held(sendOld) /\ HeldDistinct(sendOld)'
        /\ OutBuf' = OutBuf
    BY <1>2, <1>3 DEF Owned, Bufs, Distinct, Held, HeldDistinct, OutBuf
  <2>2. Shared(InPool, Bufs(c), Held(sendSeg), Held(sendOld), OutBuf)'
    BY <1>6, <1>8, <2>1 DEF Owned, Shared
  <2> QED
    BY <1>8, <2>1, <2>2 DEF Owned
<1>10. ClientTypeOK'
  <2>1. RingTypeOK'
    BY <1>3, <1>8 DEF RingTypeOK, MaybeSegment
  <2>2. made' \in 0 .. MaxSegments
    BY <1>2, ClientAssumption
  <2> QED
    BY <1>2, <1>6, <2>1, <2>2 DEF TelemetryTypeOK
<1>11. SendInv'
  BY <1>2, <1>3, <1>4 DEF SendInv, RingTypeOK
<1>12. TruncationLedger'
  <2>1. Calls' = Calls \cup {s} /\ s \notin Calls /\ Drops' = Drops
    BY <1>3 DEF Calls, Drops, Busy, RingTypeOK
  <2>2. Cardinality(Calls') = Cardinality(Calls) + 1
    BY <2>1, BusyFinite, FS_AddElement
  <2>3. /\ Cardinality(Drops') = Cardinality(Drops) /\ Handed' = Handed
        /\ UNCHANGED <<T, c, count, delivered>>
    BY <1>2, <1>3, <2>1 DEF Handed
  <2>4. ClientTypeOK /\ TruncationLedger
    OBVIOUS
  <2> HIDE DEF RingInv, ClientTypeOK
  <2> QED
    BY <1>2, <1>10, <2>2, <2>3, <2>4, LedgerNumbers, LedgerIs, LedgerMoves
<1> QED
  BY <1>6, <1>9, <1>10, <1>11, <1>12

\* case r.c <- s: a sender's buffer goes into the channel.
LEMMA SendEnqueueInv ==
  ASSUME RingInv, NEW s \in Sender, SendEnqueue(s), UNCHANGED clientVars
  PROVE  RingInv'
<1> USE DEF RingInv, ClientTypeOK
<1>1. /\ sendAt[s] = "try"
      /\ c' = Append(c, sendSeg[s])
      /\ sendAt' = [sendAt EXCEPT ![s] = "idle"]
      /\ sendSeg' = [sendSeg EXCEPT ![s] = noSegment]
      /\ UNCHANGED <<closed, count, sendOld, sendTmp, panic, T, poolVars>>
      /\ UNCHANGED <<made, out, delivered>>
  BY DEF SendEnqueue
<1> DEFINE b == sendSeg[s].PoolBuf
<1>2. sendSeg[s] \in TraceSegment /\ b \in Buffer /\ b # nil
  BY <1>1, SendTypes, SegmentBuf, NilNoBuffer DEF SendInv
<1>3. b \in Held(sendSeg)
  BY <1>2 DEF Held
<1>4. b \notin Bufs(c)
  BY <1>3 DEF Owned, Shared
<1>5. /\ c' \in Seq(TraceSegment)
      /\ Bufs(c)' = Bufs(c) \cup {b}
      /\ Distinct(c)'
  <2>1. /\ Append(c, sendSeg[s]) \in Seq(TraceSegment)
        /\ Bufs(Append(c, sendSeg[s])) = Bufs(c) \cup {b}
        /\ Distinct(Append(c, sendSeg[s]))
    BY <1>2, <1>4, SendTypes, AppendBufs DEF Owned
  <2> QED
    BY <1>1, <2>1 DEF Bufs, Distinct
<1>6. /\ sendSeg' \in [Sender -> MaybeSegment]
      /\ Held(sendSeg)' = Held(sendSeg) \ {b}
      /\ HeldDistinct(sendSeg)'
  <2>1. /\ Held([sendSeg EXCEPT ![s] = noSegment]) = Held(sendSeg) \ {b}
        /\ [sendSeg EXCEPT ![s] = noSegment] \in [Sender -> MaybeSegment]
        /\ HeldDistinct([sendSeg EXCEPT ![s] = noSegment])
    BY SendTypes, HeldGives DEF Owned
  <2> QED
    BY <1>1, <2>1 DEF Held, HeldDistinct
<1>7. Owned'
  <2>1. /\ InPool' = InPool
        /\ Held(sendOld)' = Held(sendOld) /\ HeldDistinct(sendOld)'
        /\ OutBuf' = OutBuf
    BY <1>1, FramePool DEF Owned, Held, HeldDistinct, OutBuf
  <2>2. Shared(InPool, Bufs(c), Held(sendSeg), Held(sendOld), OutBuf)'
    BY <1>3, <1>5, <1>6, <2>1 DEF Owned, Shared
  <2> QED
    BY <1>5, <1>6, <2>1, <2>2 DEF Owned
<1>8. ClientTypeOK' /\ PoolConsistent'
  <2>1. RingTypeOK'
    BY <1>1, <1>5, <1>6 DEF RingTypeOK, MaybeSegment
  <2> QED
    BY <1>1, <2>1, FramePool DEF TelemetryTypeOK
<1>9. SendInv'
  BY <1>1, SendTypes DEF SendInv, RingTypeOK
<1>10. TruncationLedger'
  <2>1. Calls' = Calls \ {s} /\ s \in Calls /\ Drops' = Drops
    BY <1>1 DEF Calls, Drops, Busy, RingTypeOK
  <2>2. Cardinality(Calls') = Cardinality(Calls) - 1
    BY <2>1, BusyFinite, FS_RemoveElement
  <2>3. Len(c') = Len(c) + 1 /\ Len(c) \in Nat
    BY <1>1, <1>2, SendTypes
  <2>4. /\ Cardinality(Drops') = Cardinality(Drops) /\ Handed' = Handed
        /\ UNCHANGED <<T, count, made, delivered>>
    BY <1>1, <2>1 DEF Handed
  <2>5. ClientTypeOK /\ TruncationLedger
    OBVIOUS
  <2> HIDE DEF RingInv, ClientTypeOK
  <2> QED
    BY <1>8, <2>2, <2>3, <2>4, <2>5, LedgerNumbers, LedgerIs, LedgerMoves
<1> QED
  BY <1>7, <1>8, <1>9, <1>10

\* A step that moves a sender between "try" and "full", closes the channel or
\* panics, and leaves the data alone.
LEMMA MoveInv ==
  ASSUME RingInv,
         UNCHANGED <<poolVars, T, c, count, sendSeg, sendOld, sendTmp, made, out, delivered>>,
         closed' \in BOOLEAN, panic' \in BOOLEAN,
         \/ UNCHANGED sendAt
         \/ \E s \in Sender, pl \in {"try", "full"} :
              sendAt[s] \in {"try", "full"} /\ sendAt' = [sendAt EXCEPT ![s] = pl]
  PROVE  RingInv'
<1> USE DEF RingInv, ClientTypeOK
<1>1. sendAt' \in [Sender -> {"idle", "try", "full", "drop"}]
  BY DEF RingTypeOK
<1>2. \A s \in Sender : /\ sendAt'[s] = "idle" <=> sendAt[s] = "idle"
                        /\ sendAt'[s] = "drop" <=> sendAt[s] = "drop"
  BY DEF RingTypeOK
<1>3. ClientTypeOK' /\ PoolConsistent'
  BY <1>1, FramePool DEF RingTypeOK, TelemetryTypeOK
<1>4. Owned'
  BY FrameOwned
<1>5. SendInv'
  BY <1>2 DEF SendInv
<1>6. TruncationLedger'
  <2>1. Calls' = Calls /\ Drops' = Drops
    BY <1>1, <1>2 DEF Calls, Drops, Busy, RingTypeOK
  <2> QED
    BY <2>1 DEF TruncationLedger, Calls, Drops
<1> QED
  BY <1>3, <1>4, <1>5, <1>6

\* case segmentTruncated = <-r.c: the oldest segment goes to the sender.
LEMMA SendTruncateInv ==
  ASSUME RingInv, NEW s \in Sender, SendTruncate(s), UNCHANGED clientVars
  PROVE  RingInv'
<1> USE DEF RingInv, ClientTypeOK
<1>1. /\ sendAt[s] = "full"
      /\ c # << >>
      /\ sendOld' = [sendOld EXCEPT ![s] = Head(c)]
      /\ sendTmp' = [sendTmp EXCEPT ![s] = count]
      /\ c' = Tail(c)
      /\ sendAt' = [sendAt EXCEPT ![s] = "drop"]
      /\ UNCHANGED <<closed, count, sendSeg, panic, T, poolVars>>
      /\ UNCHANGED <<made, out, delivered>>
  BY DEF SendTruncate
<1> DEFINE b == Head(c).PoolBuf
<1>2. /\ c' \in Seq(TraceSegment)
      /\ Head(c) \in TraceSegment
      /\ b \in Bufs(c)
      /\ Bufs(c)' = Bufs(c) \ {b}
      /\ Distinct(c)'
  <2>1. /\ Tail(c) \in Seq(TraceSegment)
        /\ Head(c) \in TraceSegment
        /\ b \in Bufs(c)
        /\ Bufs(Tail(c)) = Bufs(c) \ {b}
        /\ Distinct(Tail(c))
    BY <1>1, SendTypes, TailBufs DEF Owned
  <2> QED
    BY <1>1, <2>1 DEF Bufs, Distinct
<1>3. sendOld[s] = noSegment /\ Head(c) # noSegment
  BY <1>1, <1>2, SegmentBuf DEF SendInv, MaybeSegment
<1>4. b \notin Held(sendOld)
  BY <1>2 DEF Owned, Shared
<1>5. /\ sendOld' \in [Sender -> MaybeSegment]
      /\ Held(sendOld)' = Held(sendOld) \cup {b}
      /\ HeldDistinct(sendOld)'
  <2>1. /\ Held([sendOld EXCEPT ![s] = Head(c)]) = Held(sendOld) \cup {b}
        /\ [sendOld EXCEPT ![s] = Head(c)] \in [Sender -> MaybeSegment]
        /\ HeldDistinct([sendOld EXCEPT ![s] = Head(c)])
    BY <1>2, <1>3, <1>4, SendTypes, HeldTakes DEF Owned
  <2> QED
    BY <1>1, <2>1 DEF Held, HeldDistinct
<1>6. Owned'
  <2>1. /\ InPool' = InPool
        /\ Held(sendSeg)' = Held(sendSeg) /\ HeldDistinct(sendSeg)'
        /\ OutBuf' = OutBuf
    BY <1>1, FramePool DEF Owned, Held, HeldDistinct, OutBuf
  <2>2. Shared(InPool, Bufs(c), Held(sendSeg), Held(sendOld), OutBuf)'
    BY <1>2, <1>5, <2>1 DEF Owned, Shared
  <2> QED
    BY <1>2, <1>5, <2>1, <2>2 DEF Owned
<1>7. ClientTypeOK' /\ PoolConsistent'
  <2>1. RingTypeOK'
    BY <1>1, <1>2, <1>5 DEF RingTypeOK, MaybeSegment
  <2> QED
    BY <1>1, <2>1, FramePool DEF TelemetryTypeOK
<1>8. SendInv'
  <2>1. count <= T["spillover"]
    BY LedgerIs
  <2> QED
    BY <1>1, <1>3, <2>1, SendTypes DEF SendInv, RingTypeOK
<1>9. TruncationLedger'
  <2>1. Calls' = Calls /\ Drops' = Drops \cup {s} /\ s \notin Drops
    BY <1>1 DEF Calls, Drops, Busy, RingTypeOK
  <2>2. Cardinality(Drops') = Cardinality(Drops) + 1 /\ Cardinality(Calls') = Cardinality(Calls)
    BY <2>1, BusyFinite, FS_AddElement
  <2>3. Len(c') = Len(c) - 1
    BY <1>1, SendTypes
  <2>4. ClientTypeOK /\ TruncationLedger
    OBVIOUS
  <2>5. UNCHANGED <<made, delivered, count, T>> /\ Handed' = Handed
    BY <1>1 DEF Handed
  <2> HIDE DEF RingInv, ClientTypeOK
  <2> QED
    BY <1>7, <2>2, <2>3, <2>4, <2>5, LedgerNumbers, LedgerIs, LedgerMoves
<1> QED
  BY <1>6, <1>7, <1>8, <1>9

\* The dropped segment's buffer goes back to the pool, which takes it, and the
\* spillover is counted.
LEMMA SendDropInv ==
  ASSUME RingInv, NEW s \in Sender, SendDrop(s), UNCHANGED clientVars
  PROVE  RingInv'
<1> USE DEF RingInv, ClientTypeOK
<1> DEFINE b == sendOld[s].PoolBuf
<1>1. /\ sendAt[s] = "drop"
      /\ count' = sendTmp[s] + 1
      /\ Return(b)
      /\ T' = [T EXCEPT !["spillover"] = @ + 1]
      /\ sendOld' = [sendOld EXCEPT ![s] = noSegment]
      /\ sendTmp' = [sendTmp EXCEPT ![s] = 0]
      /\ sendAt' = [sendAt EXCEPT ![s] = "try"]
      /\ UNCHANGED <<c, closed, sendSeg, panic>>
      /\ UNCHANGED <<made, out, delivered>>
  BY DEF SendDrop, SegmentSpillover, Counted
<1>2. sendOld[s] \in TraceSegment /\ b \in Buffer /\ b # nil
  BY <1>1, SendTypes, SegmentBuf, NilNoBuffer DEF SendInv
<1>3. b \in Held(sendOld)
  BY <1>2 DEF Held
<1>4. b \notin InPool /\ InPool \subseteq Buffer
  BY <1>3, OwnedBufs DEF Owned, Shared
<1>5. PoolTypeOK' /\ PoolConsistent' /\ InPool' = InPool \cup {b}
  BY <1>1, <1>2, <1>4, ReturnConsistent, ReturnEffect
<1>6. /\ sendOld' \in [Sender -> MaybeSegment]
      /\ Held(sendOld)' = Held(sendOld) \ {b}
      /\ HeldDistinct(sendOld)'
  <2>1. /\ Held([sendOld EXCEPT ![s] = noSegment]) = Held(sendOld) \ {b}
        /\ [sendOld EXCEPT ![s] = noSegment] \in [Sender -> MaybeSegment]
        /\ HeldDistinct([sendOld EXCEPT ![s] = noSegment])
    BY SendTypes, HeldGives DEF Owned
  <2> QED
    BY <1>1, <2>1 DEF Held, HeldDistinct
<1>7. Owned'
  <2>1. /\ Bufs(c)' = Bufs(c) /\ Distinct(c)'
        /\ Held(sendSeg)' = Held(sendSeg) /\ HeldDistinct(sendSeg)'
        /\ OutBuf' = OutBuf
    BY <1>1 DEF Owned, Bufs, Distinct, Held, HeldDistinct, OutBuf
  <2>2. Shared(InPool, Bufs(c), Held(sendSeg), Held(sendOld), OutBuf)'
    BY <1>3, <1>5, <1>6, <2>1 DEF Owned, Shared
  <2> QED
    BY <1>6, <2>1, <2>2 DEF Owned
<1>8. /\ T' \in [CounterNames -> Nat] /\ T'["spillover"] = T["spillover"] + 1
      /\ T["spillover"] \in Nat
  BY <1>1 DEF TelemetryTypeOK, CounterNames
<1>9. ClientTypeOK'
  <2>1. RingTypeOK'
    BY <1>1, <1>6 DEF RingTypeOK, MaybeSegment
  <2> QED
    BY <1>1, <1>5, <1>8, <2>1 DEF TelemetryTypeOK
<1>10. SendInv'
  BY <1>1, <1>8, SendTypes DEF SendInv, RingTypeOK
<1>11. TruncationLedger'
  <2>1. Calls' = Calls /\ Drops' = Drops \ {s} /\ s \in Drops
    BY <1>1 DEF Calls, Drops, Busy, RingTypeOK
  <2>2. Cardinality(Drops') = Cardinality(Drops) - 1 /\ Cardinality(Calls') = Cardinality(Calls)
    BY <2>1, BusyFinite, FS_RemoveElement
  <2>3. sendTmp[s] <= T["spillover"] /\ sendTmp[s] \in Nat
    BY DEF SendInv, RingTypeOK
  <2>4. ClientTypeOK /\ TruncationLedger
    OBVIOUS
  <2>5. UNCHANGED <<made, delivered, c>> /\ Handed' = Handed /\ count' = sendTmp[s] + 1
    BY <1>1 DEF Handed
  <2>6. T'["spillover"] = T["spillover"] + 1 /\ T["spillover"] \in Nat
    BY <1>8
  <2>7. count' <= T'["spillover"]
    BY <2>3, <2>5, <2>6
  <2> HIDE DEF RingInv, ClientTypeOK
  <2> QED
    BY <1>9, <2>2, <2>4, <2>5, <2>6, <2>7, LedgerNumbers, LedgerMoves
<1> QED
  BY <1>5, <1>7, <1>9, <1>10, <1>11

\* A step of Send.
LEMMA SendStepInv ==
  ASSUME RingInv, NEW s \in Sender, SendStep(s)
  PROVE  RingInv'
<1>1. UNCHANGED clientVars
  BY DEF SendStep
<1>2. CASE SendEnqueue(s)
  BY <1>1, <1>2, SendEnqueueInv
<1>3. CASE SendPanic(s)
  <2>1. closed' \in BOOLEAN /\ panic' \in BOOLEAN
    BY <1>3 DEF SendPanic, RingInv, ClientTypeOK, RingTypeOK
  <2> QED
    BY <1>1, <1>3, <2>1, MoveInv DEF SendPanic
<1>4. CASE SendFull(s)
  <2>1. closed' \in BOOLEAN /\ panic' \in BOOLEAN
    BY <1>4 DEF SendFull, RingInv, ClientTypeOK, RingTypeOK
  <2> QED
    BY <1>1, <1>4, <2>1, MoveInv DEF SendFull
<1>5. CASE SendTruncate(s)
  BY <1>1, <1>5, SendTruncateInv
<1>6. CASE SendDequeued(s)
  <2>1. closed' \in BOOLEAN /\ panic' \in BOOLEAN
    BY <1>6 DEF SendDequeued, RingInv, ClientTypeOK, RingTypeOK
  <2>2. UNCHANGED <<poolVars, T, c, count, sendSeg, sendOld, sendTmp, made, out, delivered>>
    BY <1>1, <1>6 DEF SendDequeued
  <2>3. \/ UNCHANGED sendAt
        \/ sendAt[s] \in {"try", "full"} /\ sendAt' = [sendAt EXCEPT ![s] = "try"]
    BY <1>6 DEF SendDequeued
  <2> QED
    BY <2>1, <2>2, <2>3, MoveInv
<1>7. CASE SendDrop(s)
  BY <1>1, <1>7, SendDropInv
<1> QED
  BY <1>2, <1>3, <1>4, <1>5, <1>6, <1>7 DEF SendStep, SendRetry

\* The consumer takes the oldest segment of the channel.
LEMMA ConsumerReceiveInv ==
  ASSUME RingInv, ConsumerReceive
  PROVE  RingInv'
<1> USE DEF RingInv, ClientTypeOK
<1>1. /\ out = noSegment
      /\ c # << >>
      /\ out' = Head(c)
      /\ c' = Tail(c)
      /\ UNCHANGED <<closed, count, sendVars, panic>>
      /\ UNCHANGED <<poolVars, T, made, delivered>>
  BY DEF ConsumerReceive, Receive
<1> DEFINE b == Head(c).PoolBuf
<1>2. /\ c' \in Seq(TraceSegment)
      /\ Head(c) \in TraceSegment
      /\ b \in Bufs(c)
      /\ Bufs(c)' = Bufs(c) \ {b}
      /\ Distinct(c)'
  <2>1. /\ Tail(c) \in Seq(TraceSegment)
        /\ Head(c) \in TraceSegment
        /\ b \in Bufs(c)
        /\ Bufs(Tail(c)) = Bufs(c) \ {b}
        /\ Distinct(Tail(c))
    BY <1>1, SendTypes, TailBufs DEF Owned
  <2> QED
    BY <1>1, <2>1 DEF Bufs, Distinct
<1>3. Head(c) # noSegment /\ b # nil /\ noSegment.PoolBuf = nil
  BY <1>2, SegmentBuf, NilNoBuffer DEF MaybeSegment, noSegment
<1>4. OutBuf = {} /\ OutBuf' = {b}
  BY <1>1, <1>3 DEF OutBuf
<1>5. Owned'
  <2>1. /\ InPool' = InPool
        /\ Held(sendSeg)' = Held(sendSeg) /\ HeldDistinct(sendSeg)'
        /\ Held(sendOld)' = Held(sendOld) /\ HeldDistinct(sendOld)'
    BY <1>1, FramePool DEF Owned, Held, HeldDistinct
  <2>2. Shared(InPool, Bufs(c), Held(sendSeg), Held(sendOld), OutBuf)'
    BY <1>2, <1>4, <2>1 DEF Owned, Shared
  <2> QED
    BY <1>2, <2>1, <2>2 DEF Owned
<1>6. ClientTypeOK' /\ PoolConsistent'
  <2>1. RingTypeOK'
    BY <1>1, <1>2 DEF RingTypeOK
  <2>2. out' \in MaybeSegment
    BY <1>1, <1>2 DEF MaybeSegment
  <2> QED
    BY <1>1, <2>1, <2>2, FramePool DEF TelemetryTypeOK
<1>7. SendInv'
  BY <1>1 DEF SendInv
<1>8. TruncationLedger'
  <2>1. Calls' = Calls /\ Drops' = Drops
    BY <1>1 DEF Calls, Drops, Busy
  <2>2. Cardinality(Drops') = Cardinality(Drops) /\ Cardinality(Calls') = Cardinality(Calls)
    BY <2>1
  <2>3. Len(c') = Len(c) - 1
    BY <1>1, SendTypes
  <2>4. ClientTypeOK /\ TruncationLedger
    OBVIOUS
  <2>5. UNCHANGED <<made, delivered, count, T>> /\ Handed = 0 /\ Handed' = 1
    BY <1>1, <1>3 DEF Handed
  <2> HIDE DEF RingInv, ClientTypeOK
  <2> QED
    BY <1>6, <2>2, <2>3, <2>4, <2>5, LedgerNumbers, LedgerIs, LedgerMoves
<1> QED
  BY <1>5, <1>6, <1>7, <1>8

\* The consumer gives the buffer back, and the pool takes it.
LEMMA ConsumerReturnInv ==
  ASSUME RingInv, ConsumerReturn
  PROVE  RingInv'
<1> USE DEF RingInv, ClientTypeOK
<1> DEFINE b == out.PoolBuf
<1>1. /\ out # noSegment
      /\ Return(b)
      /\ out' = noSegment
      /\ delivered' = delivered + 1
      /\ UNCHANGED <<c, closed, count, sendAt, sendSeg, sendOld, sendTmp, panic>>
      /\ UNCHANGED <<T, made>>
  BY DEF ConsumerReturn
<1>2. b \in Buffer /\ b # nil /\ noSegment.PoolBuf = nil /\ noSegment \in MaybeSegment
  BY <1>1, SegmentBuf, NilNoBuffer DEF MaybeSegment, noSegment
<1>3. OutBuf = {b} /\ OutBuf' = {}
  BY <1>1, <1>2 DEF OutBuf
<1>4. b \notin InPool /\ InPool \subseteq Buffer
  BY <1>3, OwnedBufs DEF Owned, Shared
<1>5. PoolTypeOK' /\ PoolConsistent' /\ InPool' = InPool \cup {b}
  BY <1>1, <1>2, <1>4, ReturnConsistent, ReturnEffect
<1>6. Owned'
  <2>1. /\ Bufs(c)' = Bufs(c) /\ Distinct(c)'
        /\ Held(sendSeg)' = Held(sendSeg) /\ HeldDistinct(sendSeg)'
        /\ Held(sendOld)' = Held(sendOld) /\ HeldDistinct(sendOld)'
    BY <1>1 DEF Owned, Bufs, Distinct, Held, HeldDistinct
  <2>2. Shared(InPool, Bufs(c), Held(sendSeg), Held(sendOld), OutBuf)'
    BY <1>3, <1>5, <2>1 DEF Owned, Shared
  <2> QED
    BY <2>1, <2>2 DEF Owned
<1>7. ClientTypeOK'
  BY <1>1, <1>2, <1>5 DEF RingTypeOK, TelemetryTypeOK
<1>8. SendInv'
  BY <1>1 DEF SendInv
<1>9. TruncationLedger'
  <2>1. Calls' = Calls /\ Drops' = Drops
    BY <1>1 DEF Calls, Drops, Busy
  <2>2. Cardinality(Drops') = Cardinality(Drops) /\ Cardinality(Calls') = Cardinality(Calls)
    BY <2>1
  <2>3. ClientTypeOK /\ TruncationLedger
    OBVIOUS
  <2>4. /\ UNCHANGED <<made, count, T, c>>
        /\ delivered' = delivered + 1
        /\ Handed = 1 /\ Handed' = 0
    BY <1>1 DEF Handed
  <2> HIDE DEF RingInv, ClientTypeOK
  <2> QED
    BY <1>7, <2>2, <2>3, <2>4, LedgerNumbers, LedgerIs, LedgerMoves
<1> QED
  BY <1>5, <1>6, <1>7, <1>8, <1>9

\* Returning a buffer of the pool once more changes nothing.
LEMMA ReturnAgainInv ==
  ASSUME RingInv, ReturnAgain
  PROVE  RingInv'
<1>1. UNCHANGED poolVars
  BY DEF ReturnAgain, Return, Accepts, isBufferAlreadyInPool, RingInv, PoolConsistent,
     HashMatchesStack
<1>2. UNCHANGED <<ringVars, T, clientVars>>
  BY DEF ReturnAgain
<1>3. closed' \in BOOLEAN /\ panic' \in BOOLEAN
  BY <1>2 DEF RingInv, ClientTypeOK, RingTypeOK
<1> QED
  BY <1>1, <1>2, <1>3, MoveInv

\* Close leaves what is in the channel there.
LEMMA ClientCloseInv ==
  ASSUME RingInv, ClientClose
  PROVE  RingInv'
<1>1. closed' \in BOOLEAN /\ panic' \in BOOLEAN
  BY DEF ClientClose, Close, RingInv, ClientTypeOK, RingTypeOK
<1> QED
  BY <1>1, MoveInv DEF ClientClose, Close

\* A new pool has all buffers, and nothing else has any.
LEMMA InitInv == ASSUME Init PROVE RingInv
<1>1. PoolTypeOK /\ PoolConsistent
  BY PoolInitConsistent DEF Init
<1>2. InPool = Buffer
  BY bufferLimitAssumption DEF Init, PoolInit, InPool, Buffer
<1>3. /\ c = << >> /\ closed = FALSE /\ count = 0 /\ panic = FALSE
      /\ sendAt = [s \in Sender |-> "idle"]
      /\ sendSeg = [s \in Sender |-> noSegment]
      /\ sendOld = [s \in Sender |-> noSegment]
      /\ sendTmp = [s \in Sender |-> 0]
      /\ made = 0 /\ out = noSegment /\ delivered = 0
      /\ T = [k \in CounterNames |-> 0]
  BY DEF Init, RingInit, TelemetryInit, EmptyTelemetryRecord
<1>4. noSegment.PoolBuf = nil
  BY DEF noSegment
<1>5. ClientTypeOK
  <2>1. RingTypeOK
    <3>1. c \in Seq(TraceSegment) /\ count \in Nat
      BY <1>3
    <3>2. closed \in BOOLEAN /\ panic \in BOOLEAN
      BY <1>3
    <3>3. /\ sendAt \in [Sender -> {"idle", "try", "full", "drop"}]
          /\ sendTmp \in [Sender -> Nat]
      BY <1>3
    <3>4. /\ sendSeg \in [Sender -> TraceSegment \cup {noSegment}]
          /\ sendOld \in [Sender -> TraceSegment \cup {noSegment}]
      BY <1>3
    <3> QED
      BY <3>1, <3>2, <3>3, <3>4 DEF RingTypeOK
  <2>2. TelemetryTypeOK
    BY <1>3 DEF TelemetryTypeOK
  <2>3. out \in MaybeSegment /\ made \in 0 .. MaxSegments /\ delivered \in Nat
    BY <1>3, ClientAssumption DEF MaybeSegment
  <2> QED
    BY <1>1, <2>1, <2>2, <2>3 DEF ClientTypeOK
<1>6. Owned
  <2>1. Bufs(c) = {} /\ Distinct(c)
    BY <1>3 DEF Bufs, Distinct
  <2>2. /\ Held(sendSeg) = {} /\ HeldDistinct(sendSeg)
        /\ Held(sendOld) = {} /\ HeldDistinct(sendOld)
        /\ OutBuf = {}
    BY <1>3, <1>4 DEF Held, HeldDistinct, OutBuf
  <2> QED
    BY <1>2, <2>1, <2>2 DEF Owned, Shared
<1>7. SendInv
  BY <1>3 DEF SendInv, CounterNames
<1>8. TruncationLedger
  <2>1. Calls = {} /\ Drops = {}
    BY <1>3 DEF Calls, Drops, Busy
  <2>2. Cardinality(Calls) = 0 /\ Cardinality(Drops) = 0
    BY <2>1, FS_EmptySet
  <2>3. Len(c) = 0 /\ T["spillover"] = 0 /\ Handed = 0
    BY <1>3 DEF CounterNames, Handed
  <2> QED
    BY <1>3, <2>2, <2>3, LedgerIs
<1> QED
  BY <1>1, <1>5, <1>6, <1>7, <1>8 DEF RingInv

\* RingInv is an invariant of concurrent senders, a consumer and a Close at any
\* time, whatever the capacity of the channel.
THEOREM RingInvariance == Spec => []RingInv
<1>1. Init => RingInv
  BY InitInv
<1>2. RingInv /\ [Next]_vars => RingInv'
  <2> SUFFICES ASSUME RingInv, [Next]_vars PROVE RingInv'
    OBVIOUS
  <2>1. ASSUME NEW s \in Sender, ClientSend(s) PROVE RingInv'
    BY <2>1, ClientSendInv
  <2>2. ASSUME NEW s \in Sender, SendStep(s) PROVE RingInv'
    BY <2>2, SendStepInv
  <2>3. CASE ConsumerReceive
    BY <2>3, ConsumerReceiveInv
  <2>4. CASE ConsumerReturn
    BY <2>4, ConsumerReturnInv
  <2>5. CASE ReturnAgain
    BY <2>5, ReturnAgainInv
  <2>6. CASE ClientClose
    BY <2>6, ClientCloseInv
  <2>7. CASE UNCHANGED vars
    <3>1. closed' \in BOOLEAN /\ panic' \in BOOLEAN
      BY <2>7 DEF vars, RingInv, ClientTypeOK, RingTypeOK
    <3> QED
      BY <2>7, <3>1, MoveInv DEF vars
  <2> QED
    BY <2>1, <2>2, <2>3, <2>4, <2>5, <2>6, <2>7 DEF Next, Terminated
<1> QED
  BY <1>1, <1>2, PTL DEF Spec

-----------------------------------------------------------------------------
(* Ownership as MCRingBuffer states it. *)

\* A buffer that is in exactly one of the five places has one holder.
LEMMA OneHolder ==
  ASSUME RingInv, NEW b \in Buffer
  PROVE  \E h : Holders(b) = {h}
<1> USE DEF RingInv, ClientTypeOK
<1> DEFINE P == {i \in DOMAIN Buffers : Buffers[i] = b}
           R == {i \in DOMAIN c : c[i].PoolBuf = b}
           S == {s \in Sender : sendSeg[s].PoolBuf = b}
           O == {s \in Sender : sendOld[s].PoolBuf = b}
           X == {x \in {out} : x.PoolBuf = b}
<1>1. Holders(b) = {<<"pool", i>> : i \in P} \cup {<<"ring", i>> : i \in R}
                     \cup {<<"send", s>> : s \in S} \cup {<<"old", s>> : s \in O}
                     \cup {<<"out", x>> : x \in X}
  BY DEF Holders
<1>2. b # nil
  BY NilNoBuffer
<1>3. /\ P # {} <=> b \in InPool
      /\ R # {} <=> b \in Bufs(c)
      /\ S # {} <=> b \in Held(sendSeg)
      /\ O # {} <=> b \in Held(sendOld)
      /\ X # {} <=> b \in OutBuf
  BY <1>2 DEF InPool, Bufs, Held, OutBuf
<1>4. /\ \A i, j \in P : i = j
      /\ \A i, j \in R : i = j
      /\ \A i, j \in S : i = j
      /\ \A i, j \in O : i = j
      /\ \A i, j \in X : i = j
  BY <1>2 DEF PoolConsistent, NoDuplicates, Owned, Distinct, HeldDistinct
<1>5. Shared(InPool, Bufs(c), Held(sendSeg), Held(sendOld), OutBuf)
  BY DEF Owned
<1> HIDE DEF P, R, S, O, X
<1>6. CASE b \in InPool
  <2>1. R = {} /\ S = {} /\ O = {} /\ X = {}
    BY <1>3, <1>5, <1>6 DEF Shared
  <2>2. PICK i : P = {i}
    BY <1>3, <1>4, <1>6
  <2>3. Holders(b) = {<<"pool", i>>}
    BY <1>1, <2>1, <2>2
  <2> QED
    BY <2>3
<1>7. CASE b \in Bufs(c)
  <2>1. P = {} /\ S = {} /\ O = {} /\ X = {}
    BY <1>3, <1>5, <1>7 DEF Shared
  <2>2. PICK i : R = {i}
    BY <1>3, <1>4, <1>7
  <2>3. Holders(b) = {<<"ring", i>>}
    BY <1>1, <2>1, <2>2
  <2> QED
    BY <2>3
<1>8. CASE b \in Held(sendSeg)
  <2>1. P = {} /\ R = {} /\ O = {} /\ X = {}
    BY <1>3, <1>5, <1>8 DEF Shared
  <2>2. PICK s : S = {s}
    BY <1>3, <1>4, <1>8
  <2>3. Holders(b) = {<<"send", s>>}
    BY <1>1, <2>1, <2>2
  <2> QED
    BY <2>3
<1>9. CASE b \in Held(sendOld)
  <2>1. P = {} /\ R = {} /\ S = {} /\ X = {}
    BY <1>3, <1>5, <1>9 DEF Shared
  <2>2. PICK s : O = {s}
    BY <1>3, <1>4, <1>9
  <2>3. Holders(b) = {<<"old", s>>}
    BY <1>1, <2>1, <2>2
  <2> QED
    BY <2>3
<1>10. CASE b \in OutBuf
  <2>1. P = {} /\ R = {} /\ S = {} /\ O = {}
    BY <1>3, <1>5, <1>10 DEF Shared
  <2>2. PICK x : X = {x}
    BY <1>3, <1>4, <1>10
  <2>3. Holders(b) = {<<"out", x>>}
    BY <1>1, <2>1, <2>2
  <2> QED
    BY <2>3
<1> QED
  BY <1>5, <1>6, <1>7, <1>8, <1>9, <1>10 DEF Shared

\* Whatever the number of senders and the capacity of the channel, truncating
\* in Send neither leaks the buffer of a dropped segment nor returns one that
\* the consumer has.
THEOREM RingOwnershipTheorem == Spec => []RingOwnership
<1>1. RingInv => RingOwnership
  BY OneHolder, FS_Singleton DEF RingOwnership
<1> QED
  BY <1>1, RingInvariance, PTL

\* Whatever the number of senders and the capacity of the channel, Send counts
\* every segment it drops as spillover exactly once, and r.count, incremented
\* without synchronisation, never more.
THEOREM TruncationTheorem == Spec => []TruncationLedger
<1>1. RingInv => TruncationLedger
  BY DEF RingInv
<1> QED
  BY <1>1, RingInvariance, PTL
=============================================================================
