----------------------------- MODULE MCRingBuffer -----------------------------
(***************************************************************************)
(* RingBuffer with concurrent senders, one consumer and a Close at any     *)
(* time, as src/pkg/ringbuffer/ringbuffer_test.go uses it: the channel is  *)
(* smaller than the pool, so that senders do truncate, which the sizes the *)
(* daemon passes to New never allow (Daemon!RingNeverTruncates).           *)
(***************************************************************************)
EXTENDS RingBuffer, TLC

CONSTANT MaxSegments  \* bound on the segments sent

VARIABLES made,       \* segments given to Send
          out,        \* the segment in the consumer's hands
          delivered   \* segments the consumer has finished with

clientVars == <<made, out, delivered>>
vars == <<poolVars, T, ringVars, clientVars>>

SegmentIds == 1 .. MaxSegments

ASSUME ClientAssumption ==
  IsFiniteSet(Sender) /\ MaxSegments \in Nat /\ Payload = SegmentIds

SenderSymmetry == Permutations(Sender)

Init ==
  /\ PoolInit
  /\ TelemetryInit
  /\ RingInit
  /\ made = 0
  /\ out = noSegment
  /\ delivered = 0

ClientSend(s) ==
  /\ made < MaxSegments
  /\ \E b \in Buffer : Get(b) /\ SendCall(s, [PoolBuf |-> b, Raw |-> made + 1])
  /\ made' = made + 1
  /\ UNCHANGED <<T, out, delivered>>

SendStep(s) ==
  /\ SendEnqueue(s) \/ SendRetry(s)
  /\ UNCHANGED clientVars

ConsumerReceive ==
  /\ out = noSegment
  /\ \E seg \in TraceSegment : Receive(seg) /\ out' = seg
  /\ UNCHANGED <<poolVars, T, made, delivered>>

ConsumerReturn ==
  /\ out # noSegment
  /\ Return(out.PoolBuf)
  /\ out' = noSegment
  /\ delivered' = delivered + 1
  /\ UNCHANGED <<ringVars, T, made>>

\* A buffer is returned once more, as bufferpool_test.go does.
ReturnAgain ==
  /\ \E b \in InPool : Return(b)
  /\ UNCHANGED <<ringVars, T, clientVars>>

ClientClose ==
  /\ ~closed
  /\ Close
  /\ UNCHANGED <<poolVars, T, clientVars>>

Running == ~panic

Terminated ==
  /\ panic \/ (closed /\ c = << >> /\ out = noSegment /\ made = MaxSegments)
  /\ UNCHANGED vars

Next ==
  \/ Running /\ \E s \in Sender : ClientSend(s) \/ SendStep(s)
  \/ Running /\ (ConsumerReceive \/ ConsumerReturn \/ ReturnAgain \/ ClientClose)
  \/ Terminated

Spec == Init /\ [][Next]_vars

-----------------------------------------------------------------------------
\* Where buffer b is: every place that would hand it on or give it back.
Holders(b) ==
  {<<"pool", i>> : i \in {i \in DOMAIN Buffers : Buffers[i] = b}}
    \cup {<<"ring", i>> : i \in {i \in DOMAIN c : c[i].PoolBuf = b}}
    \cup {<<"send", s>> : s \in {s \in Sender : sendSeg[s].PoolBuf = b}}
    \cup {<<"old", s>> : s \in {s \in Sender : sendOld[s].PoolBuf = b}}
    \cup {<<"out", x>> : x \in {x \in {out} : x.PoolBuf = b}}

\* Whatever the interleaving of truncating senders with the consumer, a
\* buffer is in exactly one place: Send neither leaks the buffer of a segment
\* it drops nor returns one that the consumer also has.
RingOwnership == \A b \in Buffer : Cardinality(Holders(b)) = 1

Busy(S) == {s \in Sender : sendAt[s] \in S}

\* Every segment given to Send is in flight, delivered or counted as
\* spillover, exactly once; the unsynchronised r.count++ may lose increments
\* but never reports more segments than were truncated.
TruncationLedger ==
  /\ made = Cardinality(Busy({"try", "full", "drop"})) + Len(c)
            + Cardinality({out} \ {noSegment}) + delivered
            + Cardinality(Busy({"drop"})) + T["spillover"]
  /\ count <= T["spillover"]
=============================================================================
