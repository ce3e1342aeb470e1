------------------------------ MODULE RingBuffer ------------------------------
(***************************************************************************)
(* The ring buffer between the receivers and the processor                 *)
(* (src/pkg/ringbuffer/ringbuffer.go): a Go channel used so that a sender  *)
(* never waits.  A sender that finds the channel full takes the oldest     *)
(* segment out of it, gives its buffer back to the pool, counts it as      *)
(* spillover and tries again.                                              *)
(*                                                                         *)
(* Send is called by every receiver concurrently and only its channel      *)
(* operations are atomic, so a call is a sequence of steps, and sendAt[s]  *)
(* is where the call of sender s is:                                       *)
(*   "idle"   not in Send                                                  *)
(*   "try"    about to try r.c <- s                                        *)
(*   "full"   the channel was full; about to try <-r.c                     *)
(*   "drop"   took the oldest segment and loaded r.count, which is         *)
(*            incremented without synchronisation                          *)
(* A segment is [PoolBuf |-> b, Raw |-> p]: its buffer, and the payload    *)
(* that the buffer held when the receiver made the segment (in the code    *)
(* Raw is a slice of the buffer: what it reads later is mem[PoolBuf], see  *)
(* Processor).                                                             *)
(***************************************************************************)
EXTENDS BufferPool, TelemetryRecord

CONSTANTS Sender,           \* goroutines that call Send
          Payload,          \* what a datagram carries
          bufferCount,      \* the argument of New
          defaultCapacity

ASSUME bufferCountAssumption == bufferCount \in Nat \ {0}
ASSUME defaultCapacityAssumption == defaultCapacity \in Nat

TraceSegment == [PoolBuf : Buffer, Raw : Payload]

noSegment == [PoolBuf |-> nil, Raw |-> nil]

\* Mutant of getChannelSize: the number of buffers is ignored.
getChannelSizeFixed(n) == defaultCapacity

\* The capacity of the channel is max(defaultCapacity, bufferCount).
getChannelSize(n) == IF n < defaultCapacity THEN defaultCapacity ELSE n

capacity == getChannelSize(bufferCount)

VARIABLES c,        \* the segments in the channel, oldest first
          closed,   \* the channel is closed
          count,    \* r.count
          sendAt, sendSeg, sendOld, sendTmp,  \* the Send call of each sender
          panic     \* a goroutine panicked, which ends the process

sendVars == <<sendAt, sendSeg, sendOld, sendTmp>>
ringVars == <<c, closed, count, sendVars, panic>>

RingInit ==
  /\ c = << >>
  /\ closed = FALSE
  /\ count = 0
  /\ sendAt = [s \in Sender |-> "idle"]
  /\ sendSeg = [s \in Sender |-> noSegment]
  /\ sendOld = [s \in Sender |-> noSegment]
  /\ sendTmp = [s \in Sender |-> 0]
  /\ panic = FALSE

\* Entering Send(seg); the caller says what else happens in the same step.
SendCall(s, seg) ==
  /\ sendAt[s] = "idle"
  /\ sendAt' = [sendAt EXCEPT ![s] = "try"]
  /\ sendSeg' = [sendSeg EXCEPT ![s] = seg]
  /\ UNCHANGED <<c, closed, count, sendOld, sendTmp, panic>>

\* Sending on a closed channel panics.
SendPanic(s) ==
  /\ sendAt[s] = "try"
  /\ closed
  /\ panic' = TRUE
  /\ UNCHANGED <<c, closed, count, sendVars, T, poolVars>>

\* case r.c <- s: the call returns.
SendEnqueue(s) ==
  /\ sendAt[s] = "try"
  /\ ~closed
  /\ Len(c) < capacity
  /\ c' = Append(c, sendSeg[s])
  /\ sendAt' = [sendAt EXCEPT ![s] = "idle"]
  /\ sendSeg' = [sendSeg EXCEPT ![s] = noSegment]
  /\ UNCHANGED <<closed, count, sendOld, sendTmp, panic, T, poolVars>>

\* default: the channel is full.
SendFull(s) ==
  /\ sendAt[s] = "try"
  /\ ~closed
  /\ Len(c) >= capacity
  /\ sendAt' = [sendAt EXCEPT ![s] = "full"]
  /\ UNCHANGED <<c, closed, count, sendSeg, sendOld, sendTmp, panic, T, poolVars>>

\* case segmentTruncated = <-r.c, and the load of r.count++.
SendTruncate(s) ==
  /\ sendAt[s] = "full"
  /\ c # << >>
  /\ sendOld' = [sendOld EXCEPT ![s] = Head(c)]
  /\ sendTmp' = [sendTmp EXCEPT ![s] = count]
  /\ c' = Tail(c)
  /\ sendAt' = [sendAt EXCEPT ![s] = "drop"]
  /\ UNCHANGED <<closed, count, sendSeg, panic, T, poolVars>>

\* The processor emptied the channel in between: default, and Send(s) again;
\* a closed channel answers a nil segment whose PoolBuf cannot be read.
SendDequeued(s) ==
  /\ sendAt[s] = "full"
  /\ c = << >>
  /\ sendAt' = IF closed THEN sendAt ELSE [sendAt EXCEPT ![s] = "try"]
  /\ panic' = closed
  /\ UNCHANGED <<c, closed, count, sendSeg, sendOld, sendTmp, T, poolVars>>

\* Mutant of SendDrop: the dropped segment's buffer is not given back.
SendDropLeaks(s) ==
  /\ sendAt[s] = "drop"
  /\ count' = sendTmp[s] + 1
  /\ SegmentSpillover(1)
  /\ sendOld' = [sendOld EXCEPT ![s] = noSegment]
  /\ sendTmp' = [sendTmp EXCEPT ![s] = 0]
  /\ sendAt' = [sendAt EXCEPT ![s] = "try"]
  /\ UNCHANGED <<c, closed, sendSeg, panic, poolVars>>

\* Mutant of SendDrop: the call returns without sending its own segment.
SendDropGivesUp(s) ==
  /\ sendAt[s] = "drop"
  /\ count' = sendTmp[s] + 1
  /\ Return(sendOld[s].PoolBuf)
  /\ SegmentSpillover(1)
  /\ sendOld' = [sendOld EXCEPT ![s] = noSegment]
  /\ sendTmp' = [sendTmp EXCEPT ![s] = 0]
  /\ sendAt' = [sendAt EXCEPT ![s] = "idle"]
  /\ sendSeg' = [sendSeg EXCEPT ![s] = noSegment]
  /\ UNCHANGED <<c, closed, panic>>

\* The store of r.count++, the buffer back to the pool, the spillover counter,
\* and Send(s) again.
SendDrop(s) ==
  /\ sendAt[s] = "drop"
  /\ count' = sendTmp[s] + 1
  /\ Return(sendOld[s].PoolBuf)
  /\ SegmentSpillover(1)
  /\ sendOld' = [sendOld EXCEPT ![s] = noSegment]
  /\ sendTmp' = [sendTmp EXCEPT ![s] = 0]
  /\ sendAt' = [sendAt EXCEPT ![s] = "try"]
  /\ UNCHANGED <<c, closed, sendSeg, panic>>

\* The steps of a call after which Send has not returned.
SendRetry(s) ==
  \/ SendPanic(s)
  \/ SendFull(s)
  \/ SendTruncate(s)
  \/ SendDequeued(s)
  \/ SendDrop(s)

\* Closing a closed channel panics.
Close ==
  /\ closed' = TRUE
  /\ panic' = (panic \/ closed)
  /\ UNCHANGED <<c, count, sendVars>>

\* The consumer's <-r.Channel; a closed channel is drained before it reports.
Receive(seg) ==
  /\ c # << >>
  /\ seg = Head(c)
  /\ c' = Tail(c)
  /\ UNCHANGED <<closed, count, sendVars, panic>>

ReceiveClosed == closed /\ c = << >> /\ UNCHANGED ringVars

-----------------------------------------------------------------------------
RingTypeOK ==
  /\ c \in Seq(TraceSegment)
  /\ closed \in BOOLEAN
  /\ count \in Nat
  /\ sendAt \in [Sender -> {"idle", "try", "full", "drop"}]
  /\ sendSeg \in [Sender -> TraceSegment \cup {noSegment}]
  /\ sendOld \in [Sender -> TraceSegment \cup {noSegment}]
  /\ sendTmp \in [Sender -> Nat]
  /\ panic \in BOOLEAN
=============================================================================
