-------------------------------- MODULE Daemon --------------------------------
(***************************************************************************)
(* The segment pipeline of the daemon and its shutdown                     *)
(* (src/cmd/tracing/daemon.go, src/cmd/tracing/tracing.go): the receivers  *)
(* read datagrams into pool buffers and send them through the ring buffer  *)
(* to the processor; a signal closes the socket, and close() waits for the *)
(* receivers, closes the ring buffer, and waits for the processor and the  *)
(* telemetry goroutine.                                                    *)
(*                                                                         *)
(* rpc[r] is where receiver r is in poll():                                *)
(*   "get"      about to take a buffer from the pool                       *)
(*   "read"     in sock.Read, with rbuf[r], or its fallback buffer if nil  *)
(*   "count"    a datagram was read; about to count it as received         *)
(*   "release"  nothing was read; about to return the buffer               *)
(*   "reject"   the datagram is malformed; about to return the buffer      *)
(*   "send"     in std.Send                                                *)
(*   "done"     the socket failed; blocked on d.done <- true               *)
(*   "exit"     returned                                                   *)
(* mpc is where main is in close(): "await", "closeStd", "quit",           *)
(* "waitProc", "waitTel", and "exit" when the process has ended.  tpc is   *)
(* where the telemetry goroutine is: "select", "push", "lastpush", "done", *)
(* "exit".  Channels without a buffer (d.done, T.Quit, T.Done, p.Done) are *)
(* one step of both sides.                                                 *)
(*                                                                         *)
(* Between two operations on shared state a goroutine only touches its own *)
(* variables and atomic counters, so what it does there belongs to the     *)
(* step before.  The count of a received segment is a step of its own: the *)
(* socket may be closed, and Quit be taken, between a read and its count.  *)
(***************************************************************************)
EXTENDS Processor

CONSTANTS MaxDatagrams,  \* bound: datagrams that arrive in a behaviour
          HardErrors     \* can an open socket fail with a permanent error?

ASSUME SenderAssumption == IsFiniteSet(Sender) /\ Sender # {}
ASSUME DatagramAssumption == MaxDatagrams \in Nat /\ Payload = 1 .. MaxDatagrams
ASSUME HardErrorsAssumption == HardErrors \in BOOLEAN
\* initDaemon passes the same number to bufferpool.Init and ringbuffer.New,
\* and lowers the batch size to it.
ASSUME SizingAssumption == bufferCount = bufferLimit /\ batchSize <= bufferLimit

VARIABLES rpc, rbuf,
          sockOpen,
          arrived,  \* datagrams read so far
          dcount,   \* d.count
          mpc, dones,
          tpc

recvVars == <<rpc, rbuf, sockOpen, arrived, dcount>>
mainVars == <<mpc, dones, tpc>>
vars == <<poolVars, T, ringVars, batchVars, procVars, mem, recvVars, mainVars>>

Init ==
  /\ PoolInit
  /\ TelemetryInit
  /\ RingInit
  /\ BatchInit
  /\ ProcInit
  /\ rpc = [r \in Sender |-> "get"]
  /\ rbuf = [r \in Sender |-> nil]
  /\ sockOpen = TRUE
  /\ arrived = 0
  /\ dcount = 0
  /\ mpc = "await"
  /\ dones = 0
  /\ tpc = "select"

\* The telemetry goroutine, by what Telemetry is shown to implement.
Cycle == INSTANCE PushCycle

-----------------------------------------------------------------------------
(* Receivers: poll and read *)

\* Back to the top of the loop, without a buffer.
NextLoop(r) ==
  /\ rpc' = [rpc EXCEPT ![r] = "get"]
  /\ rbuf' = [rbuf EXCEPT ![r] = nil]

PollGet(r) ==
  /\ rpc[r] = "get"
  /\ \E b \in Buffer \cup {nil} : Get(b) /\ rbuf' = [rbuf EXCEPT ![r] = b]
  /\ rpc' = [rpc EXCEPT ![r] = "read"]
  /\ UNCHANGED <<T, ringVars, batchVars, procVars, mem, sockOpen, arrived, dcount, mainVars>>

\* sock.Read fills receiver r's buffer with a datagram.
ReadDatagram(r) ==
  /\ rpc[r] = "read"
  /\ sockOpen
  /\ arrived < MaxDatagrams
  /\ arrived' = arrived + 1
  /\ mem' = IF rbuf[r] = nil THEN mem ELSE [mem EXCEPT ![rbuf[r]] = arrived + 1]
  /\ rpc' = [rpc EXCEPT ![r] = "count"]
  /\ UNCHANGED <<rbuf, sockOpen, dcount, mainVars, poolVars, T, ringVars, batchVars, procVars>>

\* Mutant of CountSegment: a datagram in the fallback buffer is sent too.
CountSegmentAnyBuffer(r) ==
  /\ rpc[r] = "count"
  /\ SegmentReceived(1)
  /\ dcount' = dcount + 1
  /\ SendCall(r, [PoolBuf |-> rbuf[r],
                  Raw |-> IF rbuf[r] = nil THEN arrived ELSE mem[rbuf[r]]])
  /\ rpc' = [rpc EXCEPT ![r] = "send"]
  /\ UNCHANGED <<rbuf, sockOpen, arrived, mainVars, poolVars, batchVars, procVars, mem>>

\* It is a well-formed segment in a pool buffer: counted and handed to Send.
CountSegment(r) ==
  /\ rpc[r] = "count"
  /\ rbuf[r] # nil
  /\ SegmentReceived(1)
  /\ dcount' = dcount + 1
  /\ SendCall(r, [PoolBuf |-> rbuf[r], Raw |-> mem[rbuf[r]]])
  /\ rpc' = [rpc EXCEPT ![r] = "send"]
  /\ UNCHANGED <<rbuf, sockOpen, arrived, mainVars, poolVars, batchVars, procVars, mem>>

\* It has no body, or its header is invalid.
CountInvalid(r) ==
  /\ rpc[r] = "count"
  /\ rbuf[r] # nil
  /\ SegmentReceived(1)
  /\ rpc' = [rpc EXCEPT ![r] = "reject"]
  /\ UNCHANGED <<rbuf, sockOpen, arrived, dcount, mainVars,
                 poolVars, ringVars, batchVars, procVars, mem>>

\* It was read into the fallback buffer, and is dropped whatever it is.
CountFallback(r) ==
  /\ rpc[r] = "count"
  /\ rbuf[r] = nil
  /\ T' = [T EXCEPT !["received"] = @ + 1, !["spillover"] = @ + 1]
  /\ NextLoop(r)
  /\ UNCHANGED <<sockOpen, arrived, dcount, mainVars,
                 poolVars, ringVars, batchVars, procVars, mem>>

\* read answers 0: an empty datagram or an error that is not permanent.
ReadNothing(r) ==
  /\ rpc[r] = "read"
  /\ sockOpen
  /\ rpc' = [rpc EXCEPT ![r] = IF rbuf[r] # nil THEN "release" ELSE "get"]
  /\ UNCHANGED <<rbuf, sockOpen, arrived, dcount, mainVars,
                 poolVars, T, ringVars, batchVars, procVars, mem>>

\* read meets a permanent error; a closed socket answers nothing else.
ReadError(r) ==
  /\ rpc[r] = "read"
  /\ ~sockOpen \/ HardErrors
  /\ rpc' = [rpc EXCEPT ![r] = "done"]
  /\ UNCHANGED <<rbuf, sockOpen, arrived, dcount, mainVars,
                 poolVars, T, ringVars, batchVars, procVars, mem>>

PollRelease(r) ==
  /\ rpc[r] = "release"
  /\ Return(rbuf[r])
  /\ NextLoop(r)
  /\ UNCHANGED <<sockOpen, arrived, dcount, mainVars, T, ringVars, batchVars, procVars, mem>>

\* Mutant of PollReject: the buffer of a malformed datagram is not returned.
PollRejectLeaks(r) ==
  /\ rpc[r] = "reject"
  /\ SegmentRejected(1)
  /\ NextLoop(r)
  /\ UNCHANGED <<sockOpen, arrived, dcount, mainVars, poolVars, ringVars, batchVars, procVars, mem>>

\* A malformed datagram: its buffer goes back and it counts as rejected.
PollReject(r) ==
  /\ rpc[r] = "reject"
  /\ Return(rbuf[r])
  /\ SegmentRejected(1)
  /\ NextLoop(r)
  /\ UNCHANGED <<sockOpen, arrived, dcount, mainVars, ringVars, batchVars, procVars, mem>>

\* A step of std.Send.
PollSend(r) ==
  /\ rpc[r] = "send"
  /\ \/ SendEnqueue(r) /\ NextLoop(r)
     \/ SendRetry(r) /\ UNCHANGED <<rpc, rbuf>>
  /\ UNCHANGED <<sockOpen, arrived, dcount, mainVars, batchVars, procVars, mem>>

\* Mutant of AwaitDone: main waits for one answer more than there are receivers.
AwaitOneMore ==
  /\ mpc = "await"
  /\ dones' = dones + 1
  /\ mpc' = IF dones = Cardinality(Sender) THEN "closeStd" ELSE "await"

\* Mutant of AwaitDone: main waits for one answer less.
AwaitOneLess ==
  /\ mpc = "await"
  /\ dones' = dones + 1
  /\ mpc' = IF dones + 2 >= Cardinality(Sender) THEN "closeStd" ELSE "await"

\* The value main waits for in <-d.done arrives; after the last one it leaves
\* the loop.
AwaitDone ==
  /\ mpc = "await"
  /\ dones' = dones + 1
  /\ mpc' = IF dones + 1 = Cardinality(Sender) THEN "closeStd" ELSE "await"

\* d.done <- true goes through and read answers -1.  With a pool buffer the
\* receiver returns; with the fallback buffer it counts a spillover and goes
\* round its loop again, the test on fallbackPointerUsed being the first.
PollDone(r) ==
  /\ rpc[r] = "done"
  /\ AwaitDone
  /\ \/ /\ rbuf[r] # nil
        /\ rpc' = [rpc EXCEPT ![r] = "exit"]
        /\ UNCHANGED <<rbuf, T>>
     \/ /\ rbuf[r] = nil
        /\ SegmentSpillover(1)
        /\ NextLoop(r)
  /\ UNCHANGED <<sockOpen, arrived, dcount, tpc, poolVars, ringVars, batchVars, procVars, mem>>

Receiver(r) ==
  \/ PollGet(r)
  \/ ReadDatagram(r)
  \/ CountSegment(r)
  \/ CountInvalid(r)
  \/ CountFallback(r)
  \/ ReadNothing(r)
  \/ ReadError(r)
  \/ PollRelease(r)
  \/ PollReject(r)
  \/ PollSend(r)
  \/ PollDone(r)

-----------------------------------------------------------------------------
(* Shutdown: stop and close *)

\* blockSignalReceived and stop(): the socket is closed.  The proxy server
\* closed next shares no state with the pipeline.
Stop ==
  /\ sockOpen
  /\ sockOpen' = FALSE
  /\ UNCHANGED <<rpc, rbuf, arrived, dcount, mainVars,
                 poolVars, T, ringVars, batchVars, procVars, mem>>

CloseStd ==
  /\ mpc = "closeStd"
  /\ Close
  /\ mpc' = "quit"
  /\ UNCHANGED <<dones, tpc, recvVars, poolVars, T, batchVars, procVars, mem>>

\* telemetry.T.Quit <- true, taken when the telemetry goroutine is in select.
CloseQuit ==
  /\ mpc = "quit"
  /\ mpc' = "waitProc"
  /\ Cycle!TakeQuit
  /\ UNCHANGED <<dones, recvVars, poolVars, T, ringVars, batchVars, procVars, mem>>

\* Mutant of WaitProcessor: close() does not receive from processor.Done.
WaitProcessorNot ==
  /\ mpc = "waitProc"
  /\ mpc' = "waitTel"
  /\ UNCHANGED <<dones, tpc, recvVars, poolVars, T, ringVars, batchVars, procVars, mem>>

\* <-d.processor.Done
WaitProcessor ==
  /\ mpc = "waitProc"
  /\ ppc = "done"
  /\ mpc' = "waitTel"
  /\ ppc' = "exit"
  /\ UNCHANGED <<dones, tpc, recvVars, poolVars, T, ringVars, batchVars,
                 batch, docs, idleTimer, Empty, processed, wdone, mem>>

WaitTelemetry ==
  /\ mpc = "waitTel"
  /\ mpc' = "exit"
  /\ Cycle!SendDone
  /\ UNCHANGED <<dones, recvVars, poolVars, T, ringVars, batchVars, procVars, mem>>

CloseStep == CloseStd \/ CloseQuit \/ WaitProcessor \/ WaitTelemetry

\* pushData: the timer fires, and a push of records ends; the push that Quit
\* started is followed by T.Done <- true.
PushData ==
  /\ Cycle!TimerPush \/ Cycle!PushEnds
  /\ UNCHANGED <<mpc, dones, recvVars, poolVars, T, ringVars, batchVars, procVars, mem>>

-----------------------------------------------------------------------------
\* A panic or the return of main ends every goroutine.
Running == ~panic /\ mpc # "exit"

Terminated == ~Running /\ UNCHANGED vars

Next ==
  \/ Running /\ \E r \in Sender : Receiver(r)
  \/ Running /\ ProcStep /\ UNCHANGED <<recvVars, mainVars>>
  \/ Running /\ \E w \in Worker : UploadStep(w) /\ UNCHANGED <<recvVars, mainVars>>
  \/ Running /\ (Stop \/ CloseStep \/ PushData)
  \/ Terminated

Spec == Init /\ [][Next]_vars

(***************************************************************************)
(* Fairness.  A goroutine that can go on does go on, a closed socket fails *)
(* the pending reads, the idle timer fires, and PutTraceSegments returns   *)
(* (its HTTP client has a timeout).  Nothing makes datagrams or a signal   *)
(* arrive.  Quit needs strong fairness: main is taken whenever the         *)
(* telemetry goroutine comes back to its select, where the timer it has    *)
(* just armed is not ready.                                                *)
(***************************************************************************)
ReceiverProgress(r) ==
  \/ PollGet(r) \/ CountSegment(r) \/ CountInvalid(r) \/ CountFallback(r)
  \/ PollRelease(r) \/ PollReject(r) \/ PollSend(r) \/ PollDone(r)
  \/ ~sockOpen /\ ReadError(r)

Fairness ==
  /\ \A r \in Sender : WF_vars(Running /\ ReceiverProgress(r))
  /\ WF_vars(Running /\ ProcStep /\ UNCHANGED <<recvVars, mainVars>>)
  /\ \A w \in Worker :
       WF_vars(Running /\ UploadStep(w) /\ UNCHANGED <<recvVars, mainVars>>)
  /\ WF_vars(Running /\ CloseStep)
  /\ SF_vars(Running /\ CloseQuit)
  /\ WF_vars(Running /\ PushData)

FairSpec == Spec /\ Fairness

-----------------------------------------------------------------------------
(* Properties *)

UploadTypeOK ==
  /\ batches \in Seq(Seq(Payload))
  /\ batchesClosed \in BOOLEAN
  /\ wpc \in [Worker -> {"idle", "sending", "done", "exit"}]
  /\ inflight \in [Worker -> Seq(Payload)]
  /\ failed \in Nat
  /\ serviceRejected \in Nat

ProcTypeOK ==
  /\ ppc \in {"select", "check", "copy", "return", "send", "full",
              "close", "wait", "done", "exit"}
  /\ batch \in Seq(TraceSegment)
  /\ docs \in Seq(Payload)
  /\ idleTimer \in {"armed", "spent"}
  /\ Empty \in BOOLEAN
  /\ processed \in Nat
  /\ wdone \in Nat
  /\ mem \in [Buffer -> Payload \cup {nil}]

RecvTypeOK ==
  /\ rpc \in [Sender -> {"get", "read", "count", "release", "reject", "send", "done", "exit"}]
  /\ rbuf \in [Sender -> Buffer \cup {nil}]
  /\ sockOpen \in BOOLEAN
  /\ arrived \in 0 .. MaxDatagrams
  /\ dcount \in Nat

MainTypeOK ==
  /\ mpc \in {"await", "closeStd", "quit", "waitProc", "waitTel", "exit"}
  /\ dones \in Nat
  /\ tpc \in {"select", "push", "lastpush", "done", "exit"}

\* Every variable has its type; in particular only segments with a pool buffer
\* enter the ring buffer, and only payloads that were read become documents.
TypeOK ==
  /\ PoolTypeOK
  /\ TelemetryTypeOK
  /\ RingTypeOK
  /\ UploadTypeOK
  /\ ProcTypeOK
  /\ RecvTypeOK
  /\ MainTypeOK

\* The segments of the batch whose buffers the processor still holds.
Returned == IF ppc = "return" THEN Len(docs) - 1 ELSE Len(docs)
Unreturned == {i \in DOMAIN batch : i > Returned}

\* Where the pool's buffers can be.
InRing == {c[i].PoolBuf : i \in DOMAIN c}
InBatch == {batch[i].PoolBuf : i \in Unreturned}
InHands == {rbuf[r] : r \in Sender} \ {nil}

\* No buffer is in two places: not in the pool while a receiver, the ring or
\* the batch has it, not in the ring twice, not with two receivers.  A second
\* owner would let a datagram overwrite a segment that is still to be sent.
ExclusiveOwner ==
  /\ NoDuplicates
  /\ \A i, j \in DOMAIN c : c[i].PoolBuf = c[j].PoolBuf => i = j
  /\ \A i, j \in Unreturned : batch[i].PoolBuf = batch[j].PoolBuf => i = j
  /\ \A r, s \in Sender : rbuf[r] = rbuf[s] /\ rbuf[r] # nil => r = s
  /\ InPool \cap (InRing \cup InBatch \cup InHands) = {}
  /\ InRing \cap (InBatch \cup InHands) = {}
  /\ InBatch \cap InHands = {}

\* And none is lost, however poll() leaves its loop body: an empty read, a
\* rejected datagram and a copied payload give their buffer back, and only a
\* receiver that has returned keeps one.
NoBufferLost == InPool \cup InRing \cup InBatch \cup InHands = Buffer

BufferOwnership == ExclusiveOwner /\ NoBufferLost

\* Sized as initDaemon sizes it, the ring buffer never truncates: a Send that
\* reaches its channel finds room, so the unsynchronised r.count++ and the
\* spillover in Send never run in the daemon.
RingNeverTruncates ==
  /\ \A r \in Sender : sendAt[r] \in {"idle", "try"}
  /\ count = 0

\* What sendBatchAsync copies out of a buffer is the datagram the segment was
\* made from: no receiver has written to the buffer since, although Raw is
\* only a slice of it.
PayloadIntact ==
  /\ \A i \in DOMAIN c : mem[c[i].PoolBuf] = c[i].Raw
  /\ \A i \in DOMAIN batch :
       IF i <= Len(docs) THEN docs[i] = batch[i].Raw
                         ELSE mem[batch[i].PoolBuf] = batch[i].Raw

\* An upload carries between one document and batchSize documents, whichever
\* of the four reasons made the processor send the batch.
UploadSize ==
  /\ \A i \in DOMAIN batches : Len(batches[i]) \in 1 .. batchSize
  /\ \A w \in Worker : wpc[w] = "sending" => Len(inflight[w]) \in 1 .. batchSize

\* When main goes past <-processor.Done, nothing that entered the ring buffer
\* is left anywhere: every batch was uploaded, failed or spilled over.
ExitDrained ==
  mpc \in {"waitTel", "exit"} =>
    /\ closed
    /\ c = << >>
    /\ batch = << >>
    /\ batches = << >>
    /\ \A w \in Worker : inflight[w] = << >>

\* The three counters that close() logs agree: what the receivers counted is in
\* the channel, in a Send call, truncated or processed.
CloseLedger ==
  dcount = processed + count + Len(c) + Cardinality({r \in Sender : sendAt[r] # "idle"})

\* The number of receivers that are in one of some places.
At(S) == Cardinality({r \in Sender : rpc[r] \in S})

\* The documents in the batches of a queue or of the workers, by their places.
Documents(f) == UNION {{i} \X DOMAIN f[i] : i \in DOMAIN f}

\* Segments that are somewhere between the socket and the end of an upload.
InPipeline ==
  At({"send", "reject"}) + Len(c) + Len(batch)
    + Cardinality(Documents(batches)) + Cardinality(Documents(inflight))

\* Receivers that reported the closed socket and went round their loop again.
Echoes == dones - At({"exit"})

\* Only such an echo can deceive close(): without one the ring buffer is closed
\* when every receiver has returned from poll(), so that no Send meets the
\* closed channel and panics, whenever the signal comes and reads fail.
OnlyEchoesPanic ==
  Echoes = 0 => /\ ~panic
                /\ closed => \A r \in Sender : rpc[r] = "exit"

\* Every datagram that telemetry counts as received is, exactly once, still on
\* its way, or counted as sent, as spillover or as rejected by poll(), or lost
\* with a failed upload, which no segment counter shows.  A receiver that meets
\* the closed socket with its fallback buffer adds a spillover of its own.
TelemetryLedger ==
  T["received"] + Echoes =
    T["spillover"] + T["sent"] + (T["rejected"] - serviceRejected) + failed + InPipeline

\* The record that pushData takes out of service at Quit has every received
\* segment of the daemon's life in it or before it: a receiver that is still to
\* count one keeps main in its wait for the receivers, wherever the socket was
\* closed between the read and the count.  Only an echo, which answers for that
\* receiver, lets main go on and a segment be counted after Quit.
ReceivedBeforeQuit ==
  [][T'["received"] # T["received"] => mpc = "await" \/ Echoes > 0]_vars

(***************************************************************************)
(* Daemon implements TraceRelay.  What waits in the relay is the           *)
(* processor's batch and the ring buffer.  A segment that is not yet       *)
(* copied stands for what its buffer holds now, so a buffer overwritten or *)
(* reused too early changes what waits.  A datagram is decided about when  *)
(* its Send returns or when it does not get that far; one in the fallback  *)
(* buffer when it is read.                                                 *)
(***************************************************************************)
Decided ==
  LET sending == {r \in Sender : rpc[r] \in {"count", "send"} /\ rbuf[r] # nil}
  IN  (1 .. arrived) \ {mem[rbuf[r]] : r \in sending}

Waiting ==
  [i \in 1 .. Len(batch) + Len(c) |->
     IF i <= Len(docs) THEN docs[i]
     ELSE IF i <= Len(batch) THEN mem[batch[i].PoolBuf]
     ELSE mem[c[i - Len(batch)].PoolBuf]]

Relay == INSTANCE TraceRelay WITH
  Segment <- Payload, MaxBatch <- batchSize, Uploader <- Worker,
  decided <- Decided, waiting <- Waiting, groups <- batches, uploading <- inflight,
  stopped <- (mpc \in {"waitTel", "exit"})

\* Every step of the pipeline is a step of the relay or changes nothing in it:
\* segments leave in the order they entered the ring buffer, once, unchanged,
\* in groups that are uploaded or spilled over, and close() goes past
\* <-processor.Done only when nothing is left.
ImplementsRelay == Relay!RelaySpec

(***************************************************************************)
(* The inductive invariant: the properties above and what relates the      *)
(* places of the goroutines to their data.                                 *)
(***************************************************************************)
ReceiverInv ==
  \A r \in Sender :
    /\ rpc[r] = "get" => rbuf[r] = nil
    /\ rpc[r] \in {"release", "reject", "send", "exit"} => rbuf[r] # nil
    /\ rpc[r] = "count" /\ rbuf[r] # nil => mem[rbuf[r]] \in Payload
    /\ rpc[r] = "send" => /\ sendAt[r] # "idle"
                          /\ sendSeg[r] \in TraceSegment
                          /\ sendSeg[r].PoolBuf = rbuf[r]
                          /\ mem[rbuf[r]] = sendSeg[r].Raw
    /\ rpc[r] # "send" => sendAt[r] = "idle"

ProcessorInv ==
  /\ ppc \in {"select", "check"} => docs = << >> /\ Len(batch) < batchSize
  /\ ppc = "check" => batch # << >>
  /\ ppc = "copy" => Len(docs) < Len(batch)
  /\ ppc = "return" => Len(docs) \in 1 .. Len(batch)
  /\ ppc \in {"send", "full"} => Len(docs) = Len(batch) /\ docs # << >>
  /\ ppc \in {"close", "wait", "done", "exit"} => batch = << >> /\ docs = << >> /\ Empty
  /\ Len(batch) <= batchSize
  /\ Empty => closed /\ c = << >>

WorkerInv ==
  /\ batchesClosed <=> ppc \in {"wait", "done", "exit"}
  /\ \A w \in Worker :
       /\ wpc[w] \in {"done", "exit"} => batchesClosed /\ batches = << >>
       /\ wpc[w] # "sending" => inflight[w] = << >>
  /\ wdone = Cardinality({w \in Worker : wpc[w] = "exit"})
  /\ ppc \in {"done", "exit"} => \A w \in Worker : wpc[w] = "exit"

MainInv == mpc \in {"waitTel", "exit"} => ppc = "exit"

DaemonInv ==
  /\ TypeOK
  /\ PoolConsistent
  /\ BufferOwnership
  /\ RingNeverTruncates
  /\ PayloadIntact
  /\ UploadSize
  /\ ReceiverInv
  /\ ProcessorInv
  /\ WorkerInv
  /\ MainInv
=============================================================================
