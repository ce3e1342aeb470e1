# TLA+ models of the AWS X-Ray daemon

The daemon receives trace segments over UDP, batches them and uploads them to
the X-Ray service; next to that it is an HTTP proxy that signs requests to the
same service. This directory holds TLA+ modules that model the goroutines of the
daemon and how they are configured, TLC configurations that check them on small
instances, and TLAPS proofs for every value of the constants.
`PROJECT.json` lists runs, theorems, hazards and the source lines behind every
definition.

## 1. The system

### Components, state and operations

| Component | Source | State | Operations |
|---|---|---|---|
| Buffer pool | `pkg/bufferpool` | stack of free buffers, hash of their addresses, a lock | `Init`, `Get`, `Return`, `CurrentBuffersLen`, `GetPoolBufferCount` |
| Ring buffer | `pkg/ringbuffer` | a channel of segments, an unsynchronised count of truncated segments | `New`, `Send`, `Close` |
| Receivers | `cmd/tracing/daemon.go` | one fallback buffer per goroutine, the socket | `poll`, `read` |
| Processor | `pkg/processor/processor.go` | the current batch, a one-shot idle timer, a count | `poll`, `receiveTraceSegment`, `sendBatchAsync` |
| Upload workers | `pkg/processor/batchprocessor.go` | a bounded channel of batches | `send`, `poll`, `close` |
| Telemetry | `pkg/telemetry` | the current record, a channel of old records, `postTelemetry` | the counting methods, `pushData`, `add`, `sendAll` |
| Start and stop | `cmd/tracing` | the flag variables, the channel `done` | `init`, `initDaemon`, `runDaemon`, `stop`, `close` |
| Configuration | `pkg/cfg`, `pkg/cli`, `pkg/conn` | files, flags, environment | `LoadConfig`, `merge`, `ConfigValidation`, `GetAWSConfig` |
| Datagram format | `pkg/util`, `pkg/tracesegment` | none: slices of a pool buffer | `SplitHeaderBody`, `IsValid` |
| X-Ray client | `pkg/conn/xray_client.go` | none | the two calls, `IsTimeoutError` |
| HTTP proxy | `pkg/proxy` | listener and open requests, none shared with the rest | `NewServer`, `getServiceEndpoint`, the Director, `Serve`, `Close` |
| Windows service | `cmd/tracing/tracing_windows.go` | the service control channel, the reported status | `Execute` |

### How they interact

    socket --> receivers --(ring buffer)--> processor --(batches)--> workers --> X-Ray
                  ^                              |
                  +---------- buffer pool -------+
    all of them --(counters)--> telemetry --> X-Ray
    signal --> stop() closes the socket;  close() <-- receivers, processor, telemetry
    service controller --> Execute --> stop()                           (Windows)
    HTTP clients --> proxy (Director, signer) --> X-Ray;  stop() closes it, too

A receiver takes a buffer from the pool (or, if it is empty, uses its own
fallback buffer and drops what it reads), reads a datagram and sends a segment,
which is a *slice of that buffer*, through the ring buffer. The processor
copies payloads out of the buffers, returns the buffers and queues a batch of
strings. Neither queue ever blocks its producer: a full queue drops its oldest
element. At shutdown the socket is closed, every receiver answers on `done`,
main closes the ring buffer, and the end travels down the chain; all channels
of that handshake are unbuffered.

### What is hard

* Buffers change hands between four goroutines without a type that tracks
  ownership; a second owner means a customer's segment is overwritten.
* `Send` and `send` are loops of two channel operations each; other goroutines
  run in between.
* The idle timer is a channel that delivers once.
* Shutdown counts answers on a channel, not receivers.
* Telemetry rotates a record that other goroutines hold a pointer to.
* Start reads two configurations into the same variables.
* Receive buffers are reused without being cleared.
* The proxy signs requests that libraries change before and after.
* On Windows close() runs beside the code that ends the process.

`PROJECT.json` lists these as hazards with the lines where they bite and the
properties that cover them.

## 2. The modules

| Module | Models | Remarks |
|---|---|---|
| `BufferPool` | `bufferpool.go` | one action per locked method; `PoolSpec` runs it against arbitrary clients |
| `TelemetryRecord` | the four segment counters | totals since start, used by the pipeline |
| `RingBuffer` | `ringbuffer.go` | `Send` is split at its channel operations and at the load and store of `r.count++` |
| `SegmentsBatch` | `batchprocessor.go` | `send` split in the same way; a worker's call ends in an error or a response |
| `Processor` | `processor.go` | extends the two queues; `mem` is the memory of the buffers |
| `Daemon` | `daemon.go`, `tracing.go` | composes everything with receivers, main and the telemetry goroutine; states the safety properties and the inductive invariant `DaemonInv` |
| `TraceRelay` | nothing: the abstract specification | a lossy first-in first-out relay: a segment is taken or refused, waits, leaves in a group, and the group is uploaded or spilled. `Daemon` maps its state to it (`Relay`): what waits is the batch and the ring buffer, read through `mem` |
| `Telemetry` | `telemetry.go` | recorders against `pushData`, with the shared counters of queued records |
| `ConnectionErrors` | `EvaluateConnectionError`, `IsTimeoutError` | pure operators on the layers of an error; `Telemetry` uses them for its own failures |
| `PushCycle` | nothing: an abstract specification | what `close()` relies on in the telemetry goroutine. `Daemon` uses its actions for that goroutine, and `Telemetry` is shown to implement it, so that nothing `pushData` does is missing from `Daemon` |
| `WindowsService` | `tracing_windows.go` | extends `Daemon`: the same goroutines, with `Execute` and the controller in place of main |
| `Datagram` | `poll`, `SplitHeaderBody`, `IsValid` | byte by byte, over buffers that keep what earlier datagrams left; what stands behind the choice `Daemon` makes between well-formed and malformed |
| `Proxy` | `server.go`, `ProxyServerTransport` | requests of clients against `Serve` and `Close`; net/http, its reverse proxy and the signer are external |
| `Startup` | `init`, `initDaemon`, `cfg.go`, `GetAWSConfig`, `newT`, `udp.New` | sequential; inputs are files, flags and machine |
| `...Proofs` | | proofs: of `BufferPool`, `RingBuffer` with the clients of `MCRingBuffer`, `Daemon`, `WindowsService`, `Telemetry`, `Datagram`, `Startup`, `Proxy` |
| `MC*` | | instances for TLC |

How to read the correspondence:

* Every goroutine has a program counter (`rpc`, `ppc`, `wpc`, `mpc`, `tpc`,
  `sendAt`) whose values are the places where it touches state that another
  goroutine can see. Work on local variables and atomic counter increments
  belongs to the step before. In `poll()` the read and the counting of what was
  read are two steps (`ReadDatagram`, then `CountSegment`, `CountInvalid` or
  `CountFallback`): the socket may be closed and main go on in between.
* A send and a receive on an unbuffered channel are one step of both sides
  (`PollDone`, `CloseQuit`, `WaitProcessor`, `WaitTelemetry`, `WaitWorker`).
* A segment is its buffer and the number of the datagram it was made from
  (`Raw`); what the code reads later is `mem[PoolBuf]`. `PayloadIntact` compares
  the two.
* `failed`, `serviceRejected` (in `SegmentsBatch`) and `counted`, `reported`,
  `delivered`, `skipped`, `lost` (in `Telemetry`) record what happened and are read by
  no action that models code, except to number the calls of recorders.
* In `Daemon`, datagrams are well-formed, malformed or empty; their bytes are in
  `Datagram`.
* In `Datagram` a slice is a pair of offsets into a buffer, as in Go: it changes
  when somebody writes to the buffer. `Release` returns a buffer at any time, and
  `Read` takes any buffer that is not in the pipeline, which is what
  `BufferOwnership` allows.
* In `ConnectionErrors` an error is the sequence of its layers. A layer's text
  has a marker of a timeout or not and shows the text below it or not; that is
  all `strings.Contains` can tell.
* In `Proxy` a name is the sequence of its parts, so that the prefixes `us-iso-`
  and `us-isob-` differ as they do in the code. Headers are functions from names
  to values. A signature records the headers with their values, the host and the
  body it was computed from. The Director is one step: handlers share only the
  credentials cache and the signer. `Close` closes connections and nothing else:
  handlers go on until they meet a closed connection (`Abort`). An endpoint
  without its scheme is no error of `url.Parse`; it has no host, and every request
  for it fails in the transport.
* In `Telemetry`, `AnswerLost` is a request that the service has processed and
  whose answer did not arrive: the SDK sends it again (`RetryMaxAttempts`), or the
  call fails and the records are queued again. How many attempts one call makes is
  left open.
* In `WindowsService`, the end of `close()` (`mpc = "exit"`) does not end the
  process; `spc = "exit"` does. The controller sends requests only to a service
  that has reported Running.
* A panic, like the return of main, ends the process: `Running`.
* Definitions whose comment begins with "Mutant of" are not part of the model.
  Each is a plausible bug of the definition after it, and shows that a property
  would notice it.

Simplifications: int32 counters do not overflow (two billion segments within a
minute); `PutTraceSegments` is one outcome, with the SDK's own retries inside.
In `RingBuffer` the store of `r.count` and the spillover counter of a truncation
are one step, so their order within it is not seen. In `Telemetry` a recorder is
any pipeline goroutine; a segment is counted as sent, spilled or rejected only
after one was counted as received. In `Proxy` net/http takes no connection after
`Close`. In `Startup` one setting stands for each kind that `merge` treats, and a
file that cannot be read is one that is no YAML.

## 3. Properties and runs

| Run | Instance | Shows |
|---|---|---|
| `ring_buffer` | 3 buffers, channel of 1, 2 senders, 5 segments, buffers returned twice | `PoolConsistent`: hash and stack agree, no duplicates, no growth. `RingOwnership`, `TruncationLedger`: concurrent truncation neither leaks nor shares a buffer, and counts every dropped segment |
| `daemon` | 2 receivers, 2 buffers, batch 2, queue 1, 1 worker, 3 datagrams | the safety properties of the composition, two ledgers, `OnlyEchoesPanic`, `ReceivedBeforeQuit` |
| `shutdown` | 2 receivers, 2 workers, 1 datagram, socket errors, fairness | `ShutdownCompletes` |
| `relay` | 1 receiver, 1 worker, 3 datagrams, fairness | `ImplementsRelay`, the refinement; `SegmentLeaves` |
| `telemetry` | channel of 3, requests of 2, 3 rotations and Quit, 1 recorder, 2 kinds of error, 2 lost answers per record, fairness | `PendingInOrder`, `ReportedOnce`, `LostOnlyByTruncation`, `QuitAnswered`; `PushCycleImplemented`, the refinement |
| `startup` | 8 file contents in 3 places, command lines and machines that differ in every source, one machine per failure | `PrecedenceKept`, `OnlyValidFiles`, `SizedForPipeline`, `RegionFromFirstSource`, `ProxyFromFirstSource`, `LocalModeAsksNothing` |
| `datagram` | all datagrams of up to 3 bytes over a separator and two others, 2 buffers | `SplitExact`, `SegmentExact` |
| `proxy` | 2 requests, 9 configurations, 6 clients that send different headers, fairness | `ForwardedToEndpoint`, `SignatureHolds`, `CloseEndsProxy` |
| `shutdown_race` | 2 receivers, 1 buffer | violated: finding 1 |
| `telemetry_skip` | 1 recorder, 1 rotation | violated: finding 2 |
| `windows_stop` | 1 receiver, 1 datagram | violated: finding 3 |
| `timeout_count` | errors of 2 layers | violated: finding 4 |

The daemon's properties, in words:

* `BufferOwnership`: every buffer is in exactly one place, the pool, a
  receiver, the ring buffer or the unreturned part of the batch.
* `RingNeverTruncates`: with the sizes `initDaemon` passes, `Send` always finds
  room, because at most as many segments exist as there are buffers. This is
  what makes the unsynchronised `r.count++` harmless; `ring_buffer` shows what
  holds when it does run (the count may be too low, never too high).
* `PayloadIntact`: what is copied is what was received.
* `UploadSize`: one to `batchSize` documents per upload.
* `ExitDrained`: past `<-processor.Done`, nothing is left anywhere.
* `TelemetryLedger`: every received datagram is on its way, or counted exactly
  once as sent, spillover or rejected, or was in a failed upload. It makes two
  facts precise that the code leaves to the reader: failed uploads appear in no
  segment counter, and a receiver that meets the closed socket with its
  fallback buffer adds a spillover for a datagram that never was.
* `CloseLedger`: the three numbers `close()` logs agree.
* `ShutdownCompletes`, `SegmentLeaves`: see below.
* `OnlyEchoesPanic`: the reverse of finding 1. Unless a receiver with its
  fallback buffer has answered and gone on, `close()` closes the ring buffer when
  every receiver has returned, and no `Send` panics.
* `ImplementsRelay`: every datagram is decided about once; those that are taken
  leave in order, once, unchanged, in groups of at most `batchSize`, a group is
  uploaded by one call or spilled over from the front of the queue, and main goes
  past `<-processor.Done` with nothing left.
* `ReceivedBeforeQuit`: a received segment is counted while main still waits for
  the receivers, so the record that telemetry takes out of service at Quit comes
  after it, also for a receiver that stood between its read and its count when the
  socket was closed. Only an echo (finding 1) breaks this: it answers in that
  receiver's place, main goes on, and the segment is counted after Quit, with or
  without a permanent error of the open socket.

Of the other parts:

* `SplitExact`, `SegmentExact`: what is split off, and what a segment in the
  pipeline shows at any later time, is the datagram's own header and body, though
  the buffer holds older bytes after them and other buffers are being filled.
* `ForwardedToEndpoint`: also a request whose body or credentials fail leaves for
  the configured endpoint or that of its region's partition.
* `SignatureHolds`: what the service can verify of a signed request. Host and body
  are the signed ones, nothing unsigned comes in but what the signer ignores and
  `X-Forwarded-For`, and every signed header arrives with its signed value
  *exactly when* the client sent none of those that the reverse proxy takes or
  changes after the Director has signed them. The Director removes `Connection`
  before it signs, for the reason its comment (`server.go:75-77`) gives. The same
  reason holds for the other hop-by-hop headers, such as `Keep-Alive` or
  `Proxy-Authorization`, which are signed and then removed, and for a client's own
  `X-Forwarded-For`, which is signed and then extended: such a request arrives
  with a signature that does not verify. A `Te` survives only as `trailers`.
* `ReportedOnce`: the service is told of a record no more than it counts, once and
  once more for every answer that was lost. The code cannot do better: a request
  that was processed and failed all the same is in `records[i:]` and is sent again.
  `PendingInOrder` is about acknowledged requests.
* `SizedForPipeline`: what `Daemon` assumes of its constants. `getIntValue`
  replaces only 0, and `ConfigValidation` looks at keys only, so a negative
  Concurrency in a file is the one way to a running daemon without a worker.
* `CloseEndsProxy`: a Close before Serve has begun to listen ends it, and the
  handlers that Close finds under way, which go on, all come to an end.
* `ProxyFromFirstSource`: the outbound proxy is that of the flag, the chosen
  file, or `HTTPS_PROXY`. `init` copies the flag's variable over the Config, so
  an empty flag also hides the file's address and `HTTPS_PROXY` decides.
* `LocalModeAsksNothing`: in local mode neither region, host name nor instance
  id come from the metadata service.

### Bounds

Two receivers are what `ParameterConfigValue` starts. Two buffers and batches
of two let the pool run empty, a batch be complete, and the early send, the
idle send and the send at the end happen. A queue of one is full with one
batch; three datagrams are needed to make a batch of two spill over. The
telemetry channel of three with requests of two makes a request fail after
another has succeeded and the channel overflow at Quit; two lost answers let a
request be processed twice within one call or before and after it was queued
again. One recorder is enough there: with `MaxCounts` of one, two recorders
never add at once, and the theorems are for any number. `MaxDatagrams`,
`MaxSegments`, `MaxPushes`, `MaxCounts` and `MaxLost` bound the behaviours and appear in guards only.
Workers and receivers are symmetric and symmetry is used in runs that check no
liveness property. `daemon` was also run with `DaemonInv` as an invariant, with
two datagrams, before it was proved.

Three bytes are enough for a separator first, last, twice or nowhere, and for a
longer datagram before a shorter one in the same buffer. Two requests let Close
meet one in flight and one that has not been accepted. The nine configurations
of the proxy are each source of an endpoint, each partition, an endpoint without
its scheme, and two that `NewServer` refuses; its clients send a `Connection`, a
`Te` that is put back, shortened or dropped, another hop-by-hop header, or an
`X-Forwarded-For`. The proxy may stop (`CHECK_DEADLOCK FALSE`) because a
refused or closed one does nothing more.

### Fairness

A goroutine that can go on does go on (weak fairness per goroutine, Go's
scheduler). Reads fail once the socket is closed. The idle timer fires, which is
part of the processor's weak fairness. Uploads return: the HTTP client has a
timeout of `RequestTimeout` seconds. Nothing is assumed about datagrams,
signals, or errors of an open socket. `CloseQuit` has strong fairness: main
waits in `T.Quit <- true`, and when the telemetry goroutine comes back to its
`select` the timer it has just armed, 60 seconds, is not ready, so Quit is taken
then at the latest. In `Proxy`, the goroutine of `Serve` and the
handlers are fair up to the round trip, and when their connection is closed under
it (`Retrieve` is taken to return, with credentials or an error); neither clients nor the service are, as
the transport of the proxy has no timeout for an answer.

### Findings

1. **A receiver without a pool buffer answers more than once at shutdown**
   (`shutdown_race`, `daemon.go:302`). `read()` answers on `d.done` and returns
   -1, but `poll()` looks at `fallbackPointerUsed` first and continues, counting
   a spillover. The next failing read answers again, and `close()` takes it for
   the answer of another receiver that is still in `Send`. It closes the ring
   buffer, and that `Send` panics: the segments in the pipeline are lost. It
   needs an empty pool at the moment of the signal.
2. **The first record can be skipped although a segment was counted in it**
   (`telemetry_skip`, `telemetry.go:120-122`). `postTelemetry` is set after the
   count; a rotation in between drops the record.
3. **A Windows service ends before its pipeline is drained** (`windows_stop`,
   `tracing_windows.go:65`). `close()` runs in a goroutine that `Execute` does
   not wait for, although the comment at `:37-38` is about waiting.
4. **Timeouts of calls are not counted** (`timeout_count`, `telemetry.go:84`).
   The SDK returns every error of a call in an `OperationError`, and
   `EvaluateConnectionError` asks `IsTimeoutError` only for errors without one.

## 4. Proofs

`BufferPoolProofs` proves `PoolSpec => []PoolConsistent` from
`bufferLimitAssumption` and `ForeignAssumption` alone, and the lemmas on `Get`
and `Return` that `DaemonProofs` cites. The argument: `Return` consults the hash
and the capacity, so with hash and stack in agreement the stack stays without
duplicates.

`RingBufferProofs` proves `RingOwnershipTheorem` and `TruncationTheorem` for any
channel size, number of senders and segments, for the clients of `MCRingBuffer`
(concurrent senders, one consumer, `Close` and a client that returns buffers
twice). Five places share the buffers: the pool, the calls of `Send`, the channel,
the segments that truncating senders have taken out, and the consumer's hands.
`RingInvariance` says that each holds distinct buffers, that no two share one, and
what a call holds at each of its places (`SendInv`); the count of dropped segments
follows from it, since a sender with a loaded `r.count` has a spillover still to
come.

`DaemonProofs` proves `Spec => []DaemonInv` (`Invariance`) and from it
`TypeCorrect`, `BuffersOwned`, `NeverTruncates`, `PayloadsIntact`,
`UploadsSized`, `DrainedAtExit`. They hold for any finite set of receivers and
workers, any number of buffers and datagrams, any queue size and
`batchSize <= bufferLimit`. Assumptions: those named `...Assumption` in the
modules; the one of substance is `SizingAssumption`, which says that pool and
ring buffer get the same number, as in `initDaemon`. `Startup` checks that
sizing (`SizedForPipeline`).

Why `DaemonInv` is needed. `PayloadIntact` is not inductive alone: a receiver
writes into its buffer, and the write is harmless only because no segment in the
ring or the batch uses that buffer, which is `BufferOwnership`. Ownership in
turn needs `ReceiverInv` (a receiver in `Send` sends the buffer it holds),
`ProcessorInv` (which buffers of the batch are returned, by the place the
processor is at), and `PoolConsistent` (or `Return` would refuse a buffer and
lose it). `RingNeverTruncates` follows from ownership by counting: the buffers
in the channel are distinct, and the sender's own is not among them, so the
channel holds fewer segments than there are buffers, which is at most the
capacity (`RingHasRoom`). The same counting shows that a returned buffer finds
room in the pool. `ExitDrained` needs `WorkerInv` (a worker leaves only when the
queue is closed and empty, and `wdone` counts the ones that left) and `MainInv`.
The proof has one lemma per action, and one step per conjunct the action can
disturb; what it cannot is covered by the frame lemmas.

On the same invariant rest `LedgerKept` (`CloseLedger`; it needs the processor's
place to know whether a segment taken from the channel is already counted) and
`QuitTheorem`, which needs the count of answers (`AnswerInv`, below): a receiver
that counts a segment has not returned, so without an echo there are fewer answers
than receivers and main is still at its wait.

`TelemetryLedgerKept` proves the balance of telemetry. A document is counted by its
place in a queue or with a worker, so that sums over batches become cardinalities
of sets (`Documents`), and each action moves a fixed number between four terms:
what the counters say (`Net`), the receivers (`Hands`), ring buffer and batch
(`Flow`), queue and workers (`Uploads`).

`EchoTheorem` proves `OnlyEchoesPanic` from `AnswerInv`: main leaves its loop with
as many answers as there are receivers, every receiver that has returned gave one,
and the ring buffer is closed after that. If no answer is an echo, as many
receivers have returned as there are, and none is left in `Send`.

`RelayTheorem` is the refinement `Spec => ImplementsRelay`, step by step. Two facts
carry it: `WaitingIsRaws`, that what the buffers hold now is what the segments were
made from (`PayloadIntact`), so that the mapped queue only changes where batch and
ring buffer do; and `ArrivalInv`, that the calls of `Send` are about distinct
datagrams that have arrived, so that each is decided about once. A `Send` that
returns is `Take`, a datagram that does not get as far is `Refuse`, `SendBatch` is
`Cut`, `BatchTruncate` is `Spill`, the workers are `StartUpload` and `EndUpload`,
`WaitProcessor` is `StopRelay` (by `ExitDrained`), and everything else stutters.

`WindowsServiceProofs` carries `DaemonInv` over to the service: its goroutines
take the steps of `Daemon`, except that they go on when `close()` has ended, and
`Execute` only calls `stop()`. So `ServiceInvariance`, `ServiceDrained` and
`ServiceBuffersOwned` hold whatever the controller does. The lemmas behind the
ledger, the answers and the relay are about any step of the goroutines (`AnyStep`),
so `ServiceLedger`, `ServiceEchoes` and `ServiceRelay` follow in the same way.

`TelemetryProofs` proves `TelemetryInvariant`, and from it `InOrderTheorem`,
`LostTheorem`, `ReportedOnceTheorem` and `CycleTheorem`, for any channel and
request size. The
invariant says that the records in the request list, then the channel, then the
current one, are increasing numbers, and what holds at each place of `pushData`:
in particular that the channel is empty while `sendAll` works on its list, so
that queueing a failed list again truncates nothing. For `ReportedOnce` it is
strengthened by `ReportInv`: of a record that is still pending at most as much has
been reported as it counts, times the answers lost for it, and a request in flight
has, of each of its records, no more than the record counts by now, since counters
only grow. `CycleTheorem` is the safety part of `PushCycleImplemented`; that each push ends is left to TLC.

`DatagramProofs` proves `SplitTheorem` and `SegmentTheorem` for every size of the
buffers and every set of bytes. The invariant relates the scan to the datagram:
the first `rlen` bytes of the buffer are the datagram and those before `i` are no
separator; and each segment in the pipeline to its own, with distinct buffers.

`StartupProofs` proves all six properties of `Startup`, for every set of files,
flags and machines and every list of default locations. The invariant gives, for
each place of `init`, which file `config` and `global` come from and which flags
are applied. `SizingTheorem` establishes what `DaemonProofs` assumes in
`SizingAssumption`.

`ProxyProofs` proves `EndpointTheorem` and `SignatureTheorem` for any number of
clients and any headers and configurations (`ConfigsAssumption`: the name of a
region has at least three parts; `HeadersAssumption`: a header has a sequence of
values). The invariant follows one request: between `Director` and the reverse
proxy its headers are the client's without `Connection`, with those of the signer
set, and the signature is of just these. `HeadersArrive` then compares what the
reverse proxy passes on with what was signed, header by header, in both
directions.

Every safety property that a passing run checks is stated by a theorem. Only
model-checked: liveness under fairness (`ShutdownCompletes`, `SegmentLeaves`,
`QuitAnswered`, `CloseEndsProxy`, and the fair part of `PushCycleImplemented`),
which is out of the prover's reach. The four violated properties are TLC's
counterexamples.

## 5. Not modelled

* Logger and profiler: output only. The usage text of `cli` and the log writers
  of `cfg.go`, for the same reason.
* The user agent and timestamp headers of `NewXRay`, timeouts and role
  credentials of the HTTP clients: they fill in structures of libraries. That a
  call ends is the fairness assumption above.
* `Deflate` and `ConnectionRefusal`, which the daemon does not call.
* Packaging and service scripts.
* How the counts of the last uploads are distributed over the last telemetry
  record and none: `close()` announces that both are pushed in parallel, and
  `ReceivedBeforeQuit` states what the code does guarantee.

## 6. Plan

Done, in this order: pool, ring buffer, upload queue, processor, daemon and
shutdown, abstract relay and refinement, telemetry, start; Windows service,
connection errors, datagram format, HTTP proxy, the rest of start, the cycle
that joins `Daemon` and `Telemetry`; proofs of the pool, the ring buffer, the
daemon with its ledgers and the refinement of the relay, the service, telemetry,
the datagram format, start and the proxy.

Next: the steps of the liveness arguments that need no fairness, as theorems: what
each goroutine that has not ended decreases with every step (the records left to
send, the answers and workers still awaited, the segments in the pipeline).
