------------------------- MODULE WindowsServiceProofs -------------------------
(***************************************************************************)
(* Proofs about WindowsService.  What DaemonProofs shows of the goroutines *)
(* does not depend on who stops them: Execute only calls stop(), and the   *)
(* goroutines go on while close() is over, which they never do in Daemon.  *)
(***************************************************************************)
EXTENDS WindowsService, DaemonProofs

\* The invariant is about the daemon's variables alone.
LEMMA SameInv == ASSUME DaemonInv, UNCHANGED vars PROVE DaemonInv'
BY NextInv

\* A step of the goroutines.
LEMMA GoroutinesInv == ASSUME DaemonInv, Goroutines PROVE DaemonInv'
<1>1. CASE \E r \in Sender : Receiver(r)
  BY <1>1, ReceiverStepInv
<1>2. CASE ProcStep /\ UNCHANGED <<recvVars, mainVars>>
  BY <1>2, ProcStepInv
<1>3. CASE \E w \in Worker : UploadStep(w) /\ UNCHANGED <<recvVars, mainVars>>
  BY <1>3, UploadStepInv
<1>4. CASE CloseStep \/ PushData
  BY <1>4, CloseStdInv, CloseQuitInv, WaitProcessorInv, WaitTelemetryInv, PushDataInv
     DEF CloseStep
<1>. QED
  BY <1>1, <1>2, <1>3, <1>4 DEF Goroutines

\* A step of Execute or of the service controller.
LEMMA ExecuteInv == ASSUME DaemonInv, SendRequest \/ Execute PROVE DaemonInv'
<1>1. CASE StopDaemon
  BY <1>1, StopInv DEF StopDaemon
<1>2. CASE ~StopDaemon
  <2>1. UNCHANGED vars
    BY <1>2 DEF SendRequest, Execute, Report, TakeRequest, Return0
  <2>. QED
    BY <2>1, SameInv
<1>. QED
  BY <1>1, <1>2

\* The daemon's invariant holds in the service, for every number of receivers,
\* workers and buffers and every sequence of requests.
THEOREM ServiceInvariance == WSpec => []DaemonInv
<1>1. WInit => DaemonInv
  BY InitInv DEF WInit
<1>2. DaemonInv /\ [WNext]_wvars => DaemonInv'
  <2>. SUFFICES ASSUME DaemonInv, [WNext]_wvars PROVE DaemonInv'
    OBVIOUS
  <2>1. CASE UNCHANGED wvars
    BY <2>1, SameInv DEF wvars
  <2>. QED
    BY <2>1, GoroutinesInv, ExecuteInv DEF WNext
<1>. QED
  BY <1>1, <1>2, PTL DEF WSpec

\* When close() has heard from the processor, nothing is left in the service's
\* pipeline, although the goroutines are not ended by close().
THEOREM ServiceDrained == WSpec => []ExitDrained
<1>1. DaemonInv => ExitDrained
  BY DrainedInv
<1>. QED
  BY <1>1, ServiceInvariance, PTL

\* A buffer has one owner in the service, too.
THEOREM ServiceBuffersOwned == WSpec => []BufferOwnership
<1>1. DaemonInv => BufferOwnership
  BY DEF DaemonInv
<1>. QED
  BY <1>1, ServiceInvariance, PTL

\* Whatever the service does is a step of the daemon's goroutines or of nobody
\* in the daemon.
LEMMA ServiceIsAnyStep == [WNext]_wvars => AnyStep
<1>. SUFFICES ASSUME [WNext]_wvars PROVE AnyStep
  OBVIOUS
<1>1. CASE Goroutines
  BY <1>1 DEF Goroutines, AnyStep
<1>2. CASE SendRequest \/ Execute
  <2>1. Stop \/ UNCHANGED vars
    BY <1>2 DEF SendRequest, Execute, Report, TakeRequest, StopDaemon, Return0
  <2>. QED
    BY <2>1 DEF AnyStep
<1>3. CASE UNCHANGED wvars
  BY <1>3 DEF wvars, AnyStep
<1>. QED
  BY <1>1, <1>2, <1>3 DEF WNext

\* Telemetry accounts for every datagram in the service, too, also for those
\* that are still on their way when Execute returns.
THEOREM ServiceLedger == WSpec => []TelemetryLedger
<1>1. WInit => TelemetryLedger /\ DocumentsFinite
  BY TelemetryStart DEF WInit
<1>2. DaemonInv /\ DaemonInv' /\ DocumentsFinite /\ TelemetryLedger /\ [WNext]_wvars
        => TelemetryLedger' /\ DocumentsFinite'
  BY ServiceIsAnyStep, TelemetryStep
<1>. QED
  BY <1>1, <1>2, ServiceInvariance, PTL DEF WSpec

\* close() of the service panics only after the answer of a receiver with its
\* fallback buffer.
THEOREM ServiceEchoes == WSpec => []OnlyEchoesPanic
<1>1. WInit => AnswerInv
  BY AnswerInit DEF WInit
<1>2. DaemonInv /\ AnswerInv /\ [WNext]_wvars => AnswerInv'
  BY ServiceIsAnyStep, AnswerStep
<1>3. DaemonInv /\ AnswerInv => OnlyEchoesPanic
  BY AnswersPanic
<1>. QED
  BY <1>1, <1>2, <1>3, ServiceInvariance, PTL DEF WSpec

\* The service is the same relay: as long as its process lives, segments are
\* neither reordered, duplicated nor changed, whatever the controller requests.
THEOREM ServiceRelay == WSpec => ImplementsRelay
<1>1. WInit => Relay!RelayInit /\ ArrivalInv
  BY RelayStart DEF WInit
<1>2. DaemonInv /\ DaemonInv' /\ ArrivalInv /\ [WNext]_wvars
        => ArrivalInv' /\ [Relay!RelayNext]_(Relay!relayVars)
  BY ServiceIsAnyStep, RelayStep
<1>. QED
  BY <1>1, <1>2, ServiceInvariance, PTL DEF WSpec, ImplementsRelay, Relay!RelaySpec
=============================================================================
