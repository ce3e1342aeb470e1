--------------------------- MODULE TelemetryRecord ---------------------------
(***************************************************************************)
(* The four segment counters that the receivers, the ring buffer and the   *)
(* upload workers share through the global telemetry.T                     *)
(* (src/pkg/telemetry/telemetry.go).  T holds the totals since the daemon  *)
(* started: how the telemetry goroutine cuts them into one record per      *)
(* minute does not change what was counted.  Every increment of the code   *)
(* is one atomic.AddInt32; a total that would leave int32 needs two        *)
(* billion segments between two records and is not modelled.               *)
(***************************************************************************)
EXTENDS Integers

VARIABLE T

\* The four counters of a telemetry record.
CounterNames == {"received", "sent", "spillover", "rejected"}

EmptyTelemetryRecord == [k \in CounterNames |-> 0]

TelemetryInit == T = EmptyTelemetryRecord

\* The record after count more segments were counted under name.
Counted(name, count) == [T EXCEPT ![name] = @ + count]

SegmentReceived(count)  == T' = Counted("received", count)
SegmentSent(count)      == T' = Counted("sent", count)
SegmentSpillover(count) == T' = Counted("spillover", count)
SegmentRejected(count)  == T' = Counted("rejected", count)

TelemetryTypeOK == T \in [CounterNames -> Nat]
=============================================================================
