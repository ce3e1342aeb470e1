------------------------------ MODULE PushCycle ------------------------------
(***************************************************************************)
(* What close() may rely on in the telemetry goroutine                     *)
(* (pushData of src/pkg/telemetry/telemetry.go): from its select it pushes *)
(* records and comes back, until it takes Quit; then it pushes once more,  *)
(* sends on Done and is gone.  An abstract specification: Daemon uses it   *)
(* for the goroutine, Telemetry is the detail.                             *)
(***************************************************************************)
VARIABLE tpc

Init == tpc = "select"

TimerPush == tpc = "select" /\ tpc' = "push"
TakeQuit  == tpc = "select" /\ tpc' = "lastpush"
PushEnds  == \/ tpc = "push" /\ tpc' = "select"
             \/ tpc = "lastpush" /\ tpc' = "done"
SendDone  == tpc = "done" /\ tpc' = "exit"

Next == TimerPush \/ TakeQuit \/ PushEnds \/ SendDone

Spec == Init /\ [][Next]_tpc

\* A push ends, however many requests fail.
FairSpec == Spec /\ WF_tpc(PushEnds)
=============================================================================
