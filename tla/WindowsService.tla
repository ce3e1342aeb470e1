---------------------------- MODULE WindowsService ----------------------------
(***************************************************************************)
(* The daemon as a Windows service (src/cmd/tracing/tracing_windows.go).   *)
(* The goroutines are those of Daemon, with one difference: close() runs   *)
(* in a goroutine of its own, so its end does not end the process.  The    *)
(* process ends when Execute returns.                                      *)
(*                                                                         *)
(* spc is where Execute is:                                                *)
(*   "started"  the goroutines run; about to report Running                *)
(*   "loop"     waiting for a ChangeRequest                                *)
(*   "answer"   about to report the current status, "again" a second time  *)
(*   "stopping" left the loop; about to report StopPending                 *)
(*   "stop"     about to call d.stop()                                     *)
(*   "return"   returning to svc.Run                                       *)
(*   "exit"     the process has ended                                      *)
(* request is the ChangeRequest the service controller has sent and        *)
(* Execute has not taken, status the last status reported to it.  The      *)
(* controller sends requests to a service that is running.                 *)
(***************************************************************************)
EXTENDS Daemon

VARIABLES spc, request, status

serviceVars == <<spc, request, status>>
wvars == <<vars, serviceVars>>

Cmds == {"Interrogate", "Stop", "Shutdown", "another"}
noRequest == "none"

WInit ==
  /\ Init
  /\ spc = "started"
  /\ request = noRequest
  /\ status = "StartPending"

\* The service controller.
SendRequest ==
  /\ request = noRequest
  /\ status = "Running"
  /\ request' \in Cmds
  /\ UNCHANGED <<spc, status, vars>>

\* s <- svc.Status{...}
Report(place, state, next) ==
  /\ spc = place
  /\ status' = state
  /\ spc' = next
  /\ UNCHANGED <<request, vars>>

\* c := <-r and the switch.
TakeRequest ==
  /\ spc = "loop"
  /\ request # noRequest
  /\ spc' = CASE request = "Interrogate"         -> "answer"
              [] request \in {"Stop", "Shutdown"} -> "stopping"
              [] OTHER                            -> "loop"
  /\ request' = noRequest
  /\ UNCHANGED <<status, vars>>

\* d.stop()
StopDaemon ==
  /\ spc = "stop"
  /\ Stop
  /\ spc' = "return"
  /\ UNCHANGED <<request, status>>

\* return false, 0: svc.Run reports Stopped and main returns.
Return0 ==
  /\ spc = "return"
  /\ spc' = "exit"
  /\ status' = "Stopped"
  /\ UNCHANGED <<request, vars>>

Execute ==
  \/ Report("started", "Running", "loop")
  \/ TakeRequest
  \/ Report("answer", status, "again")
  \/ Report("again", status, "loop")
  \/ Report("stopping", "StopPending", "stop")
  \/ StopDaemon
  \/ Return0

WRunning == ~panic /\ spc # "exit"

Goroutines ==
  \/ \E r \in Sender : Receiver(r)
  \/ ProcStep /\ UNCHANGED <<recvVars, mainVars>>
  \/ \E w \in Worker : UploadStep(w) /\ UNCHANGED <<recvVars, mainVars>>
  \/ CloseStep
  \/ PushData

WNext ==
  \/ WRunning /\ Goroutines /\ UNCHANGED serviceVars
  \/ WRunning /\ (SendRequest \/ Execute)
  \/ ~WRunning /\ UNCHANGED wvars

WSpec == WInit /\ [][WNext]_wvars
=============================================================================
