--------------------------- MODULE ConnectionErrors ---------------------------
(***************************************************************************)
(* What telemetry makes of the error of a call to the service              *)
(* (EvaluateConnectionError of src/pkg/telemetry/telemetry.go,             *)
(* IsTimeoutError of src/pkg/conn/xray_client.go).                         *)
(*                                                                         *)
(* An error is the sequence of its layers, the outermost first; Unwrap is  *)
(* Tail.  A layer is an OperationError, a ResponseError with the status of *)
(* the response, an APIError with its code, or any other error.  Its text  *)
(* has one of the three markers of a timeout or not, and contains the text *)
(* of the layer below or not; the SDK's own wrappers always contain it.    *)
(***************************************************************************)
EXTENDS Integers, Sequences

Layer(kind, status, code, timeout, shows) ==
  [kind |-> kind, status |-> status, code |-> code, timeout |-> timeout, shows |-> shows]

Operation        == Layer("operation", 0, "", FALSE, TRUE)
Response(status) == Layer("response", status, "", FALSE, TRUE)
Api(code)        == Layer("api", 0, code, FALSE, FALSE)
Plain(timeout, shows) == Layer("plain", 0, "", timeout, shows)

\* The counters of BackendConnectionErrors that move.
ErrorNames == {"4xx", "5xx", "timeout", "unknownHost", "other"}

\* errors.As from layer i on: the first layer of the kind, if there is one.
As(err, i, kind) ==
  {j \in i .. Len(err) : err[j].kind = kind /\ \A k \in i .. j - 1 : err[k].kind # kind}

\* strings.Contains(err.Error(), ...) for the error from layer i on.
Marked(err, i) ==
  \E j \in i .. Len(err) : err[j].timeout /\ \A k \in i .. j - 1 : err[k].shows

\* The text has a marker, or what the first OperationError wraps is a timeout;
\* past the last layer the error is nil.
IsTimeoutError(err) ==
  LET from[i \in 1 .. Len(err) + 1] ==
        \/ Marked(err, i)
        \/ \E j \in As(err, i, "operation") : from[j + 1]
  IN  from[1]

StatusCounter(status) ==
  CASE status \in 500 .. 599 -> "5xx"
    [] status \in 400 .. 499 -> "4xx"
    [] OTHER                 -> "other"

\* The counters that move: one, or none for an OperationError that wraps no
\* ResponseError directly and for an APIError of another code.
EvaluateConnectionError(err) ==
  IF As(err, 1, "operation") # {}
    THEN {StatusCounter(err[j + 1].status) :
            j \in {i \in As(err, 1, "operation") :
                     IF i < Len(err) THEN err[i + 1].kind = "response" ELSE FALSE}}
  ELSE IF IsTimeoutError(err) THEN {"timeout"}
  ELSE IF As(err, 1, "api") = {} THEN {"other"}
  ELSE {"unknownHost" : j \in {i \in As(err, 1, "api") : err[i].code = "RequestError"}}
=============================================================================
