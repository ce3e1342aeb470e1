-------------------------- MODULE MCConnectionErrors --------------------------
(***************************************************************************)
(* ConnectionErrors over every error of up to MaxLayers layers: a call     *)
(* fails with one of them and its counters move.                           *)
(***************************************************************************)
EXTENDS ConnectionErrors

CONSTANT MaxLayers  \* bound: layers of an error

VARIABLES err, counters, evaluated

Layers ==
  {Operation, Response(503), Response(404), Response(301), Api("RequestError"), Api("another")}
    \cup {Plain(timeout, shows) : timeout \in BOOLEAN, shows \in BOOLEAN}

\* Only the last layer can be one that wraps nothing.
SomeErrors ==
  {e \in UNION {[1 .. n -> Layers] : n \in 1 .. MaxLayers} :
     \A i \in 1 .. Len(e) - 1 : e[i].kind # "api"}

Init == err \in SomeErrors /\ counters = {} /\ evaluated = FALSE

Evaluate ==
  /\ ~evaluated
  /\ counters' = EvaluateConnectionError(err)
  /\ evaluated' = TRUE
  /\ UNCHANGED err

Next == Evaluate \/ (evaluated /\ UNCHANGED <<err, counters, evaluated>>)

Spec == Init /\ [][Next]_<<err, counters, evaluated>>

\* "IsTimeoutError checks whether error is timeout error", in an
\* OperationError too, and "ConnectionTimeout increments TimeoutCount": a
\* timeout without a response moves the timeout counter.
TimeoutCounted ==
  evaluated /\ IsTimeoutError(err) /\ (\A i \in DOMAIN err : err[i].kind # "response")
    => counters = {"timeout"}
=============================================================================
