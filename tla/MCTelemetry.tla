----------------------------- MODULE MCTelemetry -----------------------------
\* Telemetry for TLC: the errors of calls.
EXTENDS Telemetry

\* The service answers 503; the call times out before there is an operation.
SomeErrors == {<<Operation, Response(503)>>, <<Plain(TRUE, FALSE)>>}

OneError == {<<Operation, Response(503)>>}
=============================================================================
