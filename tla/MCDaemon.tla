------------------------------- MODULE MCDaemon -------------------------------
(***************************************************************************)
(* Daemon for TLC: the sets its configurations use, and the properties of  *)
(* single segments and of the end of the process.                          *)
(***************************************************************************)
EXTENDS Daemon, SequencesExt

\* Datagrams are numbered in the order of their arrival.
Datagrams == 1 .. MaxDatagrams

\* A response without unprocessed segments, and one where the nil id of the
\* first hides the second from the counter.
SomeResponses == {<< >>, <<"nil", "id">>}

NoneUnprocessed == {<< >>}

Symmetry == Permutations(Sender) \cup Permutations(Worker)

\* A segment on its way to the service.
OnItsWay(p) ==
  \/ \E r \in Sender : sendAt[r] # "idle" /\ sendSeg[r].Raw = p
  \/ \E i \in DOMAIN c : c[i].Raw = p
  \/ \E i \in DOMAIN batch : batch[i].Raw = p
  \/ \E i \in DOMAIN batches : p \in Range(batches[i])
  \/ \E w \in Worker : p \in Range(inflight[w])

\* "Signal routines to finish.  This will push telemetry and customer segments":
\* close() reaches d.std.Close() when every receiver is done, so the segments
\* read before are pushed, and none is left on its way when the process ends.
PushedAtClose == ~Running => \A p \in Datagrams : ~OnItsWay(p)

\* No segment waits for ever: a partial batch is sent when the idle timer fires
\* even if no other segment arrives, a full queue makes room by truncation, and
\* the Send and send loops end.
SegmentLeaves ==
  \A p \in Datagrams : OnItsWay(p) ~> (~OnItsWay(p) \/ ~Running)

\* Once the socket is closed the process ends: every receiver leaves its read
\* and reports, the processor drains what is queued, and no goroutine of the
\* chain main -> processor -> workers, main -> telemetry waits for another that
\* waits for it.
ShutdownCompletes == ~sockOpen ~> ~Running

=============================================================================
