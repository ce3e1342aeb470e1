------------------------------ MODULE Telemetry ------------------------------
(***************************************************************************)
(* The telemetry records of the daemon (src/pkg/telemetry/telemetry.go).   *)
(* Goroutines of the pipeline count into the current record; pushData      *)
(* replaces it once per minute, and at Quit, queues the old one in         *)
(* recordChan and uploads everything queued in requests of requestSize.    *)
(* What a failed request leaves unsent is queued again.                    *)
(*                                                                         *)
(* Records are numbered in the order they become current, and cnt[n] are   *)
(* the counters of record n.  A queued record is a copy, but a copy of     *)
(* pointers: it shares its counters with the record that recorders may     *)
(* still hold.                                                             *)
(*                                                                         *)
(* A recorder loads t.currentRecord, adds to one of its counters, and,     *)
(* after a received segment, sets postTelemetry; at[p] is where it is:     *)
(* "idle", "add" (with the record held[p]), "post".                        *)
(* pc is where pushData is:                                                *)
(*   "select"   waiting for the timer or Quit                              *)
(*   "add"      the record is replaced; about to test postTelemetry        *)
(*   "send"     records are still to be sent                               *)
(*   "call"     in PutTelemetryRecords                                     *)
(*   "requeue"  the request failed; records are to be queued again         *)
(*   "done"     recordChan is closed; about to send on T.Done              *)
(*   "exit"     returned                                                   *)
(* recordChan is used by pushData alone, so what it does with the channel  *)
(* between two of these places is one step.                                *)
(***************************************************************************)
EXTENDS ConnectionErrors, FiniteSets

CONSTANTS Recorder,     \* goroutines that count
          Later,        \* counters that move for a segment received before
          Errors,       \* the errors PutTelemetryRecords may answer
          bufferSize, requestSize,
          MaxPushes,    \* bound: times the timer fires
          MaxCounts,    \* bound: calls of counting methods
          MaxLost       \* bound: lost answers about a record

ASSUME bufferSizeAssumption == bufferSize \in Nat \ {0}
ASSUME requestSizeAssumption == requestSize \in Nat \ {0}
ASSUME BoundsAssumption == MaxPushes \in Nat /\ MaxCounts \in Nat /\ MaxLost \in Nat

Names == {"received", "sent", "spillover", "rejected"} \cup ErrorNames

ASSUME ErrorsAssumption == \A err \in Errors : err # << >>
ASSUME LaterAssumption == Later \subseteq Names \ {"received"}

VARIABLES currentRecord, cnt, postTelemetry, recordChan,
          at, held, name,                 \* the recorders
          pc, quit, records, snapshot,    \* pushData; records[i:] is records
          counted, skipped,    \* what has happened here
          delivered,           \* records of acknowledged requests
          reported,            \* what the service was told of a record
          lost                 \* processed requests whose answer was lost

recorderVars == <<at, held, name, counted>>
pushVars == <<pc, quit, records, snapshot, recordChan>>
vars == <<currentRecord, cnt, postTelemetry, recordChan, at, held, name, pc, quit,
          records, snapshot, counted, reported, delivered, skipped, lost>>

\* The timer's records, the one of Quit, and the one that is current after it.
Record == 1 .. MaxPushes + 2

getEmptyTelemetryRecord == [k \in Names |-> 0]

\* No count in any record.
Nothing == [n \in Record |-> getEmptyTelemetryRecord]

newT ==
  /\ currentRecord = 1
  /\ cnt = Nothing
  /\ postTelemetry = FALSE
  /\ recordChan = << >>
  /\ at = [p \in Recorder |-> "idle"]
  /\ held = [p \in Recorder |-> 0]
  /\ name = [p \in Recorder |-> "received"]
  /\ pc = "select"
  /\ quit = FALSE
  /\ records = << >>
  /\ snapshot = Nothing
  /\ counted = getEmptyTelemetryRecord
  /\ reported = Nothing
  /\ delivered = << >>
  /\ skipped = {}
  /\ lost = [n \in Record |-> 0]

-----------------------------------------------------------------------------
(* SegmentReceived, SegmentSent, ..., ConnectionOther, called by the        *)
(* pipeline                                                                 *)

\* How often counter k was or is being counted.
Count(k) == counted[k] + Cardinality({p \in Recorder : at[p] = "add" /\ name[p] = k})

\* SegmentReceived calls that have returned.
ReceivedReturned ==
  counted["received"] - Cardinality({p \in Recorder : at[p] = "post"})

Begin(p, k) ==
  /\ at[p] = "idle"
  /\ at' = [at EXCEPT ![p] = "add"]
  /\ held' = [held EXCEPT ![p] = currentRecord]
  /\ name' = [name EXCEPT ![p] = k]
  /\ UNCHANGED <<currentRecord, cnt, postTelemetry, counted, pushVars,
                 reported, delivered, skipped, lost>>

\* The load of t.currentRecord, after Quit too: an echo in close() lets a
\* receiver go on.  A segment is sent, spilled or rejected after the call that
\* counted it as received.
BeginReceived(p) == Count("received") < MaxCounts /\ Begin(p, "received")

BeginLater(p) ==
  \E k \in Later : Count(k) < ReceivedReturned /\ Begin(p, k)

\* atomic.AddInt32 on the record that was loaded.
AddCount(p) ==
  /\ at[p] = "add"
  /\ cnt' = [cnt EXCEPT ![held[p]][name[p]] = @ + 1]
  /\ counted' = [counted EXCEPT ![name[p]] = @ + 1]
  /\ at' = [at EXCEPT ![p] = IF name[p] = "received" THEN "post" ELSE "idle"]
  /\ UNCHANGED <<currentRecord, postTelemetry, held, name, pushVars,
                 reported, delivered, skipped, lost>>

\* t.postTelemetry = true, which is never reset.
SetPost(p) ==
  /\ at[p] = "post"
  /\ postTelemetry' = TRUE
  /\ at' = [at EXCEPT ![p] = "idle"]
  /\ UNCHANGED <<currentRecord, cnt, held, name, counted, pushVars,
                 reported, delivered, skipped, lost>>

RecorderStep(p) == BeginReceived(p) \/ BeginLater(p) \/ AddCount(p) \/ SetPost(p)

-----------------------------------------------------------------------------
(* pushData *)

\* Mutant of add: a full channel drops the new record.
addDropsNewest(q, n) ==
  IF ~postTelemetry THEN q
  ELSE IF Len(q) < bufferSize THEN Append(q, n) ELSE q

\* A record is queued once a segment was received; a full channel first drops
\* its oldest record.
add(q, n) ==
  IF ~postTelemetry THEN q
  ELSE IF Len(q) < bufferSize THEN Append(q, n) ELSE Append(Tail(q), n)

\* Everything in the channel, up to bufferSize records.
collectAllRecords(q) == SubSeq(q, 1, IF Len(q) < bufferSize THEN Len(q) ELSE bufferSize)

\* Mutant of AfterSendAll: the loop is not left at Quit.
AfterSendAllGoesOn == "select"

\* After sendAll: the next round, or close(t.recordChan).
AfterSendAll == IF quit THEN "done" ELSE "select"

\* The rotation: an empty record becomes current.
Rotate(q) ==
  /\ pc = "select"
  /\ quit' = q
  /\ currentRecord' = currentRecord + 1
  /\ pc' = "add"
  /\ UNCHANGED <<cnt, postTelemetry, recordChan, recorderVars, records, snapshot,
                 reported, delivered, skipped, lost>>

TimerFires == currentRecord <= MaxPushes /\ Rotate(FALSE)

\* close() sends Quit once; recorders may be anywhere.
QuitReceived == currentRecord <= MaxPushes + 1 /\ Rotate(TRUE)

\* t.add of the old record, and the head of sendAll up to the first request.
AddRecord ==
  /\ pc = "add"
  /\ records' = collectAllRecords(add(recordChan, currentRecord - 1))
  /\ recordChan' = << >>
  /\ skipped' = IF postTelemetry THEN skipped ELSE skipped \cup {currentRecord - 1}
  /\ pc' = IF records' = << >> THEN AfterSendAll ELSE "send"
  /\ UNCHANGED <<currentRecord, cnt, postTelemetry, recorderVars, quit, snapshot,
                 reported, delivered, lost>>

\* The records of the request, records[i:endIndex].
RequestLen == IF Len(records) > requestSize THEN requestSize ELSE Len(records)

recordsToSend == SubSeq(records, 1, RequestLen)

Ran(s) == {s[i] : i \in DOMAIN s}

\* The request is written from the counters as they are now.
PutTelemetryRecords ==
  /\ pc = "send"
  /\ snapshot' = [n \in Record |-> IF n \in Ran(recordsToSend) THEN cnt[n]
                                    ELSE getEmptyTelemetryRecord]
  /\ pc' = "call"
  /\ UNCHANGED <<currentRecord, cnt, postTelemetry, recordChan, recorderVars, quit,
                 records, reported, delivered, skipped, lost>>

\* What the service has been told of each record once it processed the request.
Told == [n \in Record |-> [k \in Names |-> reported[n][k] + snapshot[n][k]]]

\* The service processes the request and its answer is lost: the call goes on,
\* with another attempt of the client that sends the same body, or fails.
AnswerLost ==
  /\ pc = "call"
  /\ \A n \in Ran(recordsToSend) : lost[n] < MaxLost
  /\ reported' = Told
  /\ lost' = [n \in Record |-> lost[n] + IF n \in Ran(recordsToSend) THEN 1 ELSE 0]
  /\ UNCHANGED <<currentRecord, cnt, postTelemetry, recordChan, recorderVars, pc, quit,
                 records, snapshot, delivered, skipped>>

\* Mutant of PutSuccess: i is not advanced after a request.
PutSuccessRepeats ==
  /\ pc = "call"
  /\ delivered' = delivered \o recordsToSend
  /\ reported' = Told
  /\ pc' = "send"
  /\ snapshot' = Nothing
  /\ UNCHANGED <<currentRecord, cnt, postTelemetry, recordChan, recorderVars, quit,
                 records, skipped, lost>>

\* The request succeeded; the next one, if records are left.
PutSuccess ==
  /\ pc = "call"
  /\ delivered' = delivered \o recordsToSend
  /\ reported' = Told
  /\ records' = SubSeq(records, RequestLen + 1, Len(records))
  /\ pc' = IF records' = << >> THEN AfterSendAll ELSE "send"
  /\ snapshot' = Nothing
  /\ UNCHANGED <<currentRecord, cnt, postTelemetry, recordChan, recorderVars, quit,
                 skipped, lost>>

\* Mutant of PutError: the next request is tried, and the failed one is lost.
PutErrorGoesOn(err) ==
  /\ pc = "call"
  /\ cnt' = [cnt EXCEPT ![currentRecord] =
       [k \in Names |-> @[k] + IF k \in EvaluateConnectionError(err) THEN 1 ELSE 0]]
  /\ records' = SubSeq(records, RequestLen + 1, Len(records))
  /\ pc' = IF records' = << >> THEN AfterSendAll ELSE "send"
  /\ snapshot' = Nothing
  /\ UNCHANGED <<currentRecord, postTelemetry, recordChan, recorderVars, quit,
                 reported, delivered, skipped, lost>>

\* The call failed, whether or not the service processed it: the error is
\* counted in the new current record, and records[i:] are left to be queued
\* again.
PutError(err) ==
  /\ pc = "call"
  /\ cnt' = [cnt EXCEPT ![currentRecord] =
       [k \in Names |-> @[k] + IF k \in EvaluateConnectionError(err) THEN 1 ELSE 0]]
  /\ pc' = "requeue"
  /\ snapshot' = Nothing
  /\ UNCHANGED <<currentRecord, postTelemetry, recordChan, recorderVars, quit, records,
                 reported, delivered, skipped, lost>>

\* One round of the loop over recordsNoSend.
Requeue ==
  /\ pc = "requeue"
  /\ recordChan' = add(recordChan, Head(records))
  /\ records' = Tail(records)
  /\ pc' = IF records' = << >> THEN AfterSendAll ELSE "requeue"
  /\ UNCHANGED <<currentRecord, cnt, postTelemetry, recorderVars, quit, snapshot,
                 reported, delivered, skipped, lost>>

\* t.Done <- true: close() receives it.
TelemetryDone ==
  /\ pc = "done"
  /\ pc' = "exit"
  /\ UNCHANGED <<currentRecord, cnt, postTelemetry, recordChan, recorderVars, quit, records,
                 snapshot, reported, delivered, skipped, lost>>

pushDataStep ==
  \/ AddRecord
  \/ PutTelemetryRecords
  \/ PutSuccess
  \/ \E err \in Errors : PutError(err)
  \/ Requeue
  \/ TelemetryDone

\* The process ends when close() has the answer.
Exited == pc = "exit" /\ UNCHANGED vars

TelemetryNext ==
  \/ pc # "exit" /\ \E p \in Recorder : RecorderStep(p)
  \/ TimerFires
  \/ QuitReceived
  \/ pushDataStep
  \/ AnswerLost
  \/ Exited

TelemetrySpec == newT /\ [][TelemetryNext]_vars

\* PutTelemetryRecords returns, since the HTTP client has a timeout, and a
\* goroutine that can go on does.
TelemetryFairSpec == TelemetrySpec /\ WF_vars(pushDataStep)

-----------------------------------------------------------------------------
(* Properties *)

\* The records that were taken out of service and are still to be sent, in the
\* order in which they will be.
Pending ==
  recordChan \o records \o (IF pc = "add" THEN <<currentRecord - 1>> ELSE << >>)

\* However requests fail, the records still to be sent are the newest ones, in
\* order and without a gap, never more than bufferSize in a request round; and
\* the service acknowledges the records in that order, none twice.
PendingInOrder ==
  LET sent == Len(delivered) IN
  /\ pc # "add" => Len(Pending) <= bufferSize
  /\ \A i \in 1 .. Len(Pending) - 1 : Pending[i + 1] = Pending[i] + 1
  /\ Pending # << >> => Pending[Len(Pending)] = currentRecord - 1
  /\ \A i \in 1 .. sent - 1 : delivered[i] < delivered[i + 1]
  /\ sent > 0 /\ Pending # << >> => delivered[sent] < Pending[1]

\* A count is reported once, and once more for every lost answer, although
\* queued records share their counters with the record recorders still add to:
\* without a lost answer the service is told of no record more than it counts,
\* and a request that is queued and sent again repeats nothing else.
ReportedOnce ==
  \A n \in Record, k \in Names : reported[n][k] <= (1 + lost[n]) * cnt[n][k]

\* A record leaves the queue acknowledged, or unused, or, oldest first, because a
\* newer one finds the channel full.  In particular a failed request loses
\* none, and queueing its records again pushes none out: sendAll has emptied
\* the channel, and no record is added meanwhile.
LostOnlyByTruncation ==
  [][\A n \in Ran(Pending) \ Ran(Pending') :
       \/ n \in Ran(delivered')
       \/ n \in skipped'
       \/ pc = "add" /\ Len(recordChan) = bufferSize /\ n = Head(recordChan)]_vars

\* pushData answers Quit: however many records are queued and however requests
\* end, T.Done is sent, which close() waits for.
QuitAnswered == quit ~> pc = "exit"

\* Where the goroutine is in the cycle that Daemon knows it by.
place == IF pc \in {"select", "done", "exit"} THEN pc
         ELSE IF quit THEN "lastpush" ELSE "push"

Cycle == INSTANCE PushCycle WITH tpc <- place

\* The telemetry goroutine is what close() takes it for: each push ends,
\* whatever becomes of its requests, only Quit leads to the last one, and Done
\* comes after that push and once.
PushCycleImplemented == Cycle!FairSpec

\* "Only send telemetry data when we receive any segment or else skip any
\* telemetry data": a record that counted a received segment is not skipped.
SkippedUnused == \A n \in skipped : cnt[n]["received"] = 0
=============================================================================
