--------------------------- MODULE TelemetryProofs ---------------------------
(***************************************************************************)
(* Proofs about Telemetry, for every size of recordChan and of a request,  *)
(* any number of recorders and pushes, and every sequence of errors.  The  *)
(* invariant is that what pushData holds, in recordChan, in records and,   *)
(* right after the rotation, in its hand, is a run of consecutive records  *)
(* that ends with the one taken out of service last.                       *)
(***************************************************************************)
EXTENDS Telemetry, SequenceTheorems, TLAPS

\* Consecutive records up to e.
Run(s, e) == s \in Seq(Int) /\ \A k \in 1 .. Len(s) : s[k] = e - Len(s) + k

TypeOK ==
  /\ currentRecord \in Nat
  /\ pc \in {"select", "add", "send", "call", "requeue", "done", "exit"}

QueueInv ==
  /\ pc \in {"select", "done", "exit"} =>
       records = << >> /\ Run(recordChan, currentRecord - 1) /\ Len(recordChan) <= bufferSize
  /\ pc = "add" =>
       records = << >> /\ Run(recordChan, currentRecord - 2) /\ Len(recordChan) <= bufferSize
  /\ pc \in {"send", "call"} =>
       /\ recordChan = << >>
       /\ records # << >> /\ Run(records, currentRecord - 1) /\ Len(records) <= bufferSize
  /\ pc = "requeue" =>
       /\ records # << >> /\ Run(records, currentRecord - 1)
       /\ Run(recordChan, currentRecord - 1 - Len(records))
       /\ Len(recordChan) + Len(records) <= bufferSize

\* A record is queued only after a segment was received.
PostInv == recordChan # << >> \/ records # << >> => postTelemetry

\* The number of records that pushData holds, and the oldest of them.
Holding == Len(recordChan) + Len(records) + (IF pc = "add" THEN 1 ELSE 0)
Oldest == currentRecord - Holding

Ascending(s) == \A k \in 1 .. Len(s) - 1 : s[k] < s[k + 1]

DeliveredInv ==
  /\ delivered \in Seq(Int)
  /\ Ascending(delivered)
  /\ Len(delivered) > 0 => delivered[Len(delivered)] < Oldest

TelemetryInv == TypeOK /\ QueueInv /\ PostInv /\ DeliveredInv

-----------------------------------------------------------------------------
(* Runs *)

\* The next record behind a run.
LEMMA RunAppend ==
  ASSUME NEW s, NEW e \in Int, Run(s, e)
  PROVE  Run(Append(s, e + 1), e + 1) /\ Len(Append(s, e + 1)) = Len(s) + 1
<1>1. s \in Seq(Int) /\ Len(s) \in Nat
  BY DEF Run
<1>2. /\ Append(s, e + 1) \in Seq(Int) /\ Len(Append(s, e + 1)) = Len(s) + 1
      /\ \A k \in 1 .. Len(s) : Append(s, e + 1)[k] = s[k]
      /\ Append(s, e + 1)[Len(s) + 1] = e + 1
  BY <1>1
<1>3. ASSUME NEW k \in 1 .. Len(s) + 1 PROVE Append(s, e + 1)[k] = (e + 1) - (Len(s) + 1) + k
  <2>1. CASE k = Len(s) + 1
    BY <1>1, <1>2, <2>1
  <2>2. CASE k \in 1 .. Len(s)
    BY <1>1, <1>2, <2>2 DEF Run
  <2>. QED
    BY <1>1, <2>1, <2>2
<1>. QED
  BY <1>2, <1>3 DEF Run

\* A run without its first record.
LEMMA RunTail ==
  ASSUME NEW s, NEW e \in Int, Run(s, e), s # << >>
  PROVE  /\ Run(Tail(s), e) /\ Len(Tail(s)) = Len(s) - 1
         /\ Head(s) = e - Len(s) + 1
         /\ Len(s) \in Nat \ {0}
<1>1. s \in Seq(Int) /\ Len(s) \in Nat \ {0}
  BY DEF Run
<1>2. /\ Tail(s) \in Seq(Int) /\ Len(Tail(s)) = Len(s) - 1 /\ Head(s) = s[1]
      /\ \A k \in 1 .. Len(s) - 1 : Tail(s)[k] = s[k + 1]
  BY <1>1
<1>3. ASSUME NEW k \in 1 .. Len(s) - 1 PROVE Tail(s)[k] = e - (Len(s) - 1) + k
  <2>1. k + 1 \in 1 .. Len(s)
    BY <1>1
  <2>2. s[k + 1] = e - Len(s) + (k + 1)
    BY <2>1 DEF Run
  <2>. QED
    BY <1>1, <1>2, <2>2
<1>4. Head(s) = e - Len(s) + 1
  BY <1>1, <1>2 DEF Run
<1>. QED
  BY <1>1, <1>2, <1>3, <1>4 DEF Run

\* The first n records of a run, and the others.
LEMMA RunSplit ==
  ASSUME NEW s, NEW e \in Int, Run(s, e), NEW n \in 0 .. Len(s)
  PROVE  /\ SubSeq(s, 1, n) \in Seq(Int) /\ Len(SubSeq(s, 1, n)) = n
         /\ \A k \in 1 .. n : SubSeq(s, 1, n)[k] = e - Len(s) + k
         /\ Run(SubSeq(s, n + 1, Len(s)), e) /\ Len(SubSeq(s, n + 1, Len(s))) = Len(s) - n
<1>1. s \in Seq(Int) /\ Len(s) \in Nat /\ n \in Nat /\ n <= Len(s)
  BY DEF Run
<1>2. /\ SubSeq(s, 1, n) \in Seq(Int) /\ Len(SubSeq(s, 1, n)) = n
      /\ \A k \in 1 .. n : SubSeq(s, 1, n)[k] = s[k]
  BY <1>1
<1>3. \A k \in 1 .. n : SubSeq(s, 1, n)[k] = e - Len(s) + k
  BY <1>1, <1>2 DEF Run
<1>. DEFINE t == SubSeq(s, n + 1, Len(s))
<1>4. /\ t \in Seq(Int) /\ Len(t) = Len(s) - n
      /\ \A k \in 1 .. Len(s) - n : t[k] = s[n + k]
  BY <1>1
<1>5. ASSUME NEW k \in 1 .. Len(s) - n PROVE t[k] = e - (Len(s) - n) + k
  <2>1. n + k \in 1 .. Len(s)
    BY <1>1
  <2>2. s[n + k] = e - Len(s) + (n + k)
    BY <2>1 DEF Run
  <2>. QED
    BY <1>1, <1>4, <2>2
<1>. QED
  BY <1>2, <1>3, <1>4, <1>5 DEF Run

\* Two runs, the second of which goes on where the first ends.
LEMMA RunConcat ==
  ASSUME NEW s, NEW t, NEW e \in Int, Run(t, e), Run(s, e - Len(t))
  PROVE  Run(s \o t, e) /\ Len(s \o t) = Len(s) + Len(t)
<1>1. s \in Seq(Int) /\ t \in Seq(Int) /\ Len(s) \in Nat /\ Len(t) \in Nat
  BY DEF Run
<1>2. /\ s \o t \in Seq(Int) /\ Len(s \o t) = Len(s) + Len(t)
      /\ \A k \in 1 .. Len(s) + Len(t) :
           (s \o t)[k] = IF k <= Len(s) THEN s[k] ELSE t[k - Len(s)]
  BY <1>1, ConcatProperties
<1>3. ASSUME NEW k \in 1 .. Len(s) + Len(t) PROVE (s \o t)[k] = e - (Len(s) + Len(t)) + k
  <2>1. CASE k <= Len(s)
    <3>1. s[k] = (e - Len(t)) - Len(s) + k
      BY <1>1, <2>1 DEF Run
    <3>. QED
      BY <1>1, <1>2, <2>1, <3>1
  <2>2. CASE ~(k <= Len(s))
    <3>1. k - Len(s) \in 1 .. Len(t)
      BY <1>1, <2>2
    <3>2. t[k - Len(s)] = e - Len(t) + (k - Len(s))
      BY <3>1 DEF Run
    <3>. QED
      BY <1>1, <1>2, <2>2, <3>2
  <2>. QED
    BY <2>1, <2>2
<1>. QED
  BY <1>2, <1>3 DEF Run

\* The records in a run.
LEMMA RunRange ==
  ASSUME NEW s, NEW e \in Int, Run(s, e)
  PROVE  Ran(s) = e - Len(s) + 1 .. e
<1>1. s \in Seq(Int) /\ Len(s) \in Nat /\ DOMAIN s = 1 .. Len(s)
  BY DEF Run
<1>2. ASSUME NEW n \in Ran(s) PROVE n \in e - Len(s) + 1 .. e
  <2>1. PICK k \in 1 .. Len(s) : n = s[k]
    BY <1>1 DEF Ran
  <2>. QED
    BY <1>1, <2>1 DEF Run
<1>3. ASSUME NEW n \in e - Len(s) + 1 .. e PROVE n \in Ran(s)
  <2>1. n - e + Len(s) \in 1 .. Len(s)
    BY <1>1
  <2>2. s[n - e + Len(s)] = e - Len(s) + (n - e + Len(s))
    BY <2>1 DEF Run
  <2>3. s[n - e + Len(s)] = n
    BY <1>1, <2>2
  <2>. QED
    BY <1>1, <2>1, <2>3 DEF Ran
<1>. QED
  BY <1>2, <1>3

\* An empty run, and one of one record.
LEMMA SmallRuns ==
  ASSUME NEW e \in Int
  PROVE  /\ Run(<< >>, e) /\ Len(<< >>) = 0
         /\ Run(<<e>>, e) /\ Len(<<e>>) = 1
<1>1. << >> \in Seq(Int) /\ Len(<< >>) = 0 /\ <<e>> \in Seq(Int) /\ Len(<<e>>) = 1 /\ <<e>>[1] = e
  OBVIOUS
<1>. QED
  BY <1>1 DEF Run

\* What pushData holds is one run.
LEMMA PendingRun ==
  ASSUME TypeOK, QueueInv
  PROVE  /\ Run(Pending, currentRecord - 1)
         /\ Len(Pending) = Holding
         /\ Holding \in Nat
<1>. DEFINE e == currentRecord - 1
            hand == IF pc = "add" THEN <<currentRecord - 1>> ELSE << >>
<1>1. e \in Int /\ e - 1 = currentRecord - 2
  BY DEF TypeOK
<1>2. Run(hand, e) /\ Len(hand) = IF pc = "add" THEN 1 ELSE 0
  BY <1>1, SmallRuns
<1>3. Run(records, e - Len(hand)) /\ Run(recordChan, e - Len(hand) - Len(records))
  <2>1. CASE pc \in {"select", "done", "exit"}
    <3>1. Len(hand) = 0 /\ Len(records) = 0 /\ e - 0 = e /\ e - 0 - 0 = e
      BY <1>1, <1>2, <2>1 DEF QueueInv
    <3>. QED
      BY <1>1, <2>1, <3>1, SmallRuns DEF QueueInv
  <2>2. CASE pc = "add"
    <3>1. Len(hand) = 1 /\ Len(records) = 0 /\ e - 1 - 0 = currentRecord - 2 /\ e - 1 \in Int
      BY <1>1, <1>2, <2>2 DEF QueueInv, TypeOK
    <3>. QED
      BY <2>2, <3>1, SmallRuns DEF QueueInv
  <2>3. CASE pc \in {"send", "call"}
    <3>1. Len(hand) = 0 /\ recordChan = << >> /\ Run(records, e) /\ Len(records) \in Nat
      BY <1>2, <2>3 DEF QueueInv, Run
    <3>2. e - 0 = e /\ e - 0 - Len(records) \in Int
      BY <1>1, <3>1
    <3>. QED
      BY <3>1, <3>2, SmallRuns
  <2>4. CASE pc = "requeue"
    <3>1. Len(hand) = 0 /\ e - 0 = e
      BY <1>1, <1>2, <2>4
    <3>. QED
      BY <2>4, <3>1 DEF QueueInv
  <2>. QED
    BY <2>1, <2>2, <2>3, <2>4 DEF TypeOK
<1>. HIDE DEF e, hand
<1>4. Len(hand) \in Nat /\ e - Len(hand) \in Int
  BY <1>1, <1>2 DEF Run
<1>5. /\ Run(recordChan \o records, e - Len(hand))
      /\ Len(recordChan \o records) = Len(recordChan) + Len(records)
  BY <1>3, <1>4, RunConcat
<1>6. /\ Run((recordChan \o records) \o hand, e)
      /\ Len((recordChan \o records) \o hand) = Len(recordChan \o records) + Len(hand)
  BY <1>1, <1>2, <1>5, RunConcat
<1>7. Pending = (recordChan \o records) \o hand
  BY DEF Pending, hand
<1>8. Len(Pending) = Holding
  BY <1>2, <1>5, <1>6, <1>7 DEF Holding
<1>9. Len(Pending) \in Nat
  BY <1>6, <1>7 DEF Run
<1>. QED
  BY <1>6, <1>7, <1>8, <1>9 DEF e

-----------------------------------------------------------------------------
(* The steps *)

\* A step of a recorder as pushData sees it: at most postTelemetry is set.
Recorded ==
  /\ UNCHANGED <<currentRecord, pc, quit, records, recordChan, delivered, skipped>>
  /\ postTelemetry' = postTelemetry \/ postTelemetry' = TRUE

\* Each step of a recorder is one.
LEMMA RecorderRecorded == ASSUME NEW p \in Recorder, RecorderStep(p) PROVE Recorded
BY DEF RecorderStep, BeginReceived, BeginLater, Begin, AddCount, SetPost, Recorded, pushVars

\* So is, for pushData, a lost answer.
LEMMA LostRecorded == ASSUME AnswerLost PROVE Recorded
BY DEF AnswerLost, Recorded

\* It does not disturb what pushData holds.
LEMMA RecordedInv == ASSUME TelemetryInv, Recorded PROVE TelemetryInv'
<1>1. UNCHANGED <<currentRecord, pc, records, recordChan, delivered>>
  BY DEF Recorded
<1>2. TypeOK' /\ QueueInv'
  BY <1>1 DEF TelemetryInv, TypeOK, QueueInv
<1>3. PostInv'
  BY <1>1 DEF TelemetryInv, PostInv, Recorded
<1>4. DeliveredInv'
  BY <1>1 DEF TelemetryInv, DeliveredInv, Oldest, Holding
<1>. QED
  BY <1>2, <1>3, <1>4 DEF TelemetryInv

\* The record that was current is in pushData's hand.
LEMMA RotateInv ==
  ASSUME TelemetryInv, NEW q, Rotate(q)
  PROVE  TelemetryInv' /\ Holding' = Holding + 1 /\ Holding \in Nat
<1>1. /\ pc = "select" /\ pc' = "add" /\ currentRecord' = currentRecord + 1
      /\ UNCHANGED <<postTelemetry, recordChan, records, delivered>>
  BY DEF Rotate
<1>2. currentRecord \in Nat /\ Holding \in Nat
  BY PendingRun DEF TelemetryInv, TypeOK
<1>3. Holding' = Holding + 1
  <2>1. Holding = Len(recordChan) + Len(records) + 0 /\ Holding' = Len(recordChan) + Len(records) + 1
    BY <1>1 DEF Holding
  <2>2. Len(recordChan) \in Nat /\ Len(records) \in Nat
    BY <1>1 DEF TelemetryInv, QueueInv, Run
  <2>. QED
    BY <2>1, <2>2
<1>4. QueueInv'
  <2>1. currentRecord' - 2 = currentRecord - 1
    BY <1>1, <1>2
  <2>. QED
    BY <1>1, <2>1 DEF TelemetryInv, QueueInv
<1>5. Oldest' = Oldest
  BY <1>1, <1>2, <1>3 DEF Oldest
<1>6. DeliveredInv'
  BY <1>1, <1>5 DEF TelemetryInv, DeliveredInv
<1>7. TypeOK' /\ PostInv'
  BY <1>1, <1>2 DEF TelemetryInv, TypeOK, PostInv
<1>. QED
  BY <1>2, <1>3, <1>4, <1>6, <1>7 DEF TelemetryInv

\* sendAll collects all of a channel.
LEMMA CollectAll ==
  ASSUME NEW q \in Seq(Int), Len(q) <= bufferSize
  PROVE  collectAllRecords(q) = q
<1>1. collectAllRecords(q) = SubSeq(q, 1, Len(q))
  BY bufferSizeAssumption DEF collectAllRecords
<1>2. SubSeq(q, 1, Len(q)) \in Seq(Int) /\ Len(SubSeq(q, 1, Len(q))) = Len(q)
  OBVIOUS
<1>3. \A k \in 1 .. Len(q) : SubSeq(q, 1, Len(q))[k] = q[k]
  OBVIOUS
<1>. QED
  BY <1>1, <1>2, <1>3, SeqEqual

\* What the record in hand makes of the channel.
LEMMA AddedRun ==
  ASSUME TelemetryInv, pc = "add", postTelemetry, NEW q, q = add(recordChan, currentRecord - 1)
  PROVE  /\ Run(q, currentRecord - 1) /\ q # << >>
         /\ Len(q) = IF Len(recordChan) < bufferSize THEN Len(recordChan) + 1 ELSE bufferSize
         /\ Len(q) <= bufferSize
         /\ Len(recordChan) \in 0 .. bufferSize
         /\ Len(recordChan) = bufferSize => Head(recordChan) = currentRecord - 1 - bufferSize
<1>. DEFINE e == currentRecord - 2
<1>1. e \in Int /\ e + 1 = currentRecord - 1 /\ bufferSize \in Nat \ {0}
  BY bufferSizeAssumption DEF TelemetryInv, TypeOK
<1>2. Run(recordChan, e) /\ Len(recordChan) <= bufferSize
  BY DEF TelemetryInv, QueueInv
<1>3. Len(recordChan) \in Nat
  BY <1>2 DEF Run
<1>. HIDE DEF e
<1>4. CASE Len(recordChan) < bufferSize
  <2>1. q = Append(recordChan, e + 1)
    BY <1>1, <1>4 DEF add
  <2>2. Run(q, e + 1) /\ Len(q) = Len(recordChan) + 1
    BY <1>1, <1>2, <2>1, RunAppend
  <2>3. q # << >> /\ Len(q) <= bufferSize /\ Len(recordChan) \in 0 .. bufferSize
    BY <1>1, <1>3, <1>4, <2>2
  <2>. QED
    BY <1>1, <1>4, <2>2, <2>3
<1>5. CASE ~(Len(recordChan) < bufferSize)
  <2>1. q = Append(Tail(recordChan), e + 1) /\ Len(recordChan) = bufferSize
    BY <1>1, <1>2, <1>3, <1>5 DEF add
  <2>2. recordChan # << >>
    BY <1>1, <2>1
  <2>3. /\ Run(Tail(recordChan), e) /\ Len(Tail(recordChan)) = bufferSize - 1
        /\ Head(recordChan) = e - bufferSize + 1
    BY <1>1, <1>2, <2>1, <2>2, RunTail
  <2>4. Run(q, e + 1) /\ Len(q) = (bufferSize - 1) + 1
    BY <1>1, <2>1, <2>3, RunAppend
  <2>5. q # << >> /\ Len(q) = bufferSize /\ Head(recordChan) = currentRecord - 1 - bufferSize
    BY <1>1, <2>3, <2>4
  <2>. QED
    BY <1>1, <1>5, <2>1, <2>4, <2>5
<1>. QED
  BY <1>4, <1>5

\* The record in hand is queued, and sendAll collects what is queued.
LEMMA AddRecordInv ==
  ASSUME TelemetryInv, AddRecord
  PROVE  /\ TelemetryInv'
         /\ Holding = Len(recordChan) + 1
         /\ postTelemetry => Holding' = IF Len(recordChan) < bufferSize THEN Len(recordChan) + 1
                                                                        ELSE bufferSize
         /\ ~postTelemetry => recordChan = << >>
<1>1. /\ pc = "add" /\ recordChan' = << >>
      /\ records' = collectAllRecords(add(recordChan, currentRecord - 1))
      /\ pc' = IF records' = << >> THEN AfterSendAll ELSE "send"
      /\ UNCHANGED <<currentRecord, postTelemetry, delivered>>
  BY DEF AddRecord
<1>2. currentRecord \in Nat /\ records = << >> /\ Len(recordChan) \in Nat
  BY <1>1 DEF TelemetryInv, TypeOK, QueueInv, Run
<1>3. Holding = Len(recordChan) + 1
  BY <1>1, <1>2 DEF Holding
<1>4. CASE ~postTelemetry
  <2>1. recordChan = << >>
    BY <1>4 DEF TelemetryInv, PostInv
  <2>2. records' = << >>
    <3>1. add(recordChan, currentRecord - 1) = << >>
      BY <1>4, <2>1 DEF add
    <3>2. << >> \in Seq(Int) /\ Len(<< >>) <= bufferSize
      BY bufferSizeAssumption
    <3>. QED
      BY <1>1, <3>1, <3>2, CollectAll
  <2>3. pc' \in {"select", "done"}
    BY <1>1, <2>2 DEF AfterSendAll
  <2>4. QueueInv'
    <3>1. currentRecord' - 1 \in Int
      BY <1>1, <1>2
    <3>2. Run(recordChan', currentRecord' - 1) /\ Len(recordChan') = 0
      BY <1>1, <3>1, SmallRuns
    <3>. QED
      BY <2>2, <2>3, <3>2, bufferSizeAssumption DEF QueueInv
  <2>5. Oldest' = currentRecord /\ Oldest = currentRecord - 1
    BY <1>1, <1>2, <1>3, <2>1, <2>2, <2>3 DEF Oldest, Holding
  <2>6. DeliveredInv'
    BY <1>1, <1>2, <2>5 DEF TelemetryInv, DeliveredInv
  <2>7. TypeOK' /\ PostInv'
    BY <1>1, <1>2, <2>2, <2>3 DEF TypeOK, PostInv
  <2>. QED
    BY <1>3, <1>4, <2>1, <2>4, <2>6, <2>7 DEF TelemetryInv
<1>5. CASE postTelemetry
  <2>. DEFINE q == add(recordChan, currentRecord - 1)
  <2>1. /\ Run(q, currentRecord - 1) /\ q # << >>
        /\ Len(q) = IF Len(recordChan) < bufferSize THEN Len(recordChan) + 1 ELSE bufferSize
        /\ Len(q) <= bufferSize
        /\ Len(recordChan) <= bufferSize
    BY <1>1, <1>5, AddedRun
  <2>. HIDE DEF q
  <2>2. records' = q
    <3>1. q \in Seq(Int)
      BY <2>1 DEF Run
    <3>. QED
      BY <1>1, <2>1, <3>1, CollectAll DEF q
  <2>3. pc' = "send"
    BY <1>1, <2>1, <2>2
  <2>4. QueueInv'
    BY <1>1, <2>1, <2>2, <2>3 DEF QueueInv
  <2>5. Holding' = Len(q) /\ Len(q) \in Nat
    <3>1. Holding' = 0 + Len(q) + 0
      BY <1>1, <2>2, <2>3 DEF Holding
    <3>2. Len(q) \in Nat
      BY <2>1 DEF Run
    <3>. QED
      BY <3>1, <3>2
  <2>6. Oldest' >= Oldest /\ Oldest \in Int /\ Oldest' \in Int
    BY <1>1, <1>2, <1>3, <2>1, <2>5, bufferSizeAssumption DEF Oldest
  <2>7. DeliveredInv'
    <3>1. Len(delivered) > 0 => delivered[Len(delivered)] \in Int
      BY DEF TelemetryInv, DeliveredInv
    <3>. QED
      BY <1>1, <2>6, <3>1 DEF TelemetryInv, DeliveredInv
  <2>8. TypeOK' /\ PostInv'
    BY <1>1, <1>2, <1>5, <2>3 DEF TypeOK, PostInv
  <2>. QED
    BY <1>3, <1>5, <2>1, <2>4, <2>5, <2>7, <2>8 DEF TelemetryInv
<1>. QED
  BY <1>4, <1>5

\* Steps that only move pushData's place.
LEMMA MoveInv ==
  ASSUME TelemetryInv, UNCHANGED <<currentRecord, postTelemetry, recordChan, records, delivered>>,
         \/ pc = "send" /\ pc' = "call"
         \/ pc = "call" /\ pc' = "requeue"
         \/ pc = "done" /\ pc' = "exit"
  PROVE  TelemetryInv' /\ Holding' = Holding
<1>1. TypeOK' /\ PostInv'
  BY DEF TelemetryInv, TypeOK, PostInv
<1>2. Holding' = Holding /\ Oldest' = Oldest
  BY DEF Holding, Oldest
<1>3. DeliveredInv'
  BY <1>2 DEF TelemetryInv, DeliveredInv
<1>4. QueueInv'
  <2>1. CASE pc = "call"
    <3>1. /\ recordChan = << >> /\ records # << >> /\ Run(records, currentRecord - 1)
          /\ Len(records) <= bufferSize /\ Len(records) \in Nat /\ currentRecord \in Nat
      BY <2>1 DEF TelemetryInv, TypeOK, QueueInv, Run
    <3>2. Run(recordChan, currentRecord - 1 - Len(records)) /\ Len(recordChan) = 0
      <4>1. currentRecord - 1 - Len(records) \in Int
        BY <3>1
      <4>. QED
        BY <3>1, <4>1, SmallRuns
    <3>3. Len(recordChan) + Len(records) <= bufferSize
      BY <3>1, <3>2
    <3>. QED
      BY <2>1, <3>1, <3>2, <3>3 DEF QueueInv
  <2>2. CASE pc = "send"
    BY <2>2 DEF TelemetryInv, QueueInv
  <2>3. CASE pc = "done"
    BY <2>3 DEF TelemetryInv, QueueInv
  <2>. QED
    BY <2>1, <2>2, <2>3
<1>. QED
  BY <1>1, <1>2, <1>3, <1>4 DEF TelemetryInv

\* A request takes at least one record, and no more than there are.
LEMMA RequestLenFacts ==
  ASSUME TelemetryInv, pc = "call"
  PROVE  /\ RequestLen \in 1 .. Len(records) /\ Len(records) \in Nat
         /\ Run(records, currentRecord - 1) /\ currentRecord \in Nat
<1>1. records # << >> /\ Run(records, currentRecord - 1) /\ currentRecord \in Nat
  BY DEF TelemetryInv, TypeOK, QueueInv
<1>2. Len(records) \in Nat \ {0}
  BY <1>1 DEF Run
<1>. QED
  BY <1>1, <1>2, requestSizeAssumption DEF RequestLen

\* The service has the records of the request.
LEMMA PutSuccessInv ==
  ASSUME TelemetryInv, PutSuccess
  PROVE  /\ TelemetryInv'
         /\ RequestLen \in 1 .. Holding /\ Holding \in Nat
         /\ Holding' = Holding - RequestLen
         /\ \A n \in Oldest .. Oldest + RequestLen - 1 : n \in Ran(delivered')
<1>. DEFINE m == RequestLen
            s == recordsToSend
            d == delivered
<1>1. /\ pc = "call"
      /\ delivered' = d \o s
      /\ records' = SubSeq(records, m + 1, Len(records))
      /\ pc' = IF records' = << >> THEN AfterSendAll ELSE "send"
      /\ UNCHANGED <<currentRecord, postTelemetry, recordChan>>
  BY DEF PutSuccess
<1>2. /\ m \in 1 .. Len(records) /\ Len(records) \in Nat
      /\ Run(records, currentRecord - 1) /\ currentRecord \in Nat
  BY <1>1, RequestLenFacts
<1>3. recordChan = << >> /\ Len(records) <= bufferSize
  BY <1>1 DEF TelemetryInv, QueueInv
<1>. HIDE DEF m
<1>4. /\ SubSeq(records, 1, m) \in Seq(Int) /\ Len(SubSeq(records, 1, m)) = m
      /\ \A k \in 1 .. m : SubSeq(records, 1, m)[k] = (currentRecord - 1) - Len(records) + k
      /\ Run(records', currentRecord - 1) /\ Len(records') = Len(records) - m
  <2>1. m \in 0 .. Len(records) /\ currentRecord - 1 \in Int
    BY <1>2
  <2>. QED
    BY <1>1, <1>2, <2>1, RunSplit
<1>5. Oldest = currentRecord - Len(records) /\ Oldest \in Int /\ Holding = Len(records)
  BY <1>1, <1>2, <1>3 DEF Oldest, Holding
<1>6. /\ s \in Seq(Int) /\ Len(s) = m /\ m \in Nat \ {0}
      /\ \A k \in 1 .. m : s[k] = Oldest - 1 + k
  <2>1. s = SubSeq(records, 1, m)
    BY DEF recordsToSend, m
  <2>2. \A k \in 1 .. m : (currentRecord - 1) - Len(records) + k = Oldest - 1 + k
    BY <1>2, <1>5
  <2>. QED
    BY <1>2, <1>4, <2>1, <2>2
<1>7. /\ pc' \in {"select", "done", "send"} /\ (pc' = "send" <=> records' # << >>)
      /\ Holding' = Len(records) - m
  <2>1. pc' \in {"select", "done", "send"} /\ (pc' = "send" <=> records' # << >>)
    BY <1>1 DEF AfterSendAll
  <2>2. Holding' = 0 + Len(records') + 0
    BY <1>1, <1>3, <2>1 DEF Holding
  <2>. QED
    BY <1>2, <1>4, <2>1, <2>2
<1>8. QueueInv'
  <2>1. Len(records') <= bufferSize /\ Len(recordChan') <= bufferSize
    BY <1>1, <1>2, <1>3, <1>4, bufferSizeAssumption
  <2>2. Run(recordChan', currentRecord' - 1)
    <3>1. currentRecord' - 1 \in Int
      BY <1>1, <1>2
    <3>. QED
      BY <1>1, <1>3, <3>1, SmallRuns
  <2>. QED
    BY <1>1, <1>3, <1>4, <1>7, <2>1, <2>2 DEF QueueInv
<1>9. Oldest' = Oldest + m
  BY <1>1, <1>2, <1>5, <1>7 DEF Oldest
<1>. HIDE DEF s
<1>10. /\ d \in Seq(Int) /\ Len(d) \in Nat /\ Ascending(d)
       /\ Len(d) > 0 => d[Len(d)] < Oldest
  BY DEF TelemetryInv, DeliveredInv
<1>11. /\ d \o s \in Seq(Int) /\ Len(d \o s) = Len(d) + m
       /\ \A k \in 1 .. Len(d) + m : (d \o s)[k] = IF k <= Len(d) THEN d[k] ELSE s[k - Len(d)]
  BY <1>6, <1>10, ConcatProperties
<1>12. \A k \in 1 .. m : (d \o s)[Len(d) + k] = Oldest - 1 + k
  <2>. SUFFICES ASSUME NEW k \in 1 .. m PROVE (d \o s)[Len(d) + k] = Oldest - 1 + k
    OBVIOUS
  <2>1. Len(d) + k \in 1 .. Len(d) + m /\ ~(Len(d) + k <= Len(d)) /\ (Len(d) + k) - Len(d) = k
    BY <1>6, <1>10
  <2>. QED
    BY <1>6, <1>11, <2>1
<1>13. Ascending(d \o s)
  <2>. SUFFICES ASSUME NEW k \in 1 .. Len(d \o s) - 1 PROVE (d \o s)[k] < (d \o s)[k + 1]
    BY DEF Ascending
  <2>4. k \in Nat /\ 1 <= k /\ k <= Len(d) + m - 1 /\ m \in Nat /\ Len(d) \in Nat
    BY <1>6, <1>10, <1>11
  <2>1. CASE k + 1 <= Len(d)
    <3>1. (d \o s)[k] = d[k] /\ (d \o s)[k + 1] = d[k + 1]
      BY <1>6, <1>10, <1>11, <2>1
    <3>. QED
      BY <1>10, <2>1, <3>1 DEF Ascending
  <2>2. CASE k = Len(d)
    <3>1. (d \o s)[k] = d[k] /\ (d \o s)[k + 1] = Oldest - 1 + 1
      BY <1>6, <1>10, <1>11, <1>12, <2>2
    <3>. QED
      BY <1>5, <1>10, <2>2, <3>1
  <2>3. CASE k > Len(d)
    <3>1. k - Len(d) \in 1 .. m /\ k - Len(d) + 1 \in 1 .. m
      BY <2>3, <2>4
    <3>2. /\ (d \o s)[Len(d) + (k - Len(d))] = Oldest - 1 + (k - Len(d))
          /\ (d \o s)[Len(d) + (k - Len(d) + 1)] = Oldest - 1 + (k - Len(d) + 1)
      BY <1>12, <3>1
    <3>3. Len(d) + (k - Len(d)) = k /\ Len(d) + (k - Len(d) + 1) = k + 1
      BY <2>4
    <3>4. /\ (d \o s)[k] = Oldest - 1 + (k - Len(d))
          /\ (d \o s)[k + 1] = Oldest - 1 + (k - Len(d) + 1)
      BY <3>2, <3>3
    <3>. QED
      BY <1>5, <2>4, <3>4
  <2>. QED
    BY <2>1, <2>2, <2>3, <2>4
<1>14. DeliveredInv'
  <2>1. (d \o s)[Len(d) + m] = Oldest - 1 + m
    BY <1>6, <1>12
  <2>2. (d \o s)[Len(d \o s)] < Oldest'
    BY <1>5, <1>6, <1>9, <1>11, <2>1
  <2>. QED
    BY <1>1, <1>11, <1>13, <2>2 DEF DeliveredInv
<1>15. \A n \in Oldest .. Oldest + m - 1 : n \in Ran(delivered')
  <2>. SUFFICES ASSUME NEW n \in Oldest .. Oldest + m - 1 PROVE n \in Ran(delivered')
    OBVIOUS
  <2>4. m \in Nat /\ Oldest \in Int /\ n \in Int
    BY <1>5, <1>6
  <2>1. n - Oldest + 1 \in 1 .. m /\ Oldest - 1 + (n - Oldest + 1) = n
    BY <2>4
  <2>2. (d \o s)[Len(d) + (n - Oldest + 1)] = n
    BY <1>12, <2>1
  <2>3. Len(d) + (n - Oldest + 1) \in DOMAIN (d \o s)
    BY <1>6, <1>10, <1>11, <2>1
  <2>. QED
    BY <1>1, <2>2, <2>3 DEF Ran
<1>16. TypeOK' /\ PostInv'
  BY <1>1, <1>2, <1>3, <1>7 DEF TelemetryInv, TypeOK, PostInv
<1>. QED
  BY <1>2, <1>5, <1>7, <1>8, <1>14, <1>15, <1>16 DEF TelemetryInv, m

\* A record goes back to the channel, which has room for it.
LEMMA RequeueInv ==
  ASSUME TelemetryInv, Requeue
  PROVE  TelemetryInv' /\ Holding' = Holding
<1>1. /\ pc = "requeue"
      /\ recordChan' = add(recordChan, Head(records)) /\ records' = Tail(records)
      /\ pc' = IF records' = << >> THEN AfterSendAll ELSE "requeue"
      /\ UNCHANGED <<currentRecord, postTelemetry, delivered>>
  BY DEF Requeue
<1>. DEFINE e == currentRecord - 1
            l == Len(records)
<1>2. /\ records # << >> /\ Run(records, e) /\ Run(recordChan, e - l)
      /\ Len(recordChan) + l <= bufferSize /\ currentRecord \in Nat /\ postTelemetry
  BY <1>1 DEF TelemetryInv, TypeOK, QueueInv, PostInv
<1>3. /\ Run(Tail(records), e) /\ Len(Tail(records)) = l - 1
      /\ Head(records) = e - l + 1 /\ l \in Nat \ {0} /\ e \in Int
  <2>1. e \in Int
    BY <1>2
  <2>. QED
    BY <1>2, <2>1, RunTail
<1>4. Len(recordChan) \in Nat /\ bufferSize \in Nat
  BY <1>2, bufferSizeAssumption DEF Run
<1>. HIDE DEF e, l
<1>5. recordChan' = Append(recordChan, (e - l) + 1)
  <2>1. Len(recordChan) < bufferSize
    BY <1>2, <1>3, <1>4
  <2>. QED
    BY <1>1, <1>2, <1>3, <2>1 DEF add
<1>6. Run(recordChan', (e - l) + 1) /\ Len(recordChan') = Len(recordChan) + 1
  <2>1. e - l \in Int
    BY <1>3
  <2>. QED
    BY <1>2, <1>5, <2>1, RunAppend
<1>7. ASSUME records' = << >> PROVE QueueInv'
  <2>1. l = 1 /\ (e - l) + 1 = e
    <3>1. Len(records') = 0
      BY <1>7
    <3>. QED
      BY <1>1, <1>3, <3>1
  <2>2. pc' \in {"select", "done"}
    BY <1>1, <1>7 DEF AfterSendAll
  <2>3. Len(recordChan') <= bufferSize
    BY <1>2, <1>4, <1>6, <2>1
  <2>. QED
    BY <1>1, <1>6, <1>7, <2>1, <2>2, <2>3 DEF QueueInv, TypeOK, TelemetryInv, e
<1>8. ASSUME records' # << >> PROVE QueueInv'
  <2>1. pc' = "requeue"
    BY <1>1, <1>8
  <2>2. (e - l) + 1 = e - Len(records') /\ Len(recordChan') + Len(records') <= bufferSize
    BY <1>1, <1>2, <1>3, <1>4, <1>6
  <2>. QED
    BY <1>1, <1>3, <1>6, <1>8, <2>1, <2>2 DEF QueueInv, e
<1>9. pc' # "add" /\ TypeOK' /\ PostInv'
  BY <1>1, <1>2 DEF TelemetryInv, TypeOK, PostInv, AfterSendAll
<1>10. Holding' = Holding
  <2>1. Holding = Len(recordChan) + l + 0 /\ Holding' = Len(recordChan') + Len(records') + 0
    BY <1>1, <1>9 DEF Holding, l
  <2>2. Len(records') = l - 1 /\ l \in Nat /\ Len(recordChan') = Len(recordChan) + 1
    BY <1>1, <1>3, <1>6
  <2>. QED
    BY <1>4, <2>1, <2>2
<1>11. DeliveredInv'
  BY <1>1, <1>10 DEF TelemetryInv, DeliveredInv, Oldest
<1>. QED
  BY <1>9, <1>10, <1>11, <1>7, <1>8 DEF TelemetryInv

-----------------------------------------------------------------------------
(* The invariant, and what it gives *)

\* The first record is current and nothing is queued.
LEMMA InvInit == ASSUME newT PROVE TelemetryInv
<1>1. /\ currentRecord = 1 /\ pc = "select" /\ recordChan = << >> /\ records = << >>
      /\ delivered = << >>
  BY DEF newT
<1>2. TypeOK /\ PostInv
  BY <1>1 DEF TypeOK, PostInv
<1>3. QueueInv
  <2>1. currentRecord - 1 \in Int
    BY <1>1
  <2>2. Run(<< >>, currentRecord - 1) /\ Len(<< >>) = 0
    BY <2>1, SmallRuns
  <2>. QED
    BY <1>1, <2>2, bufferSizeAssumption DEF QueueInv
<1>4. DeliveredInv
  <2>1. << >> \in Seq(Int) /\ Len(<< >>) = 0
    OBVIOUS
  <2>. QED
    BY <1>1, <2>1 DEF DeliveredInv, Ascending
<1>. QED
  BY <1>2, <1>3, <1>4 DEF TelemetryInv

\* PutTelemetryRecords, a failed one and T.Done move pushData's place.
LEMMA MoveSteps ==
  ASSUME PutTelemetryRecords \/ (\E err \in Errors : PutError(err)) \/ TelemetryDone
  PROVE  /\ UNCHANGED <<currentRecord, postTelemetry, recordChan, records, delivered, quit>>
         /\ \/ pc = "send" /\ pc' = "call"
            \/ pc = "call" /\ pc' = "requeue"
            \/ pc = "done" /\ pc' = "exit"
BY Zenon DEF PutTelemetryRecords, PutError, TelemetryDone

\* Every step preserves the invariant.
LEMMA NextInv == ASSUME TelemetryInv, [TelemetryNext]_vars PROVE TelemetryInv'
<1>1. CASE AnswerLost \/ \E p \in Recorder : RecorderStep(p)
  BY <1>1, LostRecorded, RecorderRecorded, RecordedInv
<1>2. CASE TimerFires \/ QuitReceived
  BY <1>2, RotateInv DEF TimerFires, QuitReceived
<1>3. CASE pushDataStep
  BY <1>3, AddRecordInv, PutSuccessInv, RequeueInv, MoveSteps, MoveInv DEF pushDataStep
<1>4. CASE UNCHANGED vars
  <2>1. Recorded
    BY <1>4 DEF vars, Recorded
  <2>. QED
    BY <2>1, RecordedInv
<1>. QED
  BY <1>1, <1>2, <1>3, <1>4 DEF TelemetryNext, Exited

\* What pushData holds is a run of consecutive records in every state.
THEOREM TelemetryInvariant == TelemetrySpec => []TelemetryInv
BY InvInit, NextInv, PTL DEF TelemetrySpec

\* However requests fail, records are queued and delivered in order, without a
\* gap in the queue and none twice, for every bufferSize and requestSize.
THEOREM InOrderTheorem == TelemetrySpec => []PendingInOrder
<1>1. TelemetryInv => PendingInOrder
  <2>. SUFFICES ASSUME TelemetryInv PROVE PendingInOrder
    OBVIOUS
  <2>. DEFINE e == currentRecord - 1
              p == Pending
  <2>1. Run(p, e) /\ Len(p) = Holding /\ Holding \in Nat /\ e \in Int
    BY PendingRun DEF TelemetryInv, TypeOK
  <2>2. pc # "add" => Len(p) <= bufferSize
    <3>. SUFFICES ASSUME pc # "add" PROVE Holding <= bufferSize
      BY <2>1
    <3>1. Holding = Len(recordChan) + Len(records) + 0
      BY DEF Holding
    <3>2. CASE pc \in {"select", "done", "exit"}
      BY <3>1, <3>2 DEF TelemetryInv, QueueInv, Run
    <3>3. CASE pc \in {"send", "call"}
      BY <3>1, <3>3 DEF TelemetryInv, QueueInv, Run
    <3>4. CASE pc = "requeue"
      <4>1. Len(recordChan) \in Nat /\ Len(records) \in Nat /\ Len(recordChan) + Len(records) <= bufferSize
        BY <3>4 DEF TelemetryInv, QueueInv, Run
      <4>. QED
        BY <3>1, <4>1
    <3>. QED
      BY <3>2, <3>3, <3>4 DEF TelemetryInv, TypeOK
  <2>. HIDE DEF p, e
  <2>3. \A k \in 1 .. Len(p) - 1 : p[k + 1] = p[k] + 1
    <3>. SUFFICES ASSUME NEW k \in 1 .. Len(p) - 1 PROVE p[k + 1] = p[k] + 1
      OBVIOUS
    <3>1. k \in 1 .. Len(p) /\ k + 1 \in 1 .. Len(p)
      BY <2>1
    <3>2. p[k] = e - Len(p) + k /\ p[k + 1] = e - Len(p) + (k + 1)
      BY <2>1, <3>1 DEF Run
    <3>. QED
      BY <2>1, <3>2
  <2>4. p # << >> => p[Len(p)] = e /\ p[1] = Oldest
    <3>. SUFFICES ASSUME p # << >> PROVE p[Len(p)] = e /\ p[1] = Oldest
      OBVIOUS
    <3>1. p \in Seq(Int)
      BY <2>1 DEF Run
    <3>2. 1 \in 1 .. Len(p) /\ Len(p) \in 1 .. Len(p)
      BY <3>1
    <3>3. p[1] = e - Len(p) + 1 /\ p[Len(p)] = e - Len(p) + Len(p)
      BY <2>1, <3>2 DEF Run
    <3>4. currentRecord \in Int
      BY DEF TelemetryInv, TypeOK
    <3>. QED
      BY <2>1, <3>3, <3>4 DEF Oldest, e
  <2>. QED
    BY <2>2, <2>3, <2>4 DEF TelemetryInv, DeliveredInv, Ascending, PendingInOrder, p, e
<1>. QED
  BY <1>1, TelemetryInvariant, PTL

\* The records that pushData holds, as numbers.
LEMMA HeldNumbers ==
  TelemetryInv =>
    Ran(Pending) = Oldest .. currentRecord - 1 /\ Oldest \in Int /\ currentRecord \in Int
<1>. SUFFICES ASSUME TelemetryInv
     PROVE Ran(Pending) = Oldest .. currentRecord - 1 /\ Oldest \in Int /\ currentRecord \in Int
  OBVIOUS
<1>1. /\ Run(Pending, currentRecord - 1) /\ Len(Pending) = Holding /\ Holding \in Nat
      /\ currentRecord \in Nat
  BY PendingRun DEF TelemetryInv, TypeOK
<1>2. Ran(Pending) = (currentRecord - 1) - Len(Pending) + 1 .. currentRecord - 1
  <2>1. currentRecord - 1 \in Int
    BY <1>1
  <2>. QED
    BY <1>1, <2>1, RunRange
<1>3. (currentRecord - 1) - Len(Pending) + 1 = Oldest /\ Oldest \in Int
  BY <1>1 DEF Oldest
<1>. QED
  BY <1>1, <1>2, <1>3

\* The same after a step.
LEMMA HeldNumbersNext ==
  TelemetryInv' =>
    (Ran(Pending) = Oldest .. currentRecord - 1 /\ Oldest \in Int /\ currentRecord \in Int)'
BY HeldNumbers, PTL

\* The condition of LostOnlyByTruncation on a step.
NoneLost ==
  \A n \in Ran(Pending) \ Ran(Pending') :
    \/ n \in Ran(delivered')
    \/ n \in skipped'
    \/ pc = "add" /\ Len(recordChan) = bufferSize /\ n = Head(recordChan)

\* A step after which the oldest record is the same loses none.
LEMMA NoneLostIfKept ==
  ASSUME TelemetryInv, TelemetryInv', Oldest' = Oldest, currentRecord' >= currentRecord
  PROVE  NoneLost
<1>1. Ran(Pending) = Oldest .. currentRecord - 1 /\ Oldest \in Int /\ currentRecord \in Int
  BY HeldNumbers
<1>2. Ran(Pending') = Oldest' .. currentRecord' - 1 /\ currentRecord' \in Int
  BY HeldNumbersNext DEF Ran
<1>3. Oldest .. currentRecord - 1 \subseteq Oldest' .. currentRecord' - 1
  <2>1. ASSUME NEW a \in Int, NEW b \in Int, NEW d \in Int, d >= b, NEW n \in a .. b - 1
        PROVE  n \in a .. d - 1
    BY <2>1
  <2>. QED
    BY <1>1, <1>2, <2>1
<1>4. Ran(Pending) \subseteq Ran(Pending')
  BY <1>1, <1>2, <1>3
<1>. QED
  BY <1>4 DEF NoneLost

\* Queueing the record in hand drops the head of a full channel, or, before any
\* segment was received, that record.
LEMMA AddRecordLoses == ASSUME TelemetryInv, TelemetryInv', AddRecord PROVE NoneLost
<1>1. /\ pc = "add" /\ UNCHANGED currentRecord
      /\ skipped' = IF postTelemetry THEN skipped ELSE skipped \cup {currentRecord - 1}
  BY DEF AddRecord
<1>2. Ran(Pending) = Oldest .. currentRecord - 1 /\ Oldest \in Int /\ currentRecord \in Int
  BY HeldNumbers
<1>3. Ran(Pending') = Oldest' .. currentRecord - 1 /\ Oldest' \in Int
  BY <1>1, HeldNumbersNext DEF Ran
<1>4. /\ Holding = Len(recordChan) + 1
      /\ postTelemetry => Holding' = IF Len(recordChan) < bufferSize THEN Len(recordChan) + 1
                                                                     ELSE bufferSize
      /\ ~postTelemetry => recordChan = << >>
  BY AddRecordInv
<1>5. CASE ~postTelemetry
  <2>1. Oldest = currentRecord - 1
    BY <1>2, <1>4, <1>5 DEF Oldest
  <2>2. \A n \in Ran(Pending) : n = currentRecord - 1
    BY <1>2, <2>1
  <2>. QED
    BY <1>1, <1>5, <2>2 DEF NoneLost
<1>6. CASE postTelemetry /\ Len(recordChan) < bufferSize
  <2>1. Oldest' = Oldest
    BY <1>1, <1>4, <1>6 DEF Oldest
  <2>. QED
    BY <1>1, <1>2, <2>1, NoneLostIfKept
<1>7. CASE postTelemetry /\ ~(Len(recordChan) < bufferSize)
  <2>1. /\ Len(recordChan) \in 0 .. bufferSize /\ bufferSize \in Nat
        /\ Len(recordChan) = bufferSize => Head(recordChan) = currentRecord - 1 - bufferSize
    BY <1>1, <1>7, AddedRun, bufferSizeAssumption
  <2>2. Len(recordChan) = bufferSize /\ Head(recordChan) = currentRecord - 1 - bufferSize
    BY <1>7, <2>1
  <2>3. Oldest = currentRecord - (bufferSize + 1) /\ Oldest' = currentRecord - bufferSize
    BY <1>1, <1>4, <1>7, <2>2 DEF Oldest
  <2>4. \A n \in Ran(Pending) \ Ran(Pending') : n = Head(recordChan)
    BY <1>2, <1>3, <2>1, <2>2, <2>3
  <2>. QED
    BY <1>1, <2>2, <2>4 DEF NoneLost
<1>. QED
  BY <1>5, <1>6, <1>7

\* A request that succeeds delivers what leaves the queue.
LEMMA PutSuccessLoses == ASSUME TelemetryInv, TelemetryInv', PutSuccess PROVE NoneLost
<1>1. UNCHANGED currentRecord
  BY DEF PutSuccess
<1>2. Ran(Pending) = Oldest .. currentRecord - 1 /\ Oldest \in Int /\ currentRecord \in Int
  BY HeldNumbers
<1>3. Ran(Pending') = Oldest' .. currentRecord - 1 /\ Oldest' \in Int
  BY <1>1, HeldNumbersNext DEF Ran
<1>4. /\ RequestLen \in 1 .. Holding /\ Holding \in Nat
      /\ Holding' = Holding - RequestLen
      /\ \A n \in Oldest .. Oldest + RequestLen - 1 : n \in Ran(delivered')
  BY PutSuccessInv
<1>5. Oldest' = Oldest + RequestLen /\ RequestLen \in Int
  BY <1>1, <1>2, <1>4 DEF Oldest
<1>6. \A n \in Ran(Pending) \ Ran(Pending') : n \in Oldest .. Oldest + RequestLen - 1
  BY <1>2, <1>3, <1>5
<1>. QED
  BY <1>4, <1>6 DEF NoneLost

\* No other step loses a record.
LEMMA StepLosesNone ==
  ASSUME TelemetryInv, TelemetryInv', [TelemetryNext]_vars
  PROVE  NoneLost
<1>1. currentRecord \in Nat /\ Holding \in Nat
  BY PendingRun DEF TelemetryInv, TypeOK
<1>2. ASSUME Recorded PROVE NoneLost
  <2>1. Oldest' = Oldest /\ currentRecord' = currentRecord
    BY <1>2 DEF Recorded, Oldest, Holding
  <2>. QED
    BY <1>1, <2>1, NoneLostIfKept
<1>3. CASE AnswerLost \/ \E p \in Recorder : RecorderStep(p)
  BY <1>2, <1>3, LostRecorded, RecorderRecorded
<1>4. CASE TimerFires \/ QuitReceived
  <2>1. Holding' = Holding + 1 /\ currentRecord' = currentRecord + 1
    BY <1>4, RotateInv DEF TimerFires, QuitReceived, Rotate
  <2>2. Oldest' = Oldest /\ currentRecord' >= currentRecord
    BY <1>1, <2>1 DEF Oldest
  <2>. QED
    BY <2>2, NoneLostIfKept
<1>5. CASE PutTelemetryRecords \/ (\E err \in Errors : PutError(err)) \/ TelemetryDone \/ Requeue
  <2>1. Holding' = Holding /\ currentRecord' = currentRecord
    BY <1>5, MoveSteps, MoveInv, RequeueInv DEF Requeue
  <2>2. Oldest' = Oldest /\ currentRecord' >= currentRecord
    BY <1>1, <2>1 DEF Oldest
  <2>. QED
    BY <2>2, NoneLostIfKept
<1>6. CASE UNCHANGED vars
  BY <1>2, <1>6 DEF vars, Recorded
<1>. QED
  BY <1>3, <1>4, <1>5, <1>6, AddRecordLoses, PutSuccessLoses DEF TelemetryNext, pushDataStep, Exited

\* A failed request loses no record, and queueing its records again pushes none
\* out of the channel; only a new record that finds it full does.
THEOREM LostTheorem == TelemetrySpec => LostOnlyByTruncation
<1>1. TelemetryInv /\ TelemetryInv' /\ [TelemetryNext]_vars => [NoneLost]_vars
  BY StepLosesNone
<1>2. [NoneLost]_vars =>
        [\A n \in Ran(Pending) \ Ran(Pending') :
           \/ n \in Ran(delivered')
           \/ n \in skipped'
           \/ pc = "add" /\ Len(recordChan) = bufferSize /\ n = Head(recordChan)]_vars
  BY DEF NoneLost
<1>. QED
  BY <1>1, <1>2, TelemetryInvariant, PTL DEF TelemetrySpec, LostOnlyByTruncation

-----------------------------------------------------------------------------
(* What the service is told *)

Counts == [Record -> [Names -> Nat]]

\* A request tells no more of a record than the record counts and nothing of
\* a record that is not in it; and of the records that pushData still holds, or
\* that are newer, the service knows only what came with a lost answer.
ReportInv ==
  /\ cnt \in Counts /\ snapshot \in Counts /\ reported \in Counts
  /\ name \in [Recorder -> Names] /\ lost \in [Record -> Nat]
  /\ pc = "call" => \A n \in Record, k \in Names :
                      /\ snapshot[n][k] <= cnt[n][k]
                      /\ n \notin Ran(recordsToSend) => snapshot[n][k] = 0
  /\ \A n \in Record, k \in Names : n >= Oldest => reported[n][k] <= lost[n] * cnt[n][k]
  /\ ReportedOnce

\* The products of the invariant: they are numbers, grow with the counts, and by
\* one count with every lost answer.
LEMMA Products ==
  ASSUME NEW m \in Nat, NEW a \in Nat, NEW b \in Nat, a <= b
  PROVE  /\ m * a \in Nat /\ m * b \in Nat /\ m * a <= m * b
         /\ (1 + m) * b = m * b + b /\ (m + 1) * b = m * b + b
<1>1. m * a \in Nat /\ m * b \in Nat
  OBVIOUS
<1>2. m * a <= m * b
  OBVIOUS
<1>3. (1 + m) * b = m * b + b /\ (m + 1) * b = m * b + b
  OBVIOUS
<1>. QED
  BY <1>1, <1>2, <1>3

\* Records only count up.
CountsGrow ==
  /\ cnt' \in Counts
  /\ \A n \in Record, k \in Names : cnt'[n][k] >= cnt[n][k]

\* No step takes a count back, a recorder's and a failed request's included.
LEMMA StepCountsGrow == ASSUME ReportInv, [TelemetryNext]_vars PROVE CountsGrow
<1>. USE DEF Counts
<1>1. cnt \in Counts /\ name \in [Recorder -> Names]
  BY DEF ReportInv
<1>2. ASSUME UNCHANGED cnt PROVE CountsGrow
  BY <1>1, <1>2 DEF CountsGrow
<1>3. ASSUME NEW p \in Recorder, AddCount(p) PROVE CountsGrow
  <2>1. cnt' = [cnt EXCEPT ![held[p]][name[p]] = @ + 1] /\ name[p] \in Names
    BY <1>1, <1>3 DEF AddCount
  <2>2. cnt' = [n \in Record |-> IF n = held[p] THEN [cnt[n] EXCEPT ![name[p]] = @ + 1] ELSE cnt[n]]
    BY <1>1, <2>1
  <2>3. ASSUME NEW n \in Record
        PROVE  cnt'[n] \in [Names -> Nat] /\ \A k \in Names : cnt'[n][k] >= cnt[n][k]
    <3>1. cnt[n] \in [Names -> Nat] /\ cnt[n][name[p]] \in Nat
      BY <1>1, <2>1
    <3>2. CASE n = held[p]
      <4>1. cnt'[n] = [cnt[n] EXCEPT ![name[p]] = cnt[n][name[p]] + 1]
        BY <2>2, <3>2
      <4>2. \A k \in Names :
              cnt'[n][k] = IF k = name[p] THEN cnt[n][name[p]] + 1 ELSE cnt[n][k]
        BY <3>1, <4>1
      <4>3. cnt'[n] \in [Names -> Nat]
        <5>1. \A f \in [Names -> Nat] : \A j \in Names, v \in Nat : [f EXCEPT ![j] = v] \in [Names -> Nat]
          OBVIOUS
        <5>2. cnt[n][name[p]] + 1 \in Nat
          BY <3>1
        <5>. QED
          BY <2>1, <3>1, <4>1, <5>1, <5>2
      <4>4. \A k \in Names : cnt[n][k] \in Nat
        BY <3>1
      <4>. QED
        BY <4>2, <4>3, <4>4
    <3>3. CASE n # held[p]
      BY <2>2, <3>1, <3>3
    <3>. QED
      BY <3>2, <3>3
  <2>. QED
    BY <2>2, <2>3 DEF CountsGrow
<1>4. ASSUME NEW err \in Errors, PutError(err) PROVE CountsGrow
  <2>. DEFINE step(k) == IF k \in EvaluateConnectionError(err) THEN 1 ELSE 0
  <2>1. cnt' = [cnt EXCEPT ![currentRecord] = [k \in Names |-> @[k] + step(k)]]
    BY <1>4 DEF PutError
  <2>2. \A k \in Names : step(k) \in {0, 1}
    OBVIOUS
  <2>. HIDE DEF step
  <2>3. cnt' = [n \in Record |-> IF n = currentRecord THEN [k \in Names |-> cnt[n][k] + step(k)]
                                 ELSE cnt[n]]
    BY <1>1, <2>1
  <2>4. ASSUME NEW n \in Record
        PROVE  cnt'[n] \in [Names -> Nat] /\ \A k \in Names : cnt'[n][k] >= cnt[n][k]
    <3>1. cnt[n] \in [Names -> Nat]
      BY <1>1
    <3>2. CASE n = currentRecord
      <4>1. cnt'[n] = [k \in Names |-> cnt[n][k] + step(k)]
        BY <2>3, <3>2
      <4>2. \A k \in Names : cnt[n][k] \in Nat /\ cnt[n][k] + step(k) \in Nat
                             /\ cnt[n][k] + step(k) >= cnt[n][k]
        BY <2>2, <3>1
      <4>. QED
        BY <4>1, <4>2
    <3>3. CASE n # currentRecord
      BY <2>3, <3>1, <3>3
    <3>. QED
      BY <3>2, <3>3
  <2>. QED
    BY <2>3, <2>4 DEF CountsGrow
<1>5. CASE \E p \in Recorder : RecorderStep(p)
  BY <1>2, <1>3, <1>5 DEF RecorderStep, BeginReceived, BeginLater, Begin, SetPost
<1>6. CASE TimerFires \/ QuitReceived
  BY <1>2, <1>6 DEF TimerFires, QuitReceived, Rotate
<1>7. CASE pushDataStep
  BY <1>2, <1>4, <1>7
  DEF pushDataStep, AddRecord, PutTelemetryRecords, PutSuccess, Requeue, TelemetryDone
<1>8. CASE AnswerLost \/ UNCHANGED vars
  BY <1>2, <1>8 DEF vars, AnswerLost
<1>. QED
  BY <1>5, <1>6, <1>7, <1>8 DEF TelemetryNext, Exited

\* The oldest record that pushData holds only moves on.
LEMMA OldestMovesOn ==
  ASSUME TelemetryInv, TelemetryInv', [TelemetryNext]_vars
  PROVE  Oldest \in Int /\ Oldest' \in Int /\ Oldest' >= Oldest
<1>1. currentRecord \in Nat /\ Holding \in Nat /\ Oldest \in Int
  BY PendingRun DEF TelemetryInv, TypeOK, Oldest
<1>2. Oldest' \in Int
  BY HeldNumbersNext
<1>3. ASSUME Recorded PROVE Oldest' = Oldest
  BY <1>3 DEF Recorded, Oldest, Holding
<1>4. CASE AnswerLost \/ \E p \in Recorder : RecorderStep(p)
  BY <1>1, <1>3, <1>4, LostRecorded, RecorderRecorded
<1>5. CASE TimerFires \/ QuitReceived
  <2>1. Holding' = Holding + 1 /\ currentRecord' = currentRecord + 1
    BY <1>5, RotateInv DEF TimerFires, QuitReceived, Rotate
  <2>. QED
    BY <1>1, <2>1 DEF Oldest
<1>6. CASE PutTelemetryRecords \/ (\E err \in Errors : PutError(err)) \/ TelemetryDone \/ Requeue
  <2>1. Holding' = Holding /\ currentRecord' = currentRecord
    BY <1>6, MoveSteps, MoveInv, RequeueInv DEF Requeue
  <2>. QED
    BY <1>1, <2>1 DEF Oldest
<1>7. CASE AddRecord
  <2>1. /\ pc = "add" /\ currentRecord' = currentRecord
        /\ Holding = Len(recordChan) + 1
        /\ postTelemetry => Holding' = IF Len(recordChan) < bufferSize THEN Len(recordChan) + 1
                                                                       ELSE bufferSize
    BY <1>7, AddRecordInv DEF AddRecord
  <2>2. CASE ~postTelemetry
    <3>1. recordChan = << >> /\ Holding = 1
      BY <1>1, <1>7, <2>1, <2>2, AddRecordInv
    <3>2. Holding' = 0
      <4>1. add(recordChan, currentRecord - 1) = << >>
        BY <2>2, <3>1 DEF add
      <4>2. << >> \in Seq(Int) /\ Len(<< >>) <= bufferSize
        BY bufferSizeAssumption
      <4>3. records' = << >> /\ recordChan' = << >> /\ pc' # "add"
        BY <1>7, <4>1, <4>2, CollectAll DEF AddRecord, AfterSendAll
      <4>. QED
        BY <4>3 DEF Holding
    <3>. QED
      BY <1>1, <2>1, <3>1, <3>2 DEF Oldest
  <2>3. CASE postTelemetry
    <3>1. Len(recordChan) \in 0 .. bufferSize /\ bufferSize \in Nat
      BY <1>7, <2>1, <2>3, AddedRun, bufferSizeAssumption
    <3>. QED
      BY <1>1, <2>1, <2>3, <3>1 DEF Oldest
  <2>. QED
    BY <1>2, <2>2, <2>3
<1>8. CASE PutSuccess
  <2>1. RequestLen \in 1 .. Holding /\ Holding' = Holding - RequestLen /\ currentRecord' = currentRecord
    BY <1>8, PutSuccessInv DEF PutSuccess
  <2>. QED
    BY <1>1, <2>1 DEF Oldest
<1>9. CASE UNCHANGED vars
  BY <1>1, <1>3, <1>9 DEF vars, Recorded
<1>. QED
  BY <1>1, <1>2, <1>4, <1>5, <1>6, <1>7, <1>8, <1>9 DEF TelemetryNext, pushDataStep, Exited

\* The records of a request are the oldest ones that pushData holds.
LEMMA RequestNumbers ==
  ASSUME TelemetryInv, pc = "call"
  PROVE  Ran(recordsToSend) = Oldest .. Oldest + RequestLen - 1
<1>. DEFINE m == RequestLen
            e == currentRecord - 1
<1>1. /\ m \in 1 .. Len(records) /\ Len(records) \in Nat
      /\ Run(records, e) /\ currentRecord \in Nat /\ e \in Int
  BY RequestLenFacts
<1>2. recordChan = << >>
  BY DEF TelemetryInv, QueueInv
<1>3. Oldest = e - Len(records) + 1
  BY <1>1, <1>2 DEF Oldest, Holding
<1>4. recordsToSend = SubSeq(records, 1, m)
  BY DEF recordsToSend
<1>. HIDE DEF m, e
<1>5. /\ recordsToSend \in Seq(Int) /\ Len(recordsToSend) = m
      /\ \A k \in 1 .. m : recordsToSend[k] = e - Len(records) + k
  <2>1. m \in 0 .. Len(records)
    BY <1>1
  <2>. QED
    BY <1>1, <1>4, <2>1, RunSplit
<1>6. Run(recordsToSend, e - Len(records) + m)
  <2>1. \A k \in 1 .. m : e - Len(records) + k = (e - Len(records) + m) - m + k
    BY <1>1
  <2>. QED
    BY <1>1, <1>5, <2>1 DEF Run
<1>7. Ran(recordsToSend) = (e - Len(records) + m) - m + 1 .. e - Len(records) + m
  <2>1. e - Len(records) + m \in Int
    BY <1>1
  <2>. QED
    BY <1>5, <1>6, <2>1, RunRange
<1>. QED
  BY <1>1, <1>3, <1>7 DEF m

\* A step that tells the service nothing, outside of a request.
LEMMA QuietInv ==
  ASSUME TelemetryInv, TelemetryInv', [TelemetryNext]_vars, ReportInv,
         UNCHANGED <<reported, lost>>, snapshot' \in Counts, name' \in [Recorder -> Names],
         pc' = "call" => /\ pc = "call" /\ UNCHANGED <<snapshot, records>>
  PROVE  ReportInv'
<1>1. /\ cnt' \in Counts /\ cnt \in Counts /\ reported \in Counts /\ snapshot \in Counts
      /\ \A n \in Record, k \in Names : cnt'[n][k] >= cnt[n][k]
  BY StepCountsGrow DEF CountsGrow, ReportInv
<1>2. ASSUME NEW n \in Record, NEW k \in Names
      PROVE  /\ cnt[n][k] \in Nat /\ cnt'[n][k] \in Nat /\ cnt'[n][k] >= cnt[n][k]
             /\ reported[n][k] \in Nat /\ snapshot[n][k] \in Nat /\ n \in Int /\ lost[n] \in Nat
  BY <1>1, BoundsAssumption DEF Counts, Record, ReportInv
<1>3. Oldest \in Int /\ Oldest' \in Int /\ Oldest' >= Oldest
  BY OldestMovesOn
<1>4. ASSUME NEW n \in Record, NEW k \in Names
      PROVE  /\ n >= Oldest' => reported'[n][k] <= lost'[n] * cnt'[n][k]
             /\ reported'[n][k] <= (1 + lost'[n]) * cnt'[n][k]
  <2>1. /\ n >= Oldest => reported[n][k] <= lost[n] * cnt[n][k]
        /\ reported[n][k] <= (1 + lost[n]) * cnt[n][k]
    BY DEF ReportInv, ReportedOnce
  <2>2. /\ lost[n] * cnt[n][k] \in Nat /\ lost[n] * cnt'[n][k] \in Nat
        /\ lost[n] * cnt[n][k] <= lost[n] * cnt'[n][k]
    BY <1>2, Products
  <2>3. /\ (1 + lost[n]) * cnt[n][k] \in Nat /\ (1 + lost[n]) * cnt'[n][k] \in Nat
        /\ (1 + lost[n]) * cnt[n][k] <= (1 + lost[n]) * cnt'[n][k]
    <3>1. 1 + lost[n] \in Nat
      BY <1>2
    <3>. QED
      BY <1>2, <3>1, Products
  <2>4. reported'[n][k] = reported[n][k] /\ lost'[n] = lost[n] /\ (n >= Oldest' => n >= Oldest)
    BY <1>2, <1>3
  <2>. QED
    BY <1>2, <2>1, <2>2, <2>3, <2>4
<1>5. ReportedOnce'
  BY <1>4 DEF ReportedOnce
<1>6. ASSUME pc' = "call", NEW n \in Record, NEW k \in Names
      PROVE  /\ snapshot'[n][k] <= cnt'[n][k]
             /\ n \notin Ran(recordsToSend') => snapshot'[n][k] = 0
  <2>1. recordsToSend' = recordsToSend
    BY <1>6 DEF recordsToSend, RequestLen
  <2>. QED
    BY <1>2, <1>6, <2>1 DEF ReportInv
<1>. QED
  BY <1>1, <1>4, <1>5, <1>6 DEF ReportInv, Ran

\* A request is written from the counters as they are.
LEMMA PutReportInv ==
  ASSUME TelemetryInv, TelemetryInv', ReportInv, PutTelemetryRecords
  PROVE  ReportInv'
<1>1. /\ pc' = "call"
      /\ snapshot' = [n \in Record |-> IF n \in Ran(recordsToSend) THEN cnt[n]
                                       ELSE getEmptyTelemetryRecord]
      /\ UNCHANGED <<cnt, reported, lost, name, records, recordChan, currentRecord>>
  BY DEF PutTelemetryRecords, recorderVars
<1>2. cnt \in Counts /\ recordsToSend' = recordsToSend
  BY <1>1 DEF ReportInv, recordsToSend, RequestLen
<1>3. snapshot' \in Counts
  BY <1>1, <1>2 DEF Counts, getEmptyTelemetryRecord
<1>4. ASSUME NEW n \in Record, NEW k \in Names
      PROVE  /\ snapshot'[n][k] <= cnt'[n][k]
             /\ n \notin Ran(recordsToSend') => snapshot'[n][k] = 0
  BY <1>1, <1>2 DEF Counts, getEmptyTelemetryRecord
<1>5. Oldest' = Oldest
  BY <1>1 DEF PutTelemetryRecords, Oldest, Holding
<1>. QED
  BY <1>1, <1>2, <1>3, <1>4, <1>5 DEF ReportInv, ReportedOnce, Ran

\* A request that the service processes tells of each record at most what it
\* counts, and nothing of records that are not among its own.
LEMMA ToldOnce ==
  ASSUME TelemetryInv, ReportInv, pc = "call"
  PROVE  /\ Told \in Counts
         /\ \A n \in Record, k \in Names :
              /\ Told[n][k] \in Nat /\ reported[n][k] \in Nat /\ cnt[n][k] \in Nat
              /\ lost[n] \in Nat /\ n \in Int
              /\ Told[n][k] <= reported[n][k] + cnt[n][k]
              /\ n \notin Ran(recordsToSend) => Told[n][k] = reported[n][k]
<1>1. cnt \in Counts /\ snapshot \in Counts /\ reported \in Counts /\ lost \in [Record -> Nat]
  BY DEF ReportInv
<1>2. ASSUME NEW n \in Record, NEW k \in Names
      PROVE  /\ Told[n][k] = reported[n][k] + snapshot[n][k]
             /\ cnt[n][k] \in Nat /\ reported[n][k] \in Nat /\ snapshot[n][k] \in Nat
             /\ lost[n] \in Nat /\ n \in Int
  BY <1>1, BoundsAssumption DEF Told, Counts, Record
<1>3. Told \in Counts
  <2>1. \A n \in Record : [k \in Names |-> reported[n][k] + snapshot[n][k]] \in [Names -> Nat]
    BY <1>2
  <2>. QED
    BY <2>1 DEF Told, Counts
<1>4. ASSUME NEW n \in Record, NEW k \in Names
      PROVE  /\ Told[n][k] \in Nat
             /\ Told[n][k] <= reported[n][k] + cnt[n][k]
             /\ n \notin Ran(recordsToSend) => Told[n][k] = reported[n][k]
  <2>1. snapshot[n][k] <= cnt[n][k] /\ (n \notin Ran(recordsToSend) => snapshot[n][k] = 0)
    BY DEF ReportInv
  <2>. QED
    BY <1>2, <2>1
<1>. QED
  BY <1>2, <1>3, <1>4

\* The records of an acknowledged request leave pushData's hands.
LEMMA PutSuccessReportInv ==
  ASSUME TelemetryInv, TelemetryInv', ReportInv, PutSuccess
  PROVE  ReportInv'
<1>1. /\ pc = "call" /\ pc' # "call" /\ reported' = Told /\ snapshot' = Nothing
      /\ UNCHANGED <<cnt, name, lost, currentRecord>>
  BY DEF PutSuccess, recorderVars, AfterSendAll
<1>2. snapshot' \in Counts
  BY <1>1 DEF Counts, Nothing, getEmptyTelemetryRecord
<1>3. /\ Ran(recordsToSend) = Oldest .. Oldest + RequestLen - 1
      /\ Oldest' = Oldest + RequestLen /\ RequestLen \in Nat /\ Oldest \in Int
  <2>1. /\ RequestLen \in 1 .. Holding /\ Holding \in Nat /\ currentRecord \in Nat
        /\ Holding' = Holding - RequestLen
    BY PutSuccessInv DEF TelemetryInv, TypeOK
  <2>. QED
    BY <1>1, <2>1, RequestNumbers DEF Oldest
<1>4. ASSUME NEW n \in Record, NEW k \in Names
      PROVE  /\ n >= Oldest' => Told[n][k] <= lost[n] * cnt[n][k]
             /\ Told[n][k] <= (1 + lost[n]) * cnt[n][k]
  <2>1. /\ n >= Oldest => reported[n][k] <= lost[n] * cnt[n][k]
        /\ reported[n][k] <= (1 + lost[n]) * cnt[n][k]
    BY DEF ReportInv, ReportedOnce
  <2>2. /\ Told[n][k] \in Nat /\ reported[n][k] \in Nat /\ cnt[n][k] \in Nat
        /\ lost[n] \in Nat /\ n \in Int
        /\ Told[n][k] <= reported[n][k] + cnt[n][k]
        /\ n \notin Ran(recordsToSend) => Told[n][k] = reported[n][k]
    BY <1>1, ToldOnce
  <2>3. lost[n] * cnt[n][k] \in Nat /\ (1 + lost[n]) * cnt[n][k] = lost[n] * cnt[n][k] + cnt[n][k]
    BY <2>2, Products
  <2>4. CASE n < Oldest
    <3>1. n \notin Ran(recordsToSend) /\ ~(n >= Oldest')
      BY <1>3, <2>2, <2>4
    <3>. QED
      BY <2>1, <2>2, <3>1
  <2>5. CASE n >= Oldest
    <3>1. n >= Oldest' => n \notin Ran(recordsToSend)
      BY <1>3, <2>2
    <3>. QED
      BY <2>1, <2>2, <2>3, <2>5, <3>1
  <2>. QED
    BY <1>3, <2>2, <2>4, <2>5
<1>. QED
  BY <1>1, <1>2, <1>4, ToldOnce DEF ReportInv, ReportedOnce

\* A lost answer allows for what its request told.
LEMMA LostReportInv ==
  ASSUME TelemetryInv, ReportInv, AnswerLost
  PROVE  ReportInv'
<1>1. /\ pc = "call" /\ reported' = Told
      /\ lost' = [n \in Record |-> lost[n] + IF n \in Ran(recordsToSend) THEN 1 ELSE 0]
      /\ UNCHANGED <<pc, cnt, name, snapshot, records, recordChan, currentRecord>>
  BY DEF AnswerLost, recorderVars
<1>2. recordsToSend' = recordsToSend /\ Oldest' = Oldest
  BY <1>1 DEF recordsToSend, RequestLen, Oldest, Holding
<1>3. Ran(recordsToSend) = Oldest .. Oldest + RequestLen - 1 /\ Oldest \in Int
  <2>1. Holding \in Nat /\ currentRecord \in Nat
    BY PendingRun DEF TelemetryInv, TypeOK
  <2>. QED
    BY <1>1, <2>1, RequestNumbers DEF Oldest
<1>4. ASSUME NEW n \in Record, NEW k \in Names
      PROVE  /\ lost'[n] \in Nat
             /\ n >= Oldest => Told[n][k] <= lost'[n] * cnt[n][k]
             /\ Told[n][k] <= (1 + lost'[n]) * cnt[n][k]
  <2>1. /\ n >= Oldest => reported[n][k] <= lost[n] * cnt[n][k]
        /\ reported[n][k] <= (1 + lost[n]) * cnt[n][k]
    BY DEF ReportInv, ReportedOnce
  <2>2. /\ Told[n][k] \in Nat /\ reported[n][k] \in Nat /\ cnt[n][k] \in Nat
        /\ lost[n] \in Nat /\ n \in Int
        /\ Told[n][k] <= reported[n][k] + cnt[n][k]
        /\ n \notin Ran(recordsToSend) => Told[n][k] = reported[n][k]
    BY <1>1, ToldOnce
  <2>3. CASE n \notin Ran(recordsToSend)
    <3>1. lost'[n] = lost[n]
      BY <1>1, <2>2, <2>3
    <3>. QED
      BY <2>1, <2>2, <2>3, <3>1
  <2>4. CASE n \in Ran(recordsToSend)
    <3>1. lost'[n] = lost[n] + 1 /\ lost[n] + 1 \in Nat
      BY <1>1, <2>2, <2>4
    <3>2. n >= Oldest
      BY <1>3, <2>2, <2>4
    <3>3. /\ lost[n] * cnt[n][k] \in Nat
          /\ (lost[n] + 1) * cnt[n][k] = lost[n] * cnt[n][k] + cnt[n][k]
      BY <2>2, Products
    <3>4. (1 + (lost[n] + 1)) * cnt[n][k] = (lost[n] + 1) * cnt[n][k] + cnt[n][k]
      BY <2>2, <3>1, Products
    <3>5. Told[n][k] <= lost[n] * cnt[n][k] + cnt[n][k]
      BY <2>1, <2>2, <3>2, <3>3
    <3>. QED
      BY <2>2, <3>1, <3>3, <3>4, <3>5
  <2>. QED
    BY <2>3, <2>4
<1>5. lost' \in [Record -> Nat]
  BY <1>1, <1>4, BoundsAssumption DEF ReportInv
<1>. QED
  BY <1>1, <1>2, <1>4, <1>5, ToldOnce DEF ReportInv, ReportedOnce, Ran

\* Every step preserves what the service is told.
LEMMA ReportNext ==
  ASSUME TelemetryInv, TelemetryInv', [TelemetryNext]_vars, ReportInv
  PROVE  ReportInv'
<1>1. snapshot \in Counts /\ name \in [Recorder -> Names]
  BY DEF ReportInv
<1>2. Nothing \in Counts
  BY DEF Nothing, Counts, getEmptyTelemetryRecord
<1>3. CASE \E p \in Recorder : RecorderStep(p)
  <2>1. PICK p \in Recorder : RecorderStep(p)
    BY <1>3
  <2>2. UNCHANGED <<reported, lost, snapshot, records, pc>>
    BY <2>1 DEF RecorderStep, BeginReceived, BeginLater, Begin, AddCount, SetPost, pushVars
  <2>3. name' = name \/ \E k \in Names : name' = [name EXCEPT ![p] = k]
    <3>1. "received" \in Names /\ Later \subseteq Names
      BY LaterAssumption DEF Names
    <3>. QED
      BY <2>1, <3>1 DEF RecorderStep, BeginReceived, BeginLater, Begin, AddCount, SetPost
  <2>4. name' \in [Recorder -> Names]
    BY <1>1, <2>3
  <2>. QED
    BY <1>1, <2>2, <2>4, QuietInv
<1>4. CASE TimerFires \/ QuitReceived
  <2>1. pc' # "call" /\ UNCHANGED <<reported, lost, snapshot, name>>
    BY <1>4 DEF TimerFires, QuitReceived, Rotate, recorderVars
  <2>. QED
    BY <1>1, <2>1, QuietInv
<1>5. CASE AddRecord \/ (\E err \in Errors : PutError(err)) \/ Requeue \/ TelemetryDone
  <2>1. /\ pc' # "call" /\ UNCHANGED <<reported, lost, name>>
        /\ snapshot' = snapshot \/ snapshot' = Nothing
    BY <1>5 DEF AddRecord, PutError, Requeue, TelemetryDone, recorderVars, AfterSendAll
  <2>. QED
    BY <1>1, <1>2, <2>1, QuietInv
<1>6. CASE UNCHANGED vars
  BY <1>1, <1>6, QuietInv DEF vars
<1>. QED
  BY <1>3, <1>4, <1>5, <1>6, PutReportInv, PutSuccessReportInv, LostReportInv
  DEF TelemetryNext, pushDataStep, Exited

\* However requests fail and recorders are late, all requests together tell
\* the service of no record more than it counts, and that once more for each
\* processed request whose answer was lost.
THEOREM ReportedOnceTheorem == TelemetrySpec => []ReportedOnce
<1>1. newT => ReportInv
  <2>. SUFFICES ASSUME newT PROVE ReportInv
    OBVIOUS
  <2>1. /\ cnt = Nothing /\ snapshot = Nothing /\ reported = Nothing /\ pc = "select"
        /\ name = [p \in Recorder |-> "received"] /\ lost = [n \in Record |-> 0]
    BY DEF newT
  <2>2. "received" \in Names
    BY DEF Names
  <2>3. 0 <= 0 * 0 /\ 0 <= (1 + 0) * 0
    OBVIOUS
  <2>. QED
    BY <2>1, <2>2, <2>3 DEF ReportInv, ReportedOnce, Nothing, Counts, getEmptyTelemetryRecord
<1>2. TelemetryInv /\ TelemetryInv' /\ ReportInv /\ [TelemetryNext]_vars => ReportInv'
  BY ReportNext
<1>3. ReportInv => ReportedOnce
  BY DEF ReportInv
<1>. QED
  BY <1>1, <1>2, <1>3, TelemetryInvariant, PTL DEF TelemetrySpec

-----------------------------------------------------------------------------
(* The abstract cycle *)

\* The telemetry goroutine implements PushCycle, the cycle that Daemon knows it
\* by: the safety part of PushCycleImplemented.
THEOREM CycleTheorem == TelemetrySpec => Cycle!Spec
<1>1. newT => Cycle!Init
  BY DEF newT, Cycle!Init, place
<1>2. TelemetryInv /\ [TelemetryNext]_vars => [Cycle!Next]_place
  <2>. SUFFICES ASSUME TelemetryInv, [TelemetryNext]_vars PROVE Cycle!Next \/ place' = place
    OBVIOUS
  <2>. USE DEF Cycle!Next, Cycle!TimerPush, Cycle!TakeQuit, Cycle!PushEnds, Cycle!SendDone, place
  <2>1. ASSUME UNCHANGED <<pc, quit>> PROVE place' = place
    BY <2>1
  <2>2. CASE AnswerLost \/ \E p \in Recorder : RecorderStep(p)
    BY <2>1, <2>2, LostRecorded, RecorderRecorded DEF Recorded
  <2>3. CASE TimerFires \/ QuitReceived
    <3>1. pc = "select" /\ pc' = "add"
      BY <2>3 DEF TimerFires, QuitReceived, Rotate
    <3>. QED
      BY <3>1
  <2>4. CASE PutTelemetryRecords \/ (\E err \in Errors : PutError(err)) \/ TelemetryDone
    BY <2>4, MoveSteps
  <2>5. CASE AddRecord \/ PutSuccess \/ Requeue
    <3>1. /\ UNCHANGED quit
          /\ pc \in {"add", "call", "requeue"}
          /\ pc' \in {AfterSendAll, "send", "requeue"}
      BY <2>5 DEF AddRecord, PutSuccess, Requeue
    <3>. QED
      BY <3>1 DEF AfterSendAll
  <2>6. CASE UNCHANGED vars
    BY <2>1, <2>6 DEF vars
  <2>. QED
    BY <2>2, <2>3, <2>4, <2>5, <2>6 DEF TelemetryNext, pushDataStep, Exited
<1>. QED
  BY <1>1, <1>2, TelemetryInvariant, PTL DEF TelemetrySpec, Cycle!Spec
=============================================================================
