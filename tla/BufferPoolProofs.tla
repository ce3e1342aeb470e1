--------------------------- MODULE BufferPoolProofs ---------------------------
(***************************************************************************)
(* Proofs about BufferPool: the pool stays consistent against every client *)
(* (PoolStaysConsistent), and what Get and Return do to the set of buffers *)
(* in a consistent pool, which the proofs about RingBuffer and Daemon rest *)
(* on.                                                                     *)
(***************************************************************************)
EXTENDS BufferPool, FiniteSetTheorems, TLAPS

\* A sequence without repetitions over a finite set is no longer than the set.
LEMMA DistinctSeqBound ==
  ASSUME NEW S, IsFiniteSet(S), NEW q \in Seq(S),
         \A i, j \in DOMAIN q : q[i] = q[j] => i = j
  PROVE  Len(q) <= Cardinality(S)
<1>1. q \in Injection(1 .. Len(q), S)
  BY DEF Injection, IsInjective
<1>2. Cardinality(1 .. Len(q)) <= Cardinality(S)
  BY <1>1, FS_Injection
<1>3. 1 \in Int /\ Len(q) \in Int /\ Len(q) >= 0
  OBVIOUS
<1>4. Cardinality(1 .. Len(q)) = IF 1 > Len(q) THEN 0 ELSE Len(q) - 1 + 1
  BY <1>3, FS_Interval
<1> QED
  BY <1>2, <1>3, <1>4

\* The pool has exactly bufferLimit buffers.
LEMMA BufferCardinality == IsFiniteSet(Buffer) /\ Cardinality(Buffer) = bufferLimit
BY FS_Interval, bufferLimitAssumption DEF Buffer

-----------------------------------------------------------------------------
\* Get on a consistent pool takes the answered buffer out of it, or answers
\* nil when the pool is empty.
LEMMA GetEffect ==
  ASSUME PoolTypeOK, PoolConsistent, NEW buf, Get(buf)
  PROVE  /\ PoolTypeOK'
         /\ PoolConsistent'
         /\ \/ buf \in InPool /\ InPool' = InPool \ {buf}
            \/ buf = nil /\ InPool = {} /\ InPool' = InPool
<1> USE DEF PoolTypeOK, PoolConsistent, HashMatchesStack, NoDuplicates, WithinLimit, InPool
<1>1. CASE Buffers = << >>
  <2>1. buf = nil /\ UNCHANGED poolVars
    BY <1>1 DEF Get
  <2> QED
    BY <1>1, <2>1 DEF poolVars
<1>2. CASE Buffers # << >>
  <2>1. /\ buf = Buffers[Len(Buffers)]
        /\ Buffers' = SubSeq(Buffers, 1, Len(Buffers) - 1)
        /\ bufferHeadHash' = bufferHeadHash \ {buf}
    BY <1>2 DEF Get
  <2>2. /\ Len(Buffers) \in Nat
        /\ Len(Buffers) >= 1
        /\ DOMAIN Buffers = 1 .. Len(Buffers)
    BY <1>2
  <2>3. /\ Buffers' \in Seq(Buffer \cup Foreign)
        /\ Len(Buffers') = Len(Buffers) - 1
        /\ DOMAIN Buffers' = 1 .. Len(Buffers) - 1
        /\ \A i \in 1 .. Len(Buffers) - 1 : Buffers'[i] = Buffers[i]
    BY <2>1, <2>2
  <2>4. ASSUME NEW b PROVE b \in InPool' <=> b \in InPool \ {buf}
    <3>1. b \in InPool' <=> \E i \in 1 .. Len(Buffers) - 1 : b = Buffers[i]
      BY <2>3
    <3>2. b \in InPool <=> \E i \in 1 .. Len(Buffers) : b = Buffers[i]
      BY <2>2
    <3> QED
      BY <2>1, <2>2, <3>1, <3>2
  <2>5. InPool' = InPool \ {buf}
    BY <2>4
  <2>6. buf \in InPool
    BY <2>1, <2>2
  <2>7. PoolTypeOK' /\ HashMatchesStack'
    BY <2>1, <2>3, <2>5
  <2>8. NoDuplicates' /\ WithinLimit'
    BY <2>2, <2>3, bufferLimitAssumption
  <2> QED
    BY <2>5, <2>6, <2>7, <2>8
<1> QED
  BY <1>1, <1>2

\* Return keeps the pool consistent whatever the client gives back.
LEMMA ReturnConsistent ==
  ASSUME PoolTypeOK, PoolConsistent, NEW buf \in Buffer \cup Foreign, Return(buf)
  PROVE  PoolTypeOK' /\ PoolConsistent'
<1> USE DEF PoolTypeOK, PoolConsistent, HashMatchesStack, NoDuplicates, WithinLimit, InPool
<1>1. CASE Accepts(buf)
  <2>1. /\ Buffers' = Append(Buffers, buf)
        /\ bufferHeadHash' = bufferHeadHash \cup {buf}
        /\ buf \notin bufferHeadHash
        /\ Len(Buffers) < bufferLimit
    BY <1>1 DEF Return, Accepts, isBufferAlreadyInPool
  <2>2. /\ Buffers' \in Seq(Buffer \cup Foreign)
        /\ Len(Buffers') = Len(Buffers) + 1
        /\ DOMAIN Buffers' = 1 .. Len(Buffers) + 1
        /\ DOMAIN Buffers = 1 .. Len(Buffers)
        /\ \A i \in 1 .. Len(Buffers) : Buffers'[i] = Buffers[i]
        /\ Buffers'[Len(Buffers) + 1] = buf
        /\ Len(Buffers) \in Nat
    BY <2>1
  <2>3. InPool' = InPool \cup {buf}
    BY <2>2
  <2>4. NoDuplicates'
    BY <2>1, <2>2
  <2> QED
    BY <2>1, <2>2, <2>3, <2>4, bufferLimitAssumption
<1>2. CASE ~Accepts(buf)
  BY <1>2 DEF Return, poolVars
<1> QED
  BY <1>1, <1>2

\* A pool without foreign buffers has room for every buffer it is missing:
\* Return never drops a buffer that one of the daemon's goroutines holds.
LEMMA ReturnEffect ==
  ASSUME PoolTypeOK, PoolConsistent, InPool \subseteq Buffer,
         NEW buf \in Buffer, buf \notin InPool, Return(buf)
  PROVE  InPool' = InPool \cup {buf}
<1>1. Buffers \in Seq(Buffer \ {buf})
  BY DEF PoolTypeOK, InPool
<1>2. Len(Buffers) <= Cardinality(Buffer \ {buf})
  BY <1>1, DistinctSeqBound, BufferCardinality, FS_RemoveElement
     DEF PoolConsistent, NoDuplicates
<1>3. Cardinality(Buffer \ {buf}) = bufferLimit - 1
  BY BufferCardinality, FS_RemoveElement
<1>4. Len(Buffers) \in Nat
  BY DEF PoolTypeOK
<1>5. Len(Buffers) < bufferLimit
  BY <1>2, <1>3, <1>4, bufferLimitAssumption
<1>6. Buffers' = Append(Buffers, buf)
  BY <1>5 DEF Return, Accepts, isBufferAlreadyInPool, PoolConsistent, HashMatchesStack
<1> QED
  BY <1>6 DEF PoolTypeOK, InPool

-----------------------------------------------------------------------------
(* Sequences of segments: the buffers they hold. *)

Bufs(q) == {q[i].PoolBuf : i \in DOMAIN q}

Distinct(q) == \A i, j \in DOMAIN q : q[i].PoolBuf = q[j].PoolBuf => i = j

\* Appending a segment adds its buffer, and keeps buffers distinct if it is new.
LEMMA AppendBufs ==
  ASSUME NEW Segment, NEW q \in Seq(Segment), NEW e \in Segment
  PROVE  /\ Append(q, e) \in Seq(Segment)
         /\ Bufs(Append(q, e)) = Bufs(q) \cup {e.PoolBuf}
         /\ Distinct(q) /\ e.PoolBuf \notin Bufs(q) => Distinct(Append(q, e))
<1>1. /\ Append(q, e) \in Seq(Segment)
      /\ Len(q) \in Nat
      /\ DOMAIN q = 1 .. Len(q)
      /\ DOMAIN Append(q, e) = 1 .. Len(q) + 1
      /\ \A i \in 1 .. Len(q) : Append(q, e)[i] = q[i]
      /\ Append(q, e)[Len(q) + 1] = e
  OBVIOUS
<1>2. Bufs(Append(q, e)) = Bufs(q) \cup {e.PoolBuf}
  BY <1>1 DEF Bufs
<1>3. Distinct(q) /\ e.PoolBuf \notin Bufs(q) => Distinct(Append(q, e))
  BY <1>1 DEF Bufs, Distinct
<1> QED
  BY <1>1, <1>2, <1>3

\* Taking the oldest segment removes exactly its buffer from a sequence whose
\* buffers are distinct.
LEMMA TailBufs ==
  ASSUME NEW Segment, NEW q \in Seq(Segment), q # << >>, Distinct(q)
  PROVE  /\ Tail(q) \in Seq(Segment)
         /\ Head(q) \in Segment
         /\ Head(q).PoolBuf \in Bufs(q)
         /\ Bufs(Tail(q)) = Bufs(q) \ {Head(q).PoolBuf}
         /\ Distinct(Tail(q))
<1>1. /\ Tail(q) \in Seq(Segment)
      /\ Head(q) = q[1]
      /\ Len(q) \in Nat \ {0}
      /\ DOMAIN q = 1 .. Len(q)
      /\ DOMAIN Tail(q) = 1 .. Len(q) - 1
      /\ \A i \in 1 .. Len(q) - 1 : Tail(q)[i] = q[i + 1]
  OBVIOUS
<1>2. ASSUME NEW b PROVE b \in Bufs(Tail(q)) <=> b \in Bufs(q) /\ b # Head(q).PoolBuf
  <2>1. ASSUME b \in Bufs(Tail(q)) PROVE b \in Bufs(q) /\ b # Head(q).PoolBuf
    <3>1. PICK i \in 1 .. Len(q) - 1 : b = q[i + 1].PoolBuf
      BY <1>1, <2>1 DEF Bufs
    <3>2. i + 1 \in DOMAIN q /\ i + 1 # 1 /\ 1 \in DOMAIN q
      BY <1>1
    <3> QED
      BY <1>1, <3>1, <3>2 DEF Bufs, Distinct
  <2>2. ASSUME b \in Bufs(q), b # Head(q).PoolBuf PROVE b \in Bufs(Tail(q))
    <3>1. PICK i \in 1 .. Len(q) : b = q[i].PoolBuf
      BY <1>1, <2>2 DEF Bufs
    <3>2. i - 1 \in 1 .. Len(q) - 1 /\ (i - 1) + 1 = i
      BY <1>1, <2>2, <3>1
    <3> QED
      BY <1>1, <3>1, <3>2 DEF Bufs
  <2> QED
    BY <2>1, <2>2
<1>3. Bufs(Tail(q)) = Bufs(q) \ {Head(q).PoolBuf}
  BY <1>2
<1>4. Distinct(Tail(q))
  BY <1>1 DEF Distinct
<1>5. Head(q) \in Segment /\ Head(q).PoolBuf \in Bufs(q)
  BY <1>1 DEF Bufs
<1> QED
  BY <1>1, <1>3, <1>4, <1>5

-----------------------------------------------------------------------------
\* bufferpool.Init makes a consistent pool.
LEMMA PoolInitConsistent == PoolInit => PoolTypeOK /\ PoolConsistent
<1> SUFFICES ASSUME PoolInit PROVE PoolTypeOK /\ PoolConsistent
  OBVIOUS
<1>1. Buffers \in Seq(Buffer) /\ Len(Buffers) = bufferLimit /\ DOMAIN Buffers = Buffer
  BY bufferLimitAssumption DEF PoolInit, Buffer
<1> QED
  BY <1>1, bufferLimitAssumption DEF PoolInit, PoolTypeOK, PoolConsistent,
     HashMatchesStack, NoDuplicates, WithinLimit, InPool

\* Against clients that return buffers twice, buffers of others and buffers of
\* their own, the map and the slice of the pool agree, no buffer is in the pool
\* twice and the slice does not outgrow the limit, for every bufferLimit.
THEOREM PoolStaysConsistent == PoolSpec => []PoolConsistent
<1>1. PoolInit => PoolTypeOK /\ PoolConsistent
  BY PoolInitConsistent
<1>2. PoolTypeOK /\ PoolConsistent /\ [PoolNext]_poolVars => (PoolTypeOK /\ PoolConsistent)'
  <2> SUFFICES ASSUME PoolTypeOK, PoolConsistent, [PoolNext]_poolVars
               PROVE  (PoolTypeOK /\ PoolConsistent)'
    OBVIOUS
  <2>1. CASE ClientGet
    BY <2>1, GetEffect DEF ClientGet
  <2>2. CASE ClientReturn
    BY <2>2, ReturnConsistent DEF ClientReturn
  <2>3. CASE UNCHANGED poolVars
    BY <2>3 DEF poolVars, PoolTypeOK, PoolConsistent, HashMatchesStack,
       NoDuplicates, WithinLimit, InPool
  <2> QED
    BY <2>1, <2>2, <2>3 DEF PoolNext
<1> QED
  BY <1>1, <1>2, PTL DEF PoolSpec
=============================================================================
