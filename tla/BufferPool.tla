------------------------------ MODULE BufferPool ------------------------------
(***************************************************************************)
(* The pool of receive buffers (src/pkg/bufferpool/bufferpool.go).         *)
(*                                                                         *)
(* Buffers is the slice b.Buffers, used as a stack, and bufferHeadHash the *)
(* set of the buffers in it, kept as a map from the address of a buffer's  *)
(* first byte.  A buffer is identified by that address.  The slice is made *)
(* once with capacity bufferLimit and only ever shortened from the right,  *)
(* so its capacity stays bufferLimit.  Every method runs under b.lock and  *)
(* is one atomic step.                                                     *)
(*                                                                         *)
(* PoolSpec runs the pool alone, against clients that keep none of the     *)
(* rules: they return buffers they do not own, twice, or buffers that the  *)
(* pool never made (a receiver's fallback buffer is such a buffer).        *)
(***************************************************************************)
EXTENDS Integers, Sequences, FiniteSets

CONSTANTS bufferLimit,  \* number of buffers the pool is created with
          Foreign       \* buffers of clients that are not from the pool

Buffer == 1 .. bufferLimit

\* Get returns nil when the pool is empty.
nil == 0

ASSUME bufferLimitAssumption == bufferLimit \in Nat \ {0}
ASSUME ForeignAssumption == Foreign \cap (Buffer \cup {nil}) = {}

VARIABLES Buffers, bufferHeadHash

poolVars == <<Buffers, bufferHeadHash>>

PoolInit ==
  /\ Buffers = [i \in Buffer |-> i]
  /\ bufferHeadHash = Buffer

\* Get takes the buffer on top of the stack, or answers nil and changes nothing.
Get(buf) ==
  \/ /\ Buffers # << >>
     /\ buf = Buffers[Len(Buffers)]
     /\ Buffers' = SubSeq(Buffers, 1, Len(Buffers) - 1)
     /\ bufferHeadHash' = bufferHeadHash \ {buf}
  \/ /\ Buffers = << >>
     /\ buf = nil
     /\ UNCHANGED poolVars

isBufferAlreadyInPool(buf) == buf \in bufferHeadHash

\* Mutant of Accepts: only the capacity is tested.
AcceptsAgain(buf) == Len(Buffers) < bufferLimit

\* A full pool drops the buffer; so does a pool that already has it.
Accepts(buf) == ~isBufferAlreadyInPool(buf) /\ Len(Buffers) < bufferLimit

Return(buf) ==
  IF Accepts(buf)
    THEN /\ Buffers' = Append(Buffers, buf)
         /\ bufferHeadHash' = bufferHeadHash \cup {buf}
    ELSE UNCHANGED poolVars

CurrentBuffersLen == Len(Buffers)

(***************************************************************************)
(* The pool alone, with arbitrary clients.                                 *)
(***************************************************************************)
ClientGet == \E buf \in Buffer \cup Foreign \cup {nil} : Get(buf)

ClientReturn == \E buf \in Buffer \cup Foreign : Return(buf)

PoolNext == ClientGet \/ ClientReturn

PoolSpec == PoolInit /\ [][PoolNext]_poolVars

-----------------------------------------------------------------------------
PoolTypeOK ==
  /\ Buffers \in Seq(Buffer \cup Foreign)
  /\ bufferHeadHash \subseteq Buffer \cup Foreign

\* The buffers in the stack.
InPool == {Buffers[i] : i \in DOMAIN Buffers}

\* The map b.bufferHeadHash is what Return consults instead of scanning the
\* slice: it must hold exactly the buffers of the slice, or a buffer is
\* refused although it is not there, or taken twice and handed to two callers.
HashMatchesStack == bufferHeadHash = InPool

\* No buffer is in the stack twice: two calls of Get never answer the same
\* buffer without a Return in between, whatever clients return.
NoDuplicates ==
  \A i, j \in DOMAIN Buffers : Buffers[i] = Buffers[j] => i = j

\* Return's capacity test keeps append from growing the slice, which would
\* raise the memory limit the operator asked for.
WithinLimit == Len(Buffers) <= bufferLimit

PoolConsistent == HashMatchesStack /\ NoDuplicates /\ WithinLimit
=============================================================================
