------------------------------- MODULE Datagram -------------------------------
(***************************************************************************)
(* How poll() makes a segment of a datagram, byte by byte                  *)
(* (src/cmd/tracing/daemon.go, SplitHeaderBody of src/pkg/util/util.go,    *)
(* src/pkg/tracesegment/tracesegment.go).  Daemon takes the outcome of     *)
(* these steps as a choice: this is what stands behind it.                 *)
(*                                                                         *)
(* A buffer of the pool is used again and again and never cleared, so      *)
(* beyond the datagram it holds bytes of earlier ones.  Header, body and   *)
(* Raw are slices <<lo, hi>>, the bytes lo .. hi - 1 of such a buffer.     *)
(*                                                                         *)
(* pc is where the receiver is: "read" in the socket, "scan" in the loop   *)
(* of SplitHeaderBody, "decide" after it.                                  *)
(***************************************************************************)
EXTENDS Integers, Sequences

CONSTANTS Byte, zero, separator,
          Decode(_),          \* json.Unmarshal into an empty Header
          Buffer,
          receiveBufferSize,
          Datagrams           \* what may arrive

ASSUME ByteAssumption == zero \in Byte /\ separator \in Byte
ASSUME SizeAssumption == receiveBufferSize \in Nat \ {0}
ASSUME DatagramsAssumption ==
  \A d \in Datagrams : d \in Seq(Byte) /\ Len(d) \in 1 .. receiveBufferSize

VARIABLES pc, bufPointer, mem, rlen, i, header, body,
          datagram,  \* what the socket delivered
          sent       \* segments in the pipeline, each with its datagram

vars == <<pc, bufPointer, mem, rlen, i, header, body, datagram, sent>>

Init ==
  /\ pc = "read"
  /\ bufPointer \in Buffer
  /\ mem = [b \in Buffer |-> [k \in 0 .. receiveBufferSize - 1 |-> zero]]
  /\ rlen = 0
  /\ i = 0
  /\ header = <<0, 0>>
  /\ body = <<0, 0>>
  /\ datagram = << >>
  /\ sent = {}

Bytes(b, slice) == [k \in 1 .. slice[2] - slice[1] |-> mem[b][slice[1] + k - 1]]

\* strings.EqualFold(t.Format, "json") && t.Version == 1, for the spellings of
\* Format that occur.
IsValid(h) == h.Format \in {"json", "JSON"} /\ h.Version = 1

\* Mutant of Message: the whole buffer is split, not the bytes that were read.
MessageWhole(d) == receiveBufferSize

\* The length of bufMessage, buf[0:rlen].
Message(d) == Len(d)

\* The pool gives a buffer and a datagram is read into it; SplitHeaderBody
\* starts with everything as the header.
Read ==
  \E b \in Buffer \ {s.PoolBuf : s \in sent}, d \in Datagrams :
    /\ pc = "read"
    /\ bufPointer' = b
    /\ mem' = [mem EXCEPT ![b] =
         [k \in 0 .. receiveBufferSize - 1 |-> IF k < Len(d) THEN d[k + 1] ELSE @[k]]]
    /\ datagram' = d
    /\ rlen' = Message(d)
    /\ i' = 0
    /\ header' = <<0, Message(d)>>
    /\ body' = <<0, 0>>
    /\ pc' = "scan"
    /\ UNCHANGED sent

\* The loop meets the separator.
ScanMatch ==
  /\ pc = "scan"
  /\ mem[bufPointer][i] = separator
  /\ header' = <<0, i>>
  /\ body' = <<i + 1, rlen>>
  /\ pc' = "decide"
  /\ UNCHANGED <<bufPointer, mem, rlen, i, datagram, sent>>

\* It does not; after the last byte there is no body.
ScanNext ==
  /\ pc = "scan"
  /\ mem[bufPointer][i] # separator
  /\ i' = i + 1
  /\ pc' = IF i + 1 < rlen THEN "scan" ELSE "decide"
  /\ UNCHANGED <<bufPointer, mem, rlen, header, body, datagram, sent>>

\* A body and a valid header.
Wellformed == body[2] > body[1] /\ IsValid(Decode(Bytes(bufPointer, header)))

\* Mutant of Decide: a datagram without a body is sent, too.
DecideHeaderOnly ==
  /\ pc = "decide"
  /\ sent' = IF IsValid(Decode(Bytes(bufPointer, header)))
               THEN sent \cup {[Raw |-> body, PoolBuf |-> bufPointer, of |-> datagram]}
               ELSE sent
  /\ pc' = "read"
  /\ UNCHANGED <<bufPointer, mem, rlen, i, header, body, datagram>>

\* The segment goes to the ring buffer, or its buffer back to the pool.
Decide ==
  /\ pc = "decide"
  /\ sent' = IF Wellformed
               THEN sent \cup {[Raw |-> body, PoolBuf |-> bufPointer, of |-> datagram]}
               ELSE sent
  /\ pc' = "read"
  /\ UNCHANGED <<bufPointer, mem, rlen, i, header, body, datagram>>

\* The processor has copied a payload and returned its buffer, at any time.
Release ==
  /\ \E s \in sent : sent' = sent \ {s}
  /\ UNCHANGED <<pc, bufPointer, mem, rlen, i, header, body, datagram>>

Next == Read \/ ScanMatch \/ ScanNext \/ Decide \/ Release

Spec == Init /\ [][Next]_vars

-----------------------------------------------------------------------------
(* Properties *)

\* Datagram d is header h, the separator and body b; the header has no
\* separator.
Splits(d, h, b) ==
  /\ d = h \o <<separator>> \o b
  /\ \A k \in DOMAIN h : h[k] # separator

\* What was split off is the datagram: all of it and nothing that an earlier
\* datagram left in the buffer, cut at its first separator.  Without one the
\* whole datagram is the header.
SplitExact ==
  pc = "decide" =>
    LET h == Bytes(bufPointer, header)
        b == Bytes(bufPointer, body)
    IN  \/ Splits(datagram, h, b)
        \/ /\ h = datagram /\ b = << >>
           /\ \A k \in DOMAIN h : h[k] # separator

\* As long as a segment is in the pipeline its payload is the body of the
\* datagram it was made of, and that datagram had a valid header: reading into
\* other buffers, or into this one after its return, does not show in it.
SegmentExact ==
  \A s \in sent :
    LET b == Bytes(s.PoolBuf, s.Raw) IN
    /\ b # << >>
    /\ Len(b) < Len(s.of)
    /\ LET h == SubSeq(s.of, 1, Len(s.of) - Len(b) - 1)
       IN  Splits(s.of, h, b) /\ IsValid(Decode(h))
=============================================================================
