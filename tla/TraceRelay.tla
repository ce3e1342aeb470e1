------------------------------ MODULE TraceRelay ------------------------------
(***************************************************************************)
(* What the daemon promises for the segments it accepts, without pool,     *)
(* channels and goroutines: a lossy relay.  A segment is taken or refused, *)
(* once.  The segments taken wait in the order in which they were; the     *)
(* oldest of them leave in groups, the groups wait in turn, and the oldest *)
(* group is either uploaded, by one call that carries it as it is, or      *)
(* spilled over.  No segment is duplicated, overtakes another on its way   *)
(* to a call or is changed, and the relay stops only when it has nothing   *)
(* left.                                                                   *)
(***************************************************************************)
EXTENDS Integers, Sequences

CONSTANTS Segment, MaxBatch, Uploader

VARIABLES decided,    \* segments that were taken or refused
          waiting,    \* segments not yet in a group, oldest first
          groups,     \* groups not yet in a call, oldest first
          uploading,  \* the group in the call of each uploader
          stopped

relayVars == <<decided, waiting, groups, uploading, stopped>>

RelayInit ==
  /\ decided = {}
  /\ waiting = << >>
  /\ groups = << >>
  /\ uploading = [u \in Uploader |-> << >>]
  /\ stopped = FALSE

Decide(p) == p \notin decided /\ decided' = decided \cup {p}

Take(p) ==
  /\ ~stopped
  /\ Decide(p)
  /\ waiting' = Append(waiting, p)
  /\ UNCHANGED <<groups, uploading, stopped>>

Refuse(p) == Decide(p) /\ UNCHANGED <<waiting, groups, uploading, stopped>>

\* The n oldest segments become a group.
Cut(n) ==
  /\ n <= Len(waiting)
  /\ groups' = Append(groups, SubSeq(waiting, 1, n))
  /\ waiting' = SubSeq(waiting, n + 1, Len(waiting))
  /\ UNCHANGED <<decided, uploading, stopped>>

TakeGroup == groups # << >> /\ groups' = Tail(groups)

StartUpload(u) ==
  /\ uploading[u] = << >>
  /\ TakeGroup
  /\ uploading' = [uploading EXCEPT ![u] = Head(groups)]
  /\ UNCHANGED <<decided, waiting, stopped>>

EndUpload(u) ==
  /\ uploading[u] # << >>
  /\ uploading' = [uploading EXCEPT ![u] = << >>]
  /\ UNCHANGED <<decided, waiting, groups, stopped>>

Spill == TakeGroup /\ UNCHANGED <<decided, waiting, uploading, stopped>>

\* Everything has left the relay.
StopRelay ==
  /\ waiting = << >>
  /\ groups = << >>
  /\ \A u \in Uploader : uploading[u] = << >>
  /\ stopped' = TRUE
  /\ UNCHANGED <<decided, waiting, groups, uploading>>

RelayNext ==
  \/ \E p \in Segment : Take(p) \/ Refuse(p)
  \/ \E n \in 1 .. MaxBatch : Cut(n)
  \/ \E u \in Uploader : StartUpload(u) \/ EndUpload(u)
  \/ Spill
  \/ StopRelay

RelaySpec == RelayInit /\ [][RelayNext]_relayVars
=============================================================================
