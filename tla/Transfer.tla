------------------------------ MODULE Transfer ------------------------------
(***************************************************************************)
(* What controller_base.h promises of write_burst and read_burst: a burst  *)
(* moves the bytes of one buffer between the caller and the target, in     *)
(* order, and reports STATUS_OK only when every one of them has moved.     *)
(***************************************************************************)
EXTENDS Naturals, Sequences

CONSTANT MaxLen     \* longest buffer

VARIABLES
  size,             \* bytes of the burst under way, 0 if there is none
  moved,            \* the bytes that have reached the other side, in order of arrival
  status            \* "run", or how the last burst ended

tvars == <<size, moved, status>>

TransferInit == size = 0 /\ moved = <<>> /\ status = "ok"

\* The caller starts a burst of n bytes.
Start ==
  /\ size = 0
  /\ size' \in 1..MaxLen
  /\ moved' = <<>>
  /\ status' = "run"

\* The next k bytes reach the other side.
Move ==
  /\ size > 0
  /\ \E k \in 1..(size - Len(moved)) :
       moved' = moved \o [i \in 1..k |-> Len(moved) + i]
  /\ UNCHANGED <<size, status>>

\* The burst returns.
Return ==
  /\ size > 0
  /\ \/ status' = "ok" /\ Len(moved) = size
     \/ status' = "error"
  /\ size' = 0 /\ moved' = <<>>

\* A request that moves no bytes has a result too.
Other ==
  /\ size = 0
  /\ status' \in {"ok", "error"}
  /\ UNCHANGED <<size, moved>>

TransferNext == Start \/ Move \/ Return \/ Other

TransferSpec == TransferInit /\ [][TransferNext]_tvars
=============================================================================
