------------------------------ MODULE Outcomes ------------------------------
(***************************************************************************)
(* What a function of a transaction controller may do to its device.  A    *)
(* handler is an operator from a device record to the SET of its outcomes: *)
(* the device it leaves behind, whether it returns STATUS_OK, and the      *)
(* bytes a read returned.  The empty set is a busy wait that has not been  *)
(* satisfied yet.                                                          *)
(***************************************************************************)
EXTENDS Naturals, Sequences

Ok(d) == [d |-> d, ok |-> TRUE, data |-> <<>>]
Err(d) == [d |-> d, ok |-> FALSE, data |-> <<>>]
OkData(d, bytes) == [d |-> d, ok |-> TRUE, data |-> bytes]

\* The bytes from + 1, ..., from + n of a burst, named by their position in it.
Positions(from, n) == [i \in 1..n |-> from + i]

Smaller(m, n) == IF m < n THEN m ELSE n

\* A target that has taken the bytes of one more shot, and one that has
\* answered n more bytes.
Received(d, bytes) == [d EXCEPT !.got = @ \o bytes]
Answered(d, n) == [d EXCEPT !.out = @ + n]

\* Registers written and read without a look at any status.  A board that is off the
\* bus takes nothing and answers all ones, which are no bytes of the target.
NoByte == 0
Driven(d, bytes) == IF d.gone THEN d ELSE Received(d, bytes)
Sampled(d, n) ==
  IF d.gone THEN OkData(d, [i \in 1..n |-> NoByte])
  ELSE OkData(Answered(d, n), Positions(d.out, n))
=============================================================================
