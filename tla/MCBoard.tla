------------------------------ MODULE MCBoard -------------------------------
(* A board of each family and two processes. *)
EXTENDS Board

MCBoards == {"b5", "b6"}
MCFamily == [b5 |-> "me5", b6 |-> "me6"]
MCProcs == {"p1", "p2"}
MCMaxFiles == [p1 |-> 2, p2 |-> 1]
=============================================================================
