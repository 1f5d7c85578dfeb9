-------------------------------- MODULE MCUiq --------------------------------
(***************************************************************************)
(* The kinds of queues that boards declare, for the configurations of Uiq. *)
(***************************************************************************)
EXTENDS Uiq

DeclaredKinds ==
  ReadKinds \cup {[board |-> "me5", type |-> "WRITE_LEGACY", protocol |-> "RAW"],
                  [board |-> "me6", type |-> "WRITE_LEGACY", protocol |-> "RAW"],
                  [board |-> "me6", type |-> "WRITE_CXP", protocol |-> "RAW"]}

CxpKinds == {k \in DeclaredKinds : k.type = "WRITE_CXP"}
=============================================================================
