------------------------------ MODULE MCAlarms ------------------------------
(* Two threads of one process: one waits for notifications, one resets them. *)
EXTENDS Alarms

MCWaiters == {"c1"}
MCResetters == {"c2"}
MCParent == [c \in Clients |-> "p"]
MCFamilies == {"me5", "me6"}
MCMaxRaises == [me5 |-> 1, me6 |-> 2]
=============================================================================
