---------------------------- MODULE I2cController ----------------------------
(***************************************************************************)
(* i2c_master_core.c and i2c_bus_controller.c: one master core in the FPGA *)
(* serves several busses (banks), one of which is active at a time.        *)
(*                                                                         *)
(* bus   active_bus, a bank or NoBus                                       *)
(* en    the core is enabled (control register)                            *)
(* act   the bank activation bit that the address register holds           *)
(* busy  for each bank: a START was sent and no STOP yet                   *)
(* stuck a STOP condition timed out at the hardware                        *)
(* gone  the board is off the bus: every register reads as all ones, which *)
(*       mean an enabled core with a transfer in progress on a busy bus    *)
(***************************************************************************)
EXTENDS Outcomes

CONSTANTS
  Busses,          \* the configured banks (bus_frequency # 0)
  Activated,       \* the banks with a bank_activation_bit
  NoBus            \* active_bus = NULL

ASSUME I2cAssumption == NoBus \notin Busses

\* After i2c_master_core_init on an idle core and i2c_master_core_configure_bus.
I2cInit == [bus |-> NoBus, en |-> TRUE, act |-> FALSE, busy |-> [b \in Busses |-> FALSE],
            stuck |-> FALSE, got |-> <<>>, out |-> 0, gone |-> FALSE]

\* Every access to a core register goes through the address register, which takes
\* the bank number and the activation bit of the active bus along.
Access(d) == IF d.gone THEN d ELSE [d EXCEPT !.act = d.bus \in Activated]

\* activate_i2c_core_on_bank
ActivateCore(d, on) ==
  IF d.bus \in Activated /\ ~d.gone THEN [d EXCEPT !.act = on] ELSE d

\* write_stop waits 100 ms for the bus to become idle.  Its result (which calls the
\* timeout a success) is used by nothing but the log and i2c_master_core_init.
WriteStop(d) ==
  IF d.bus = NoBus \/ d.gone THEN {d}
  ELSE {[Access(d) EXCEPT !.busy[d.bus] = FALSE]}
       \cup (IF d.busy[d.bus] THEN {[Access(d) EXCEPT !.stuck = TRUE]} ELSE {})

\* Without an active bus the status read is that of bank 0, where nothing has been
\* started yet.
StopIfBusy(d) ==
  IF d.bus # NoBus /\ d.busy[d.bus] THEN WriteStop(Access(d)) ELSE {Access(d)}

\* Mutant of DisableCore: a transfer under way is not stopped.
DisableCoreBusy(d) == {[Access(d) EXCEPT !.en = FALSE]}

DisableCore(d) ==
  IF d.en /\ ~d.gone THEN {[e EXCEPT !.en = FALSE] : e \in StopIfBusy(Access(d))} ELSE {Access(d)}

EnableCore(d) == StopIfBusy([d EXCEPT !.en = TRUE])

\* A bank that was never configured is refused with a log entry only: the bus of
\* the transaction before stays active.
ActivateBank(d, b) ==
  IF b \notin Busses \/ d.bus = b THEN {d}
  ELSE UNION {EnableCore(Access([e EXCEPT !.bus = b])) : e \in DisableCore(d)}

I2cBegin(d, b) == {ActivateCore(e, TRUE) : e \in ActivateBank(d, b)}
I2cEnd(d) == ActivateCore(d, FALSE)

\* One byte on the wire: START before it, STOP after it.  A transfer that times out
\* has not reached its STOP.
OnWire(d, cmds, done) ==
  [Access(d) EXCEPT !.busy[d.bus] =
     IF done /\ "STOP" \in cmds THEN FALSE ELSE @ \/ "START" \in cmds]

\* write_byte: the slave acknowledges, does not, or the transfer times out.
I2cWriteShot(d, bytes, cmds) ==
  IF d.bus = NoBus \/ d.gone THEN {Err(d)}
  ELSE {Ok(Received(OnWire(d, cmds, TRUE), bytes)),
        Err(OnWire(d, cmds, TRUE)), Err(OnWire(d, cmds, FALSE))}

I2cReadShot(d, cmds) ==
  IF d.bus = NoBus \/ d.gone THEN {Err(d)}
  ELSE {OkData(Answered(OnWire(d, cmds, TRUE), 1), Positions(d.out, 1)),
        Err(OnWire(d, cmds, FALSE))}

\* The commands that go with a byte.
WriteCmds(flags, first, last) ==
  {c \in flags : (c = "START" /\ first) \/ (c = "STOP" /\ last)}
ReadCmds(flags, last) == {c \in flags : c \in {"NACK", "STOP"} /\ last}

I2cAborted(d) == {ActivateCore(e, FALSE) : e \in WriteStop(d)}
=============================================================================
