---------------------------- MODULE SpiController ----------------------------
(***************************************************************************)
(* The SPI controllers of the transaction interface:                       *)
(*   spi_v2_controller.c         commands are queued in a FIFO of the FPGA *)
(*   spi_dual_controller.c       two flash chips driven bit by bit         *)
(*   spi_bs_single_controller.c  one flash chip driven bit by bit          *)
(*                                                                         *)
(* cs    chip select is asserted at the target                             *)
(* chip  spi_dual's chip_selected                                          *)
(* cmds  spi_v2: commands written to the control register and not executed *)
(* words spi_v2: words in the read FIFO                                    *)
(* got   the bytes of the current burst the target has received            *)
(* out   the number of bytes the target has answered in it                 *)
(* gone  the board is off the bus: every register reads as all ones        *)
(***************************************************************************)
EXTENDS Outcomes

\* The device after spi_v2a_controller_init, spi_dual_controller_init and
\* spi_bs_single_data_transport_init.
SpiInit == [cs |-> FALSE, chip |-> FALSE, cmds |-> <<>>, words |-> <<>>,
            got |-> <<>>, out |-> 0, gone |-> FALSE]

ChipSelect(d, on) == IF d.gone THEN d ELSE [d EXCEPT !.cs = on]
-----------------------------------------------------------------------------
(* spi_v2 *)

SpiV2PreBurst(d, flags) == {Ok(ChipSelect(d, TRUE))}

SpiV2PostBurst(d, flags) ==
  {Ok(IF "LEAVE_CS" \in flags THEN d ELSE ChipSelect(d, FALSE))}

SpiV2Queue(d, cmd) == IF d.gone THEN d ELSE [d EXCEPT !.cmds = Append(@, cmd)]

SpiV2WriteShot(d, bytes) == {Ok(SpiV2Queue(d, [op |-> "write", bytes |-> bytes]))}

SpiV2RequestRead(d, n) == {Ok(SpiV2Queue(d, [op |-> "read", n |-> n]))}

\* The register holds the answered bytes right aligned, the first one highest;
\* the shot picks n bytes from the bottom.
SpiV2Extract(word, n) ==
  [i \in 1..n |-> LET k == Len(word) - n + i IN IF k \in DOMAIN word THEN word[k] ELSE 0]

\* spi_v2_read_data_when_valid polls until the read FIFO is not empty.  A board
\* that is gone reads as "FIFO empty" for ever.
SpiV2ReadShot(d, n) ==
  IF d.words = <<>> \/ d.gone THEN {}
  ELSE {OkData([d EXCEPT !.words = Tail(@)], SpiV2Extract(Head(d.words), n))}

SpiV2WaitWritten(d) ==
  IF d.gone THEN {Err(d)} ELSE IF d.cmds = <<>> THEN {Ok(d)} ELSE {}

\* The FPGA executes the oldest command.
SpiV2Execute(d) ==
  LET cmd == Head(d.cmds)
      e == [d EXCEPT !.cmds = Tail(@)]
  IN  IF cmd.op = "write" THEN Received(e, cmd.bytes)
      ELSE Answered([e EXCEPT !.words = Append(@, Positions(d.out, cmd.n))], cmd.n)
-----------------------------------------------------------------------------
(* spi_dual: data access goes with quad mode, chip access with single mode. *)
(* Neither spi_dual nor spi_bs looks at anything the board answers: with a  *)
(* board that is gone every shot succeeds.                                  *)

SpiDualSelect(d, on) ==
  IF on /\ d.chip THEN d ELSE [ChipSelect(d, on) EXCEPT !.chip = on]

SpiDualPreBurst(d, flags) == {Ok(SpiDualSelect(d, TRUE))}

SpiDualPostBurst(d, flags) ==
  {Ok(IF "LEAVE_CS" \in flags THEN d ELSE SpiDualSelect(d, FALSE))}

SpiDualModeOk(flags) == "DATA" \in flags <=> "QUAD" \in flags

\* The two chips take the bytes of a quad write in pairs and the bytes of a chip
\* command one by one, each of them on both chips.  (The odd last byte of a quad
\* write goes with a filler, which is not a byte of the burst.)
SpiDualWriteShot(d, bytes, flags) ==
  IF SpiDualModeOk(flags) THEN {Ok(Driven(d, bytes))} ELSE {Err(d)}

SpiDualReadShot(d, n, flags) ==
  IF SpiDualModeOk(flags) THEN {Sampled(d, n)} ELSE {Err(d)}

\* Mutant of SpiDualAborted: an aborted burst keeps the chips selected.
SpiDualAbortedSelected(d) == d

SpiDualAborted(d) == SpiDualSelect(d, FALSE)
-----------------------------------------------------------------------------
(* spi_bs_single *)

SpiBsPreBurst(d, flags) == {Ok(ChipSelect(d, TRUE))}

SpiBsPostBurst(d, flags) ==
  {Ok(IF "LEAVE_CS" \in flags THEN d ELSE ChipSelect(d, FALSE))}

SpiBsWriteShot(d, bytes) == {Ok(Driven(d, bytes))}

SpiBsReadShot(d, n) == {Sampled(d, n)}
=============================================================================
