---------------------------- MODULE JtagController ----------------------------
(***************************************************************************)
(* jtag_controller.c drives the test access port (TAP) of the FPGAs by     *)
(* shifting TMS bits, and remembers in self->state where it left the TAP.  *)
(*                                                                         *)
(* state  self->state                                                      *)
(* tap    the state the TAP is really in (IEEE 1149.1)                     *)
(* rbits  read_buffer_valid_bits, 0 if there is no read_buffer             *)
(* tbits  tms_buffer_valid_bits, 0 if there is no tms_buffer               *)
(* bits   lengths_in_bits if use_bits_length, else 0                       *)
(* gone   the control register reads as all ones                           *)
(***************************************************************************)
EXTENDS Outcomes, FiniteSets

\* The state diagram of the TAP controller: where TMS low and TMS high lead to.
TapStep ==
  [Reset     |-> <<"Idle", "Reset">>,        Idle      |-> <<"Idle", "SelectDR">>,
   SelectDR  |-> <<"CaptureDR", "SelectIR">>, SelectIR |-> <<"CaptureIR", "Reset">>,
   CaptureDR |-> <<"ShiftDR", "Exit1DR">>,   CaptureIR |-> <<"ShiftIR", "Exit1IR">>,
   ShiftDR   |-> <<"ShiftDR", "Exit1DR">>,   ShiftIR   |-> <<"ShiftIR", "Exit1IR">>,
   Exit1DR   |-> <<"PauseDR", "UpdateDR">>,  Exit1IR   |-> <<"PauseIR", "UpdateIR">>,
   PauseDR   |-> <<"PauseDR", "Exit2DR">>,   PauseIR   |-> <<"PauseIR", "Exit2IR">>,
   Exit2DR   |-> <<"ShiftDR", "UpdateDR">>,  Exit2IR   |-> <<"ShiftIR", "UpdateIR">>,
   UpdateDR  |-> <<"Idle", "SelectDR">>,     UpdateIR  |-> <<"Idle", "SelectDR">>]

TapStates == DOMAIN TapStep
Clock(tap, tms) ==
  LET at[i \in 0..Len(tms)] == IF i = 0 THEN tap ELSE TapStep[at[i - 1]][tms[i] + 1]
  IN  at[Len(tms)]

\* The TAP states each value of self->state may stand for.
Meaning(state) ==
  CASE state = "INVALID"  -> TapStates
    [] state = "RESET"    -> {"Reset"}
    [] state = "IDLE"     -> {"Idle"}
    [] state = "SHIFT_DR" -> {"ShiftDR"}
    [] state = "SHIFT_IR" -> {"ShiftIR"}
    [] state = "EXIT"     -> {"Exit1DR", "Exit1IR"}

\* jtag_controller_init; nothing is known of the TAP.
JtagInit(tap) == [state |-> "INVALID", tap |-> tap, rbits |-> 0, tbits |-> 0,
                  bits |-> 0, gone |-> FALSE, got |-> <<>>, out |-> 0]
-----------------------------------------------------------------------------
(* set_state: the TMS bits from one state to another.  The switch of the   *)
(* code falls through from INVALID to RESET to IDLE, so those paths are    *)
(* concatenations.                                                         *)

FromIdle(target) ==
  CASE target = "IDLE"     -> <<>>
    [] target = "SHIFT_DR" -> <<1, 0, 0>>
    [] target = "SHIFT_IR" -> <<1, 1, 0, 0>>
    [] target = "RESET"    -> <<1, 1, 1>>

FromReset(target) == IF target = "RESET" THEN <<>> ELSE <<0>> \o FromIdle(target)

FromShift(source, target) ==
  IF target = source THEN <<>>
  ELSE CASE target = "IDLE"     -> <<1, 1, 0>>
         [] target = "RESET"    -> <<1, 1, 1, 1, 1>>
         [] target = "SHIFT_IR" -> <<1, 1, 1, 1, 0, 0>>
         [] target = "SHIFT_DR" -> <<1, 1, 1, 0, 0>>

FromExit(target) ==
  CASE target = "IDLE"     -> <<1, 0>>
    [] target = "SHIFT_DR" -> <<1, 1, 0, 0>>
    [] target = "SHIFT_IR" -> <<1, 1, 1, 0, 0>>
    [] target = "RESET"    -> <<1, 1, 1, 1>>

TmsPath(source, target) ==
  CASE source = "INVALID" -> <<1, 1, 1, 1, 1>> \o FromReset(target)
    [] source = "RESET"   -> FromReset(target)
    [] source = "IDLE"    -> FromIdle(target)
    [] source = "EXIT"    -> FromExit(target)
    [] OTHER              -> FromShift(source, target)

\* The shift loop sends the bits that do not fill a word first, then words of 16.
\* TMS is low, except for the last bit of the last word, unless the data goes out
\* in the idle state.
WordBits(left) == IF left % 16 = 0 THEN 16 ELSE left % 16

\* Mutant of WordTms: every word ends with TMS high.
WordTmsEach(left, state) ==
  [i \in 1..WordBits(left) |-> IF state # "IDLE" /\ i = WordBits(left) THEN 1 ELSE 0]

WordTms(left, state) ==
  [i \in 1..WordBits(left) |->
     IF left <= 16 /\ state # "IDLE" /\ i = WordBits(left) THEN 1 ELSE 0]

ShiftTms(nbits, state) ==
  LET tms[left \in 0..nbits] ==
        IF left = 0 THEN <<>> ELSE WordTms(left, state) \o tms[left - WordBits(left)]
  IN  tms[nbits]

SetState(d, target) ==
  LET path == TmsPath(d.state, target)
  IN  IF d.gone /\ path # <<>> THEN {Err(d)}
      ELSE {Ok([d EXCEPT !.state = target, !.tap = Clock(@, path)])}
-----------------------------------------------------------------------------
(* write and read; b is the burst whose flags they get *)

JtagReadModes == {"ZEROES", "ONES"}

\* Exactly one unit of length, and either a state or raw mode.
JtagFlagsOk(b) ==
  /\ Cardinality(b.flags \cap {"BITS", "BYTES"}) = 1
  /\ b.state = "NONE" <=> "RAW" \in b.flags
  /\ ~(JtagReadModes \subseteq b.flags)

LengthInBits(b, length) == IF "BITS" \in b.flags THEN length ELSE 8 * length

\* The shift loop of write: captured data replaces the read buffer.  In raw mode
\* the caller's TMS bits may take the TAP anywhere, and the TMS buffer is used up.
Shift(d, n, b) ==
  IF d.gone THEN {Err([d EXCEPT !.rbits = 0])}
  ELSE IF "RAW" \in b.flags
  THEN {Ok([d EXCEPT !.state = "INVALID", !.tap = tap, !.rbits = n, !.tbits = 0])
        : tap \in TapStates}
  ELSE {Ok([d EXCEPT !.state = IF b.state = "IDLE" THEN @ ELSE "EXIT",
                     !.tap = Clock(@, ShiftTms(n, b.state)), !.rbits = n])}

\* After a failed set_state nothing is shifted.
JtagWriteInState(d, n, b) ==
  IF b.state \notin {"IDLE", "SHIFT_DR", "SHIFT_IR"} THEN {Err(d)}
  ELSE UNION {IF o.ok THEN Shift(o.d, n, b) ELSE {o} : o \in SetState(d, b.state)}

JtagWriteRaw(d, n, b) ==
  LET withTms == [d EXCEPT !.tbits = n]
      dummy == b.flags \cap JtagReadModes # {}
  IN  CASE dummy                            -> Shift(withTms, n, b)
        [] ~dummy /\ "TMS" \in b.flags      -> {Ok(withTms)}
        [] ~dummy /\ "TMS" \notin b.flags /\ d.tbits = n /\ n > 0 -> Shift(d, n, b)
        [] OTHER -> {Err(d)}

JtagWrite(d, length, b) ==
  LET n == LengthInBits(b, length)
  IN  IF length = 0 \/ ~JtagFlagsOk(b) THEN {Err(d)}
      ELSE IF "RAW" \in b.flags THEN JtagWriteRaw(d, n, b)
      ELSE JtagWriteInState(d, n, b)

\* read returns what the last write captured if that is enough, and shifts dummy
\* bits otherwise, if the flags say which.
JtagRead(d, length, b) ==
  LET n == LengthInBits(b, length)
      enough == d.rbits > 0 /\ d.rbits >= n
      taken(o) == IF o.ok THEN Ok([o.d EXCEPT !.rbits = 0]) ELSE o
  IN  IF length = 0 \/ ~JtagFlagsOk(b) THEN {Err(d)}
      ELSE IF enough THEN {taken(Ok(d))}
      ELSE IF "RAW" \in b.flags \/ b.flags \cap JtagReadModes = {} THEN {Err(d)}
      ELSE {taken(o) : o \in JtagWrite(d, length, b)}
-----------------------------------------------------------------------------
(* the handlers *)

JtagPreBurst(d, b) == IF b.state = "RESET" THEN SetState(d, "RESET") ELSE {Ok(d)}

ShotLength(d, n) == IF d.bits > 0 THEN d.bits ELSE n

JtagWriteShot(d, bytes, b) ==
  IF "SETLEN" \in b.flags THEN {Ok(Received([d EXCEPT !.bits = b.arg], bytes))}
  ELSE IF "SETFREQ" \in b.flags THEN {Ok(Received(d, bytes))}
  ELSE {IF o.ok THEN Ok(Received(o.d, bytes)) ELSE o
        : o \in JtagWrite([d EXCEPT !.bits = 0], ShotLength(d, Len(bytes)), b)}

JtagReadShot(d, n, b) ==
  {IF o.ok THEN OkData(Answered(o.d, n), Positions(o.d.out, n)) ELSE o
   : o \in JtagRead([d EXCEPT !.bits = 0], ShotLength(d, n), b)}

JtagCleanup(d) == [d EXCEPT !.rbits = 0, !.tbits = 0, !.bits = 0]
=============================================================================
