---------------------------- MODULE BpiController ----------------------------
(***************************************************************************)
(* bpi_controller.c: parallel flash behind a bank switch.                  *)
(*                                                                         *)
(* ops   self->flags, the operations of the current burst                  *)
(* sel   selected_bank, the bank the driver believes to be active          *)
(* addr  self->address                                                     *)
(* bank  the bank the CPLD has really switched to                          *)
(* lost  a bank switch failed and its error went unnoticed, so sel was     *)
(*       not invalidated                                                   *)
(* gone  the board is off the bus: every register reads as all ones        *)
(***************************************************************************)
EXTENDS Outcomes

CONSTANTS
  BankSize,        \* words of a bank (2^address_reg_width)
  BankCount,       \* bank_count
  BpiReadFifo      \* BPI_READ_FIFO_LENGTH

ASSUME BpiAssumption == BpiReadFifo \in Nat \ {0}

NoBank == 255      \* selected_bank = 0xFF

\* 0xFFFFFFFF: in the bits that are looked at, the last address.
NoAddress == (BankSize * BankCount) - 1

BpiInit == [ops |-> {}, sel |-> NoBank, addr |-> NoAddress, bank |-> 0, lost |-> FALSE,
            got |-> <<>>, out |-> 0, gone |-> FALSE]

\* The operations of a write (BPI_OPERATION_*).
BpiOperations == {"WRITECMD", "WRITECMDADDRESS", "SETADDRESS", "WRITEDATA"}

BpiInvalidate(d) == [d EXCEPT !.sel = NoBank, !.lost = FALSE]

\* select_bank: the bank register is written twice and each time the CPLD must
\* report ready within 1500 ms, which all ones do not say.  After a timeout the CPLD
\* may have switched.  (The second write makes a silent failure improbable; it is not
\* modelled.)
SelectBank(d, b) ==
  IF b >= BankCount \/ d.gone THEN {Err(d)}
  ELSE {Ok([d EXCEPT !.sel = b, !.bank = b, !.lost = FALSE])}
       \cup {Err([d EXCEPT !.bank = real]) : real \in {d.bank, b}}

\* set_address: switch only if the cached bank differs.
SetAddress(d, a) ==
  LET b == (a \div BankSize) % BankCount
  IN  IF b = d.sel THEN {Ok(d)} ELSE SelectBank(d, b)

\* wait_ready may time out, as it does for all ones, or find the status bit clear; the
\* result of empty_fifo is not looked at.
BpiPreBurst(d, flags) ==
  LET e == [d EXCEPT !.ops = flags]
      s == IF "SELECT" \in flags THEN BpiInvalidate(e) ELSE e
      waits == "WAITREADY" \in flags
  IN  (IF waits /\ d.gone THEN {} ELSE {Ok(s)}) \cup (IF waits THEN {Err(s)} ELSE {})

BpiPostBurst(d, flags) ==
  LET e == IF "DESELECT" \in flags THEN BpiInvalidate(d) ELSE d
  IN  {Ok([e EXCEPT !.ops = {}])}

\* What a shot sends to the flash, whatever the length of its buffer: a command is its
\* first byte, data are 16 bit words.  (The word of a shot of one byte ends with a byte
\* from behind the buffer.)  An odd last byte is dropped, and without an operation flag
\* nothing is sent.
WholeWords(bytes) ==
  IF Len(bytes) = 1 THEN bytes ELSE [i \in 1..(2 * (Len(bytes) \div 2)) |-> bytes[i]]

BpiSent(ops, bytes) ==
  LET command(op) == IF op \in ops THEN <<bytes[1]>> ELSE <<>>
  IN  command("WRITECMD") \o command("WRITECMDADDRESS")
      \o (IF "WRITEDATA" \in ops THEN WholeWords(bytes) ELSE <<>>)

\* bpi_write_shot fails only if the bank cannot be switched.
BpiWriteShot(d, bytes, a) ==
  LET addressed == "SETADDRESS" \in d.ops \/ "WRITECMDADDRESS" \in d.ops
      e == IF addressed THEN [d EXCEPT !.addr = a] ELSE d
      outs == IF "WRITECMDADDRESS" \in d.ops THEN SetAddress(e, a) ELSE {Ok(e)}
  IN  {IF o.ok THEN Ok(Driven(o.d, BpiSent(d.ops, bytes))) ELSE o : o \in outs}

\* The word the flash answers for address a: the bank switch decides the bank.
BpiWord(d, a) == (d.bank * BankSize) + (a % BankSize)

\* read_data: set the address, request n words and collect them; each may time out.
Collected(d, a, n) == OkData(Answered(d, n), [i \in 1..n |-> BpiWord(d, a + i - 1)])

ReadData(d, a, n) ==
  UNION {IF o.ok /\ ~d.gone THEN {Collected(o.d, a, n), Err(o.d)}
         ELSE {Err(o.d)} : o \in SetAddress(d, a)}

\* One turn of the loop of bpi_read_shot, at word i of n: one FIFO of words, unless an
\* earlier turn failed.
ReadTurn(o, i, n) ==
  IF ~o.ok THEN {o}
  ELSE {[r EXCEPT !.data = o.data \o @] :
        r \in ReadData(o.d, o.d.addr + i, Smaller(n - i, BpiReadFifo))}

\* bpi_read_shot declares a second "ret" inside the loop and returns the outer one:
\* whatever read_data answers, the shot reports STATUS_OK.
Shadowed(o) == OkData([o.d EXCEPT !.lost = @ \/ ~o.ok], o.data)

BpiReadShot(d, n) ==
  LET after[turns \in 0..n] ==
        IF turns = 0 THEN {Ok(d)}
        ELSE UNION {ReadTurn(o, (turns - 1) * BpiReadFifo, n) : o \in after[turns - 1]}
  IN  IF "READDATA" \notin d.ops THEN {Ok(d)}
      ELSE {Shadowed(o) : o \in after[(n + BpiReadFifo - 1) \div BpiReadFifo]}

\* Mutant of BpiCleanup: the cached bank survives an aborted burst.
BpiCleanupCached(d) == [d EXCEPT !.addr = NoAddress, !.ops = {}]

BpiCleanup(d) == [BpiInvalidate(d) EXCEPT !.addr = NoAddress, !.ops = {}]

\* bpi_execute_command.  The result of select_bank goes into the command data;
\* the burst itself succeeds.
BpiExecuteCommand(d, cmd) ==
  CASE cmd.id = "SET_ACTIVE_BANK" ->
         {Ok([o.d EXCEPT !.lost = @ \/ ~o.ok]) : o \in SelectBank(d, cmd.bank)}
    [] cmd.id = "GET_ACTIVE_BANK" -> {Ok(d)}
    [] OTHER -> {Err(d)}
=============================================================================
