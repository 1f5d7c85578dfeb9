---------------------------- MODULE Transactions ----------------------------
(***************************************************************************)
(* The transaction interface: process_transaction of menable_ioctl.c runs  *)
(* the bursts of one ioctl on a controller, controller_base.c cuts a burst *)
(* into shots that fit the queues of the controller, and the controller    *)
(* (SpiController, BpiController, JtagController, I2cController) carries   *)
(* out the shots.  The mutex of the controller serialises transactions, so *)
(* the only concurrent partner is the hardware: the command FIFO of spi_v2 *)
(* drains while the driver goes on, and the board may disappear.           *)
(***************************************************************************)
EXTENDS SpiController, BpiController, JtagController, I2cController

CONSTANTS
  Kinds,            \* the controllers to check
  Scripts(_),       \* for each of them, the transactions (sequences of bursts)
  Limits(_),        \* and its queue sizes and bytes per shot
  LongestBurst,     \* bytes of the longest burst in them
  MaxTransactions   \* bound on the number of transactions

\* The bursts that occur in the transactions for the controller k.
Bursts(k) == UNION {{s.bursts[i] : i \in DOMAIN s.bursts} : s \in Scripts(k)}

\* The commands of spi_v2 that request reads go through its write FIFO; the I2C core
\* reads one byte at a time.
ASSUME TransactionsAssumption ==
  /\ Kinds \subseteq {"spi_v2", "spi_dual", "spi_bs", "bpi", "jtag", "i2c"}
  /\ \A k \in Kinds :
       /\ \A s \in Scripts(k) : s.bursts \in Seq(Bursts(k))
       /\ \A b \in Bursts(k) : b.len \in 0..LongestBurst /\ ("SETLEN" \in b.flags => b.arg \in Nat)
       /\ Limits(k) \in [writeQueue : Nat \ {0}, readQueue : Nat \ {0},
                         maxWrite : Nat \ {0}, maxRead : Nat \ {0}]
       /\ k = "spi_v2" => Limits(k).readQueue <= Limits(k).writeQueue
       /\ k = "i2c" => Limits(k).maxRead = 1
  /\ LongestBurst \in Nat /\ MaxTransactions \in Nat

VARIABLES
  kind,             \* which controller
  dev,              \* its state and the state of its target
  txn,              \* bursts of the transaction under way that are still to do
  t,                \* the burst under way
  last,             \* [b |-> burst, how |-> result] of the last burst
  count             \* transactions started

vars == <<kind, dev, txn, t, last, count>>

\* A burst under way.  pc is the place in process_transaction or controller_base.c;
\* rem, queued: ctrl_write_burst; req, rd, buf: ctrl_read_burst; first, later:
\* is_first_shot and is_last_shot; flags: current_burst_flags.
NoFlags == {}
NoBurst == [type |-> "none", len |-> 0, flags |-> {}, state |-> "NONE", arg |-> 0,
            copy |-> TRUE]
Quiet(pc) == [pc |-> pc, b |-> NoBurst, rem |-> 0, queued |-> 0, req |-> 0, rd |-> 0,
              buf |-> <<>>, first |-> FALSE, final |-> FALSE, flags |-> NoFlags]

L == Limits(kind)
-----------------------------------------------------------------------------
(* the function pointers of controller_base *)

HandlePreBurst(d, b) ==
  CASE kind = "spi_v2"   -> SpiV2PreBurst(d, b.flags)
    [] kind = "spi_dual" -> SpiDualPreBurst(d, b.flags)
    [] kind = "spi_bs"   -> SpiBsPreBurst(d, b.flags)
    [] kind = "bpi"      -> BpiPreBurst(d, b.flags)
    [] kind = "jtag"     -> JtagPreBurst(d, b)
    [] kind = "i2c"      -> {Ok(d)}

HandlePostBurst(d, b) ==
  CASE kind = "spi_v2"   -> SpiV2PostBurst(d, b.flags)
    [] kind = "spi_dual" -> SpiDualPostBurst(d, b.flags)
    [] kind = "spi_bs"   -> SpiBsPostBurst(d, b.flags)
    [] kind = "bpi"      -> BpiPostBurst(d, b.flags)
    [] OTHER             -> {Ok(d)}

WriteShotOf(d, bytes, s) ==
  CASE kind = "spi_v2"   -> SpiV2WriteShot(d, bytes)
    [] kind = "spi_dual" -> SpiDualWriteShot(d, bytes, s.flags)
    [] kind = "spi_bs"   -> SpiBsWriteShot(d, bytes)
    [] kind = "bpi"      -> BpiWriteShot(d, bytes, s.b.arg)
    [] kind = "jtag"     -> JtagWriteShot(d, bytes, s.b)
    [] kind = "i2c"      -> I2cWriteShot(d, bytes, WriteCmds(s.flags, s.first, s.final))

RequestReadOf(d, n) == IF kind = "spi_v2" THEN SpiV2RequestRead(d, n) ELSE {Ok(d)}

ReadShotOf(d, n, s) ==
  CASE kind = "spi_v2"   -> SpiV2ReadShot(d, n)
    [] kind = "spi_dual" -> SpiDualReadShot(d, n, s.flags)
    [] kind = "spi_bs"   -> SpiBsReadShot(d, n)
    [] kind = "bpi"      -> BpiReadShot(d, n)
    [] kind = "jtag"     -> JtagReadShot(d, n, s.b)
    [] kind = "i2c"      -> I2cReadShot(d, ReadCmds(s.flags, s.final))

WaitWrittenOf(d) == IF kind = "spi_v2" THEN SpiV2WaitWritten(d) ELSE {Ok(d)}

ExecuteCommand(d, b) == IF kind = "bpi" THEN BpiExecuteCommand(d, b.arg) ELSE {Err(d)}

\* burst_aborted; it does nothing for spi_v2 and spi_bs.
BurstAborted(d) ==
  CASE kind = "spi_dual" -> {SpiDualAborted(d)}
    [] kind = "bpi"      -> {BpiCleanup(d)}
    [] kind = "jtag"     -> {JtagCleanup(d)}
    [] kind = "i2c"      -> I2cAborted(d)
    [] OTHER             -> {d}

DevInit(k) ==
  CASE k \in {"spi_v2", "spi_dual", "spi_bs"} -> {SpiInit}
    [] k = "bpi"  -> {BpiInit}
    [] k = "jtag" -> {JtagInit(tap) : tap \in {"Reset", "Idle", "PauseDR", "ShiftIR"}}
    [] k = "i2c"  -> {I2cInit}
-----------------------------------------------------------------------------
(* process_transaction *)

Init ==
  /\ kind \in Kinds
  /\ dev \in DevInit(kind)
  /\ txn = <<>>
  /\ t = Quiet("none")
  /\ last = [b |-> NoBurst, how |-> "ok"]
  /\ count = 0

\* get_controller, mutex_lock, begin_transaction.
BeginTransaction ==
  /\ t.pc = "none" /\ count < MaxTransactions
  /\ count' = count + 1
  /\ \E s \in Scripts(kind) :
       /\ txn' = s.bursts
       /\ dev' \in IF kind = "i2c" THEN I2cBegin(dev, s.bus) ELSE {dev}
  /\ t' = Quiet("next")
  /\ UNCHANGED <<kind, last>>

\* The error label: unlock without end_transaction.
Fail(d, b, how) ==
  /\ dev' = d
  /\ t' = Quiet("none") /\ txn' = <<>>
  /\ last' = [b |-> b, how |-> how]
  /\ UNCHANGED <<kind, count>>

\* ctrl_cleanup_burst_state, after which the transaction fails.
Abort(d) == \E e \in BurstAborted(d) : Fail(e, t.b, "error")

\* The last burst is done: end_transaction, unlock.
EndTransaction ==
  /\ t.pc = "next" /\ txn = <<>>
  /\ dev' = IF kind = "i2c" THEN I2cEnd(dev) ELSE dev
  /\ t' = Quiet("none")
  /\ UNCHANGED <<kind, txn, last, count>>

\* A burst of length 0 that is not a state change is skipped.
SkipBurst ==
  /\ t.pc = "next" /\ txn # <<>>
  /\ Head(txn).len = 0 /\ Head(txn).type # "state"
  /\ txn' = Tail(txn)
  /\ UNCHANGED <<kind, dev, t, last, count>>

\* The burst to run next.
burst == Head(txn)
HasBurst(types) ==
  t.pc = "next" /\ txn # <<>> /\ burst.type \in types /\ (burst.len > 0 \/ burst.type = "state")

\* The copy of the caller's buffer fails before the controller is called.
CopyInFails ==
  /\ HasBurst({"write", "command"}) /\ ~burst.copy
  /\ Fail(dev, burst, "copy")

\* A state change burst: the post burst flags only.
StateChange ==
  /\ HasBurst({"state"})
  /\ \E o \in HandlePostBurst(dev, burst) :
       IF o.ok THEN /\ dev' = o.d /\ txn' = Tail(txn)
                    /\ last' = [b |-> burst, how |-> "ok"]
                    /\ UNCHANGED <<kind, t, count>>
       ELSE Fail(o.d, burst, "error")

\* ctrl_command_execution_burst; the data is not copied back to the caller.
Command ==
  /\ HasBurst({"command"}) /\ burst.copy
  /\ \E o \in ExecuteCommand(dev, burst) :
       IF o.ok THEN /\ dev' = o.d /\ txn' = Tail(txn)
                    /\ last' = [b |-> burst, how |-> "ok"]
                    /\ UNCHANGED <<kind, t, count>>
       ELSE Fail(o.d, burst, "error")

\* ctrl_write_burst and ctrl_read_burst up to their loops.
StartBurst ==
  /\ HasBurst({"write", "read"}) /\ (burst.type = "write" => burst.copy)
  /\ \E o \in HandlePreBurst([dev EXCEPT !.got = <<>>, !.out = 0], burst) :
       IF ~o.ok THEN \E e \in BurstAborted(o.d) : Fail(e, burst, "error")
       ELSE /\ dev' = o.d
            /\ t' = [Quiet(IF burst.type = "write" THEN "write" ELSE "request") EXCEPT
                       !.b = burst, !.flags = burst.flags, !.rem = burst.len, !.req = burst.len]
            /\ txn' = Tail(txn)
            /\ UNCHANGED <<kind, last, count>>
-----------------------------------------------------------------------------
(* ctrl_write_burst *)

\* The next shot; after write_queue_size of them the queue must run empty.
WriteShot ==
  LET n == Smaller(t.rem, L.maxWrite)
      s == [t EXCEPT !.first = (t.rem = t.b.len), !.final = (t.rem <= L.maxWrite)]
      full == (t.queued + 1) % L.writeQueue = 0
  IN  /\ t.pc = "write" /\ t.rem > 0
      /\ \E o \in WriteShotOf(dev, Positions(t.b.len - t.rem, n), s) :
           IF ~o.ok THEN Abort(o.d)
           ELSE /\ dev' = o.d
                /\ t' = [s EXCEPT !.rem = @ - n, !.queued = @ + 1,
                                  !.pc = IF full THEN "wait" ELSE "write"]
                /\ UNCHANGED <<kind, txn, last, count>>

WaitQueueEmpty ==
  /\ t.pc = "wait"
  /\ \E o \in WaitWrittenOf(dev) :
       IF ~o.ok THEN Abort(o.d)
       ELSE /\ dev' = o.d /\ t' = [t EXCEPT !.pc = "write"]
            /\ UNCHANGED <<kind, txn, last, count>>

\* Mutant of WriteDone: return with shots still in the queue.
WriteDoneUndrained ==
  /\ t.pc = "write" /\ t.rem = 0
  /\ t' = [t EXCEPT !.pc = "post", !.first = FALSE, !.final = FALSE]
  /\ UNCHANGED <<kind, dev, txn, last, count>>

\* The rest of the queue, and the end of the burst.
WriteDone ==
  /\ t.pc = "write" /\ t.rem = 0
  /\ t' = [t EXCEPT !.first = FALSE, !.final = FALSE,
                    !.pc = IF t.queued % L.writeQueue # 0 THEN "drain" ELSE "post"]
  /\ UNCHANGED <<kind, dev, txn, last, count>>

DrainQueue ==
  /\ t.pc = "drain"
  /\ \E o \in WaitWrittenOf(dev) :
       IF ~o.ok THEN Abort(o.d)
       ELSE /\ dev' = o.d /\ t' = [t EXCEPT !.pc = "post"]
            /\ UNCHANGED <<kind, txn, last, count>>
-----------------------------------------------------------------------------
(* ctrl_read_burst *)

\* Mutant of MayRequest: one request more than the read queue holds.
MayRequestOneMore == t.queued <= L.readQueue /\ t.req > 0

MayRequest == t.queued < L.readQueue /\ t.req > 0

\* Queue as many requests as the read queue holds.
RequestRead ==
  LET n == Smaller(t.req, L.maxRead)
      s == [t EXCEPT !.req = @ - n, !.rd = @ + n, !.queued = @ + 1]
  IN  /\ t.pc = "request" /\ MayRequest
      /\ \E o \in RequestReadOf(dev, n) :
           IF ~o.ok THEN Abort(o.d)
           ELSE /\ dev' = o.d
                /\ t' = [s EXCEPT !.first = (t.queued = 0), !.final = (s.rd = t.b.len)]
                /\ UNCHANGED <<kind, txn, last, count>>

\* Mutant of RequestsQueued: go on only when the queue is full.
RequestsQueuedFull ==
  /\ t.pc = "request" /\ t.queued = L.readQueue
  /\ t' = [t EXCEPT !.pc = "read", !.first = TRUE]
  /\ UNCHANGED <<kind, dev, txn, last, count>>

RequestsQueued ==
  /\ t.pc = "request" /\ ~MayRequest
  /\ t' = [t EXCEPT !.pc = "read", !.first = TRUE]
  /\ UNCHANGED <<kind, dev, txn, last, count>>

\* Read one shot.
ReadShot ==
  LET n == Smaller(t.rd, L.maxRead)
      s == [t EXCEPT !.final = (t.req = 0 /\ t.rd <= L.maxRead)]
  IN  /\ t.pc = "read" /\ t.rd > 0
      /\ \E o \in ReadShotOf(dev, n, s) :
           IF ~o.ok THEN Abort(o.d)
           ELSE /\ dev' = o.d
                /\ t' = [s EXCEPT !.rd = @ - n, !.buf = @ \o o.data, !.first = FALSE,
                                  !.pc = IF t.req > 0 THEN "refill" ELSE "read"]
                /\ UNCHANGED <<kind, txn, last, count>>

\* Replace the request that has been answered.
RefillRead ==
  LET n == Smaller(t.req, L.maxRead)
  IN  /\ t.pc = "refill"
      /\ \E o \in RequestReadOf(dev, n) :
           IF ~o.ok THEN Abort(o.d)
           ELSE /\ dev' = o.d
                /\ t' = [t EXCEPT !.req = @ - n, !.rd = @ + n, !.pc = "read"]
                /\ UNCHANGED <<kind, txn, last, count>>

ReadDone ==
  /\ t.pc = "read" /\ t.rd = 0
  /\ t' = [t EXCEPT !.pc = "post", !.final = FALSE]
  /\ UNCHANGED <<kind, dev, txn, last, count>>
-----------------------------------------------------------------------------
\* handle_post_burst_flags, whose result is not looked at, and for a read the copy
\* to the caller.
PostBurst ==
  /\ t.pc = "post"
  /\ \E o \in HandlePostBurst(dev, t.b) :
       IF t.b.type = "read" /\ ~t.b.copy THEN Fail(o.d, t.b, "copy")
       ELSE /\ dev' = o.d /\ t' = Quiet("next")
            /\ last' = [b |-> t.b, how |-> "ok"]
            /\ UNCHANGED <<kind, txn, count>>

\* The FPGA executes a queued command; the board may disappear.
Execute ==
  /\ kind = "spi_v2" /\ dev.cmds # <<>> /\ ~dev.gone
  /\ dev' = SpiV2Execute(dev)
  /\ UNCHANGED <<kind, txn, t, last, count>>

Vanish ==
  /\ ~dev.gone
  /\ dev' = [dev EXCEPT !.gone = TRUE]
  /\ UNCHANGED <<kind, txn, t, last, count>>

BurstStep ==
  \/ CopyInFails \/ StateChange \/ Command \/ StartBurst
  \/ WriteShot \/ WaitQueueEmpty \/ WriteDone \/ DrainQueue
  \/ RequestRead \/ RequestsQueued \/ ReadShot \/ RefillRead \/ ReadDone
  \/ PostBurst

Driver == SkipBurst \/ EndTransaction \/ BurstStep

Next == BeginTransaction \/ Driver \/ Execute \/ Vanish

\* The thread that makes the ioctl runs on, and a board that is there executes its
\* commands.
Spec == Init /\ [][Next]_vars /\ WF_vars(Driver) /\ WF_vars(Execute)
-----------------------------------------------------------------------------
(* properties *)

\* spi_dual, spi_bs and bpi carry on with a board that is gone and report STATUS_OK.
Reached == kind \in {"spi_v2", "jtag", "i2c"} \/ ~dev.gone

\* Every burst of the other controllers moves its bytes.  Of the BPI controller only a
\* write of whole data words that is one shot does: a command is one byte of the
\* buffer, the odd last byte is dropped, the next shot starts again at the same
\* address, and read_shot reports success whatever happens.
MovesAll(b) ==
  kind = "bpi" => /\ b.type = "write" /\ b.flags \cap BpiOperations = {"WRITEDATA"}
                  /\ b.len % 2 = 0 /\ b.len <= L.maxWrite

\* A write or a read with a promise between its start and its return.
InBurst == t.pc \notin {"none", "next"} /\ MovesAll(t.b) /\ Reached

Promise == INSTANCE Transfer WITH
  MaxLen <- LongestBurst,
  size <- IF InBurst THEN t.b.len ELSE 0,
  moved <- IF ~InBurst THEN <<>> ELSE IF t.b.type = "write" THEN dev.got ELSE t.buf,
  status <- IF InBurst THEN "run" ELSE IF last.how = "ok" /\ Reached THEN "ok" ELSE "error"

\* Every burst of ctrl_write_burst and ctrl_read_burst that moves all its bytes, on a
\* board that is there or is missed, keeps the promise of module Transfer: bytes arrive
\* in order, once, and STATUS_OK means that all have arrived, although shots are queued
\* ahead and answered later.
BurstsKeepPromise == Promise!TransferSpec

\* A transaction ends, unless the board is gone while spi_v2 polls its read FIFO.
TransactionEnds == (t.pc # "none") ~> (t.pc = "none" \/ (kind = "spi_v2" /\ dev.gone))

\* spi_v2: neither queue of the FPGA is ever asked to hold more than it can, and chip
\* select stays asserted as long as a command is queued.
Reads(cmds) == Cardinality({i \in DOMAIN cmds : cmds[i].op = "read"})
QueuesWithinLimits ==
  kind = "spi_v2" =>
    /\ Len(dev.cmds) <= L.writeQueue
    /\ Len(dev.words) + Reads(dev.cmds) <= L.readQueue
    /\ dev.cmds # <<>> => dev.cs

\* Between bursts the target is selected exactly if the last burst asked for that, and
\* it is released after an aborted burst where the controller has a release; after a
\* transaction that was not cut short by a failing copy, or by a command (which the
\* controller does not have), no I2C bank is activated.
TransferBurst == last.b.type \in {"write", "read"}
SpiSelected ==
  TransferBurst =>
    CASE last.how = "error" -> kind = "spi_dual" => ~dev.cs
      [] last.how = "ok" -> dev.cs <=> "LEAVE_CS" \in last.b.flags
      [] OTHER -> TRUE
I2cReleased ==
  /\ TransferBurst /\ (last.how = "error" \/ (last.how = "ok" /\ "STOP" \in last.b.flags))
       => (dev.bus = NoBus \/ ~dev.busy[dev.bus] \/ dev.stuck)
  /\ t.pc = "none" /\ (last.how = "ok" \/ (last.how = "error" /\ TransferBurst)) => ~dev.act
ReleasedAsAsked ==
  t.pc \in {"none", "next"} =>
    CASE kind \in {"spi_v2", "spi_dual", "spi_bs"} -> dev.gone \/ SpiSelected
      [] kind = "i2c" -> dev.gone \/ I2cReleased
      [] OTHER -> TRUE

\* jtag: self->state says where the TAP really is, after any sequence of transfers,
\* aborted bursts and raw accesses.
TapTracked == kind = "jtag" => (dev.gone \/ dev.tap \in Meaning(dev.state))

\* i2c: switching banks never leaves another bus in the middle of a transfer, unless
\* its hardware refused the STOP condition or the board is gone.
InactiveBussesIdle ==
  kind = "i2c" => (dev.gone \/ dev.stuck \/ \A bus \in Busses \ {dev.bus} : ~dev.busy[bus])

\* bpi: the cached bank number is the bank that is really selected, unless a failed
\* switch went unnoticed (a read, or the command SET_ACTIVE_BANK).
BankCacheTrue ==
  kind = "bpi" => (dev.lost \/ dev.sel = NoBank \/ dev.sel = dev.bank)
=============================================================================
