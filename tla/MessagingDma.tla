---------------------------- MODULE MessagingDma ----------------------------
(***************************************************************************)
(* The messaging DMA engine of a microEnable 6 board.  The board writes    *)
(* transmissions of event words into a ring of pages and counts them; the  *)
(* event interrupt reads the count, fetches that many transmissions from   *)
(* the ring (get_next_transmission), hands their words to process_uiq_data *)
(* (module Uiq) and acknowledges.  The driver sets the engine up at the    *)
(* probe and after each FPGA configuration and aborts it before.           *)
(*                                                                         *)
(* stopirq does not mask the event interrupt, so its handler runs against  *)
(* every step of the thread that aborts and initialises the engine; only   *)
(* the removal of the driver waits for it (free_irq).                      *)
(*                                                                         *)
(* The board is external.  A word of the ring is written as the position   *)
(* `at' in transmission `id' of `len' words; word 0 holds the length.      *)
(***************************************************************************)
EXTENDS Integers, FiniteSets

CONSTANTS
  PageWords,    \* words in a page (WORDS_PER_PAGE)
  NumBuffers,   \* pages in the ring
  CountMax,     \* transmissions the count register can hold
  MaxSent,      \* bound on transmissions
  MaxConfigs,   \* bound on FPGA configurations
  MaxFaults     \* bound on failing allocations, peripherals and timeouts

ASSUME MessagingAssumption ==
  /\ PageWords \in Nat /\ PageWords > 2
  /\ NumBuffers \in Nat \ {0}
  /\ CountMax \in Nat \ {0}
  /\ MaxSent \in Nat /\ MaxConfigs \in Nat /\ MaxFaults \in Nat

VARIABLES
  drv,      \* the thread that sets up and tears down: [pc, job]
  decl,     \* messaging_dma_declaration is not NULL
  pages,    \* the pages are allocated
  ctl,      \* messaging_dma_controller: [ready, addresses, read_offset]
  eng,      \* the engine: [enabled, running, resetting, declared, at]
  ring,     \* what the pages hold
  line,     \* the event interrupt: [raised, armed, pending, overflow, unacked]
  irq,      \* its handler: [pc, left, reported]
  sent,     \* transmissions written by the board
  handed,   \* transmissions handed on, or written to a ring since abandoned
  skewed,   \* (history) transmissions were lost, or the engine was not reset
  unstopped,\* (history) an abort gave up on a running engine
  used      \* bounds used up: [configs, faults]

vars == <<drv, decl, pages, ctl, eng, ring, line, irq, sent, handed, skewed, unstopped, used>>
boardVars == <<eng, ring, line, sent>>
historyVars == <<handed, skewed, unstopped>>

Capacity == NumBuffers * PageWords
Blank == [id |-> 0, at |-> 0, len |-> 0]

Init ==
  /\ drv = [pc |-> "absent", job |-> "init"]
  /\ decl = FALSE /\ pages = FALSE
  /\ ctl = [ready |-> FALSE, addresses |-> FALSE, read_offset |-> 0]
  /\ eng = [enabled |-> FALSE, running |-> FALSE, resetting |-> TRUE, declared |-> FALSE, at |-> 0]
  /\ ring = [o \in 0 .. Capacity - 1 |-> Blank]
  /\ line = [raised |-> FALSE, armed |-> TRUE, pending |-> 0, overflow |-> FALSE, unacked |-> 0]
  /\ irq = [pc |-> "idle", left |-> 0, reported |-> 0]
  /\ sent = 0 /\ handed = 0
  /\ skewed = FALSE /\ unstopped = FALSE
  /\ used = [configs |-> 0, faults |-> 0]

Fault == used.faults < MaxFaults /\ used' = [used EXCEPT !.faults = @ + 1]

-----------------------------------------------------------------------------
(* Setting up and tearing down.                                            *)

At(pc) == drv.pc = pc
Goto(pc) == drv' = [drv EXCEPT !.pc = pc]

\* me6_impulse_init_messaging_dma_mem (its failures are part of module Board)
InitMem ==
  /\ At("absent") /\ Goto("init")
  /\ decl' = TRUE /\ pages' = TRUE
  /\ UNCHANGED <<ctl, irq, used, boardVars, historyVars>>

\* An earlier peripheral fails: the messaging controller is not reached.
EarlierFails ==
  /\ At("init") /\ Goto("down")
  /\ Fault
  /\ UNCHANGED <<decl, pages, ctl, irq, boardVars, historyVars>>

\* messaging_dma_controller_init, up to the call of abort
InitController ==
  /\ At("init")
  /\ IF decl
     THEN drv' = [pc |-> "stop", job |-> "init"] /\ ctl' = [ctl EXCEPT !.ready = TRUE]
     ELSE Goto("up") /\ UNCHANGED ctl
  /\ UNCHANGED <<decl, pages, irq, used, boardVars, historyVars>>

\* dma_controller_base_stop, first half
StopEngine ==
  /\ At("stop") /\ Goto("wait")
  /\ eng' = [eng EXCEPT !.enabled = FALSE]
  /\ UNCHANGED <<decl, pages, ctl, ring, line, sent, irq, used, historyVars>>

\* Both callers of abort ignore its result.
AfterAbort == IF drv.job = "init" THEN "buffers" ELSE "free"

Stopped ==
  /\ At("wait") /\ ~eng.running
  /\ Goto("reset")
  /\ UNCHANGED <<decl, pages, ctl, irq, used, boardVars, historyVars>>

StopTimesOut ==
  /\ At("wait") /\ eng.running
  /\ Fault
  /\ Goto(AfterAbort)
  /\ unstopped' = TRUE
  /\ UNCHANGED <<decl, pages, ctl, irq, boardVars, handed, skewed>>

\* The reset makes the engine forget its pages; its bit may fail to clear in time.
ResetEngine ==
  /\ At("reset") /\ Goto(AfterAbort)
  /\ \E stuck \in BOOLEAN :
       /\ IF stuck THEN Fault ELSE UNCHANGED used
       /\ eng' = [enabled |-> FALSE, running |-> FALSE, resetting |-> stuck,
                  declared |-> FALSE, at |-> 0]
  /\ unstopped' = FALSE
  /\ UNCHANGED <<decl, pages, ctl, ring, line, sent, irq, handed, skewed>>

\* messaging_dma_init_buffers: from here on the driver reads from the first page.
InitBuffers ==
  /\ At("buffers") /\ Goto("start")
  /\ ctl' = [ctl EXCEPT !.addresses = TRUE, !.read_offset = 0]
  /\ eng' = [eng EXCEPT !.declared = TRUE]
  /\ handed' = sent
  /\ skewed' = (unstopped \/ line.raised \/ line.pending > 0 \/ irq.pc # "idle")
  /\ UNCHANGED <<decl, pages, ring, line, sent, irq, used, unstopped>>

\* The array of addresses cannot be allocated: the board goes on without the engine.
InitBuffersFails ==
  /\ At("buffers") /\ Goto("down")
  /\ Fault
  /\ ctl' = [ctl EXCEPT !.read_offset = 0]
  /\ decl' = FALSE
  /\ UNCHANGED <<pages, irq, boardVars, historyVars>>

\* dma_controller_base_start
StartEngine ==
  /\ At("start") /\ Goto("starting")
  /\ eng' = [eng EXCEPT !.enabled = TRUE]
  /\ UNCHANGED <<decl, pages, ctl, ring, line, sent, irq, used, historyVars>>

\* The engine runs, or the wait for it times out; the caller does not look.
StartReturns ==
  /\ At("starting") /\ Goto("up")
  /\ IF eng.running THEN UNCHANGED used ELSE Fault
  /\ UNCHANGED <<decl, pages, ctl, irq, boardVars, historyVars>>

\* me6_impulse_cleanup_peripherals: messaging_dma_controller_destroy for the job j.
Destroy(j, next) ==
  drv' = [job |-> j, pc |-> IF ~decl THEN next ELSE IF ctl.ready THEN "stop" ELSE "free"]

\* IOCTL_EX_CONFIGURE_FPGA
Configure ==
  /\ drv.pc \in {"up", "down"}
  /\ used.configs < MaxConfigs
  /\ used' = [used EXCEPT !.configs = @ + 1]
  /\ Destroy("configure", "load")
  /\ UNCHANGED <<decl, pages, ctl, irq, boardVars, historyVars>>

\* me6_exit: the interrupt is freed first, which waits for its handler.
Remove ==
  /\ drv.pc \in {"up", "down"}
  /\ irq.pc = "idle"
  /\ irq' = [irq EXCEPT !.pc = "freed"]
  /\ Destroy("remove", "exit")
  /\ UNCHANGED <<decl, pages, ctl, used, boardVars, historyVars>>

FreeAddresses ==
  /\ At("free") /\ Goto(IF drv.job = "remove" THEN "exit" ELSE "load")
  /\ ctl' = [ctl EXCEPT !.addresses = FALSE]
  /\ UNCHANGED <<decl, pages, irq, used, boardVars, historyVars>>

\* Loading a bitstream takes far longer than serving an interrupt that is pending.
LoadBitstream ==
  /\ At("load")
  /\ irq.pc = "idle" /\ ~line.raised
  /\ \/ Goto("init") /\ UNCHANGED used
     \/ Goto("down") /\ Fault
  /\ UNCHANGED <<decl, pages, ctl, irq, boardVars, historyVars>>

\* me6_impulse_exit: without a declaration the pages are forgotten, not freed.
Exit ==
  /\ At("exit") /\ Goto("gone")
  /\ pages' = (pages /\ ~decl)
  /\ decl' = FALSE
  /\ UNCHANGED <<ctl, irq, used, boardVars, historyVars>>

Driver ==
  \/ InitMem \/ EarlierFails \/ InitController \/ StopEngine \/ Stopped \/ StopTimesOut
  \/ ResetEngine \/ InitBuffers \/ InitBuffersFails \/ StartEngine \/ StartReturns
  \/ Configure \/ Remove \/ FreeAddresses \/ LoadBitstream \/ Exit

-----------------------------------------------------------------------------
(* The board (external).                                                   *)

EngineRuns ==
  /\ eng.enabled /\ eng.declared /\ ~eng.resetting /\ ~eng.running
  /\ eng' = [eng EXCEPT !.running = TRUE]
  /\ UNCHANGED <<drv, decl, pages, ctl, ring, line, irq, sent, used, historyVars>>

EngineHalts ==
  /\ ~eng.enabled /\ eng.running
  /\ eng' = [eng EXCEPT !.running = FALSE]
  /\ UNCHANGED <<drv, decl, pages, ctl, ring, line, irq, sent, used, historyVars>>

\* The place after o where a transmission may start: not the last word of a page.
BoardPlace(o) == IF o % PageWords = PageWords - 1 THEN o + 1 ELSE o

\* A transmission of len words; it does not cross the end of a page, and pages that
\* are not acknowledged are not overwritten.
Transmit(len) ==
  LET at == eng.at
      next == BoardPlace(at + len)
      full == line.pending = CountMax
  IN  /\ eng.running /\ sent < MaxSent
      /\ (at % PageWords) + len <= PageWords
      /\ line.unacked + PageWords <= Capacity
      /\ ring' = [o \in DOMAIN ring |->
                    IF o \in at .. at + len - 1
                    THEN [id |-> sent + 1, at |-> o - at, len |-> len] ELSE ring[o]]
      /\ eng' = [eng EXCEPT !.at = next % Capacity]
      /\ line' = [raised |-> line.raised \/ line.armed, armed |-> FALSE,
                  pending |-> IF full THEN CountMax ELSE line.pending + 1,
                  overflow |-> line.overflow \/ full,
                  unacked |-> line.unacked + (next - at)]
      /\ sent' = sent + 1
      /\ UNCHANGED <<drv, decl, pages, ctl, irq, used, historyVars>>

Board == EngineRuns \/ EngineHalts \/ \E len \in 2 .. PageWords : Transmit(len)

-----------------------------------------------------------------------------
(* me6_messaging_irq.                                                      *)

\* Reading the count register clears it.
Counted == [line EXCEPT !.raised = FALSE, !.pending = 0, !.overflow = FALSE]

\* The number of transmissions is read; after an overflow none is fetched.
IrqCount ==
  /\ irq.pc = "idle" /\ line.raised /\ decl
  /\ line' = Counted
  /\ irq' = [pc |-> "loop", reported |-> line.unacked,
             left |-> IF line.overflow THEN 0 ELSE line.pending]
  /\ skewed' = (skewed \/ line.overflow)
  /\ UNCHANGED <<drv, decl, pages, ctl, eng, ring, sent, handed, unstopped, used>>

\* Without a declaration this is me6_event_irq, which acknowledges nothing.
IrqEventOnly ==
  /\ irq.pc = "idle" /\ line.raised /\ ~decl
  /\ line' = Counted
  /\ UNCHANGED <<drv, decl, pages, ctl, eng, ring, irq, sent, used, historyVars>>

\* get_next_transmission: is_enabled_and_running
IrqCheck ==
  /\ irq.pc = "loop" /\ irq.left > 0
  /\ irq' = IF eng.enabled /\ eng.running THEN [irq EXCEPT !.pc = "get"]
            ELSE [irq EXCEPT !.left = @ - 1]
  /\ UNCHANGED <<drv, decl, pages, ctl, used, boardVars, historyVars>>

\* What the driver takes for a length: anything, if it meets a word of a payload.
LengthsRead(w) == IF w.at = 0 THEN {w.len} ELSE 0 .. PageWords + 1

Valid(o, len) ==
  /\ o % PageWords # PageWords - 1
  /\ len # 0
  /\ (o % PageWords) + len <= PageWords

\* Mutant of NextOffset: a single word left in a page is not skipped.
NextOffsetUnskipped(o, len) == (o + len) % Capacity

NextOffset(o, len) ==
  LET end == o + len
  IN  (IF PageWords - (end % PageWords) = 1 THEN end + 1 ELSE end) % Capacity

\* The rest of get_next_transmission, and process_uiq_data on the words found.  After
\* an error the offset stays where it is.
IrqGet ==
  /\ irq.pc = "get" /\ ctl.addresses
  /\ \E len \in LengthsRead(ring[ctl.read_offset]) :
       IF Valid(ctl.read_offset, len)
       THEN /\ ctl' = [ctl EXCEPT !.read_offset = NextOffset(@, len)]
            /\ handed' = IF skewed THEN handed ELSE handed + 1
       ELSE UNCHANGED <<ctl, handed>>
  /\ irq' = [irq EXCEPT !.pc = "loop", !.left = @ - 1]
  /\ UNCHANGED <<drv, decl, pages, skewed, unstopped, used, boardVars>>

\* The addresses were freed since the check: the handler dereferences NULL.
IrqGetFreed ==
  /\ irq.pc = "get" /\ ~ctl.addresses
  /\ irq' = [irq EXCEPT !.pc = "oops"]
  /\ UNCHANGED <<drv, decl, pages, ctl, used, boardVars, historyVars>>

\* ME6_REG_IRQ_MESSAGING_PROCESSED: the reported words may be overwritten, and what has
\* come since raises the interrupt again.
IrqAck ==
  /\ irq.pc = "loop" /\ irq.left = 0
  /\ line' = [line EXCEPT !.unacked = @ - irq.reported,
                          !.raised = line.pending > 0, !.armed = line.pending = 0]
  /\ irq' = [pc |-> "idle", left |-> 0, reported |-> 0]
  /\ UNCHANGED <<drv, decl, pages, ctl, eng, ring, sent, used, historyVars>>

Handler == IrqCount \/ IrqEventOnly \/ IrqCheck \/ IrqGet \/ IrqGetFreed \/ IrqAck

Next == Driver \/ Board \/ Handler

Spec == Init /\ [][Next]_vars

-----------------------------------------------------------------------------
(* Properties.                                                             *)

\* While the engine is enabled, the word the driver will take for the next length is
\* that of the oldest transmission it has not handed on, all its words are there, and
\* the counts account for every transmission outstanding.
InStep ==
  eng.enabled /\ ~skewed /\ ~line.overflow =>
    /\ sent - handed = irq.left + line.pending
    /\ sent > handed =>
         LET o == ctl.read_offset
             n == ring[o].len
         IN  /\ Valid(o, n)
             /\ \A k \in 0 .. n - 1 : ring[o + k] = [id |-> handed + 1, at |-> k, len |-> n]

\* The pages are freed only after the engine has stopped, unless it did not stop in time.
PagesOutliveEngine == eng.running => pages \/ unstopped

\* Driver and board agree about the ring, across page ends, wrap-arounds, interrupts that
\* meet an abort, failing set-ups and reconfigurations (get_next_transmission,
\* messaging_dma_init_buffers, dma_controller_base_abort).
RingAgreed == InStep /\ PagesOutliveEngine
=============================================================================
