--------------------------------- MODULE Uiq ---------------------------------
(***************************************************************************)
(* One user interrupt queue of a board: a ring buffer (UiqRing) between    *)
(* the board's event interface and a client that reads or writes the       *)
(* queue's "data" attribute.  On microEnable 6 boards the event interrupt  *)
(* carries packets for all queues and may cut a packet anywhere            *)
(* (process_uiq_data); on microEnable 5 boards each queue has an interrupt *)
(* and a FIFO of its own (uiq_irq).                                        *)
(*                                                                         *)
(* Every section under uiq->lock is one action.  The board is external: it *)
(* sends packets, drains what it is given and then raises an event.        *)
(* Opening, closing and reconfiguring the board switch its interrupts and  *)
(* its queues off and on; the "data" attribute can be used all the while.  *)
(***************************************************************************)
EXTENDS UiqRing, FiniteSets

CONSTANTS
  Kinds,       \* kinds of queue: records [board, type, protocol]
  FifoDepth,   \* fpga_fifo_depth of a write queue
  Sizes,       \* buffer sizes (in words) that clients ask for
  Requests,    \* numbers of words that clients read or write at once
  Packets,     \* numbers of payload words in a packet of the board
  Stamps,      \* whether the first word of a packet asks for a timestamp
  MaxWords,    \* bound on the words produced by the source of the queue
  MaxAdmin,    \* bound on the requests that clear, resize and switch the queue
  UintMax      \* largest value of an unsigned int

ReadKinds  == {[board |-> "me6", type |-> "READ", protocol |-> "VA_EVENT"],
               [board |-> "me6", type |-> "READ", protocol |-> "RAW"],
               [board |-> "me5", type |-> "READ", protocol |-> "VA_EVENT"],
               [board |-> "me5", type |-> "READ", protocol |-> "LEGACY"]}
WriteKinds == {[board |-> b, type |-> t, protocol |-> "RAW"] :
                 b \in {"me5", "me6"}, t \in {"WRITE_RAW", "WRITE_LEGACY", "WRITE_CXP"}}

ASSUME UiqAssumption ==
  /\ Kinds \subseteq ReadKinds \cup WriteKinds
  /\ FifoDepth \in Nat \ {0}
  /\ Sizes \subseteq Nat
  /\ Requests \subseteq Nat \ {0}
  /\ Packets \subseteq Nat \ {0}
  /\ Stamps \subseteq BOOLEAN
  /\ MaxWords \in Nat /\ MaxAdmin \in Nat
  /\ UintMax \in Nat /\ \A n \in Sizes \cup Requests : n < UintMax

VARIABLES
  kind,      \* board, type and read protocol of the queue (never changes)
  u,         \* the queue's uiq_base
  cpltodo,   \* words the completion waits for
  cpl,       \* the completion's counter
  wait,      \* the thread inside uiq_read or uiq_write, if it sleeps
  req,       \* the words it asked for
  starved,   \* (history) since then the buffer was once smaller than that
  transfer,  \* uiq_transfer_state: rest of the current packet and its target
  fpga,      \* words in the board's FIFO of a write queue
  event,     \* the board has drained that FIFO and says so
  masked,    \* microEnable 5: queue interrupts are not in irq_wanted
  seen,      \* microEnable 5: the handler has read this queue's interrupt, and acts on it next
  phase,     \* how far an open, close or reconfiguration of the board has got
  offs,      \* (history) how often is_running was cleared without an interrupt
  sent,      \* words the source has produced so far and no reconfigured board has forgotten
  left,      \* (history) the last word that left at the far end, and their number
  cut,       \* (history) why words may be missing without a flag
  admin      \* such requests so far

vars == <<kind, u, cpltodo, cpl, wait, req, starved, transfer, fpga, event, masked, seen, phase,
          offs, sent, left, cut, admin>>
waitVars   == <<cpltodo, wait, req, starved>>
switchVars == <<masked, phase, offs>>
boardVars  == <<transfer, fpga, event, seen, switchVars>>

\* cpltodo = -1: the queue was cleared under a waiting client.
Cleared == UintMax

IsRead  == kind.type = "READ"
IsWrite == kind.type # "READ"

TypeOK ==
  /\ kind \in Kinds
  /\ u.capacity \in Sizes \cup {0}
  /\ u.fill \in 0 .. u.capacity
  /\ u.read_index \in Nat /\ (u.read_index < u.capacity \/ u.read_index = 0)
  /\ u.data \in [0 .. u.capacity - 1 -> Word]
  /\ u.lost_words_count \in Nat
  /\ {u.last_words_were_lost, u.last_word_was_eop, u.is_running, event, masked, seen}
       \subseteq BOOLEAN
  /\ cpltodo \in Requests \cup {0, Cleared}
  /\ cpl \in Nat
  /\ wait \in {"none", "waiting", "woken", "expired"}
  /\ req \in Requests \cup {0}
  /\ starved \in BOOLEAN
  /\ transfer \in [remaining : Nat, mine : BOOLEAN, first : BOOLEAN]
  /\ fpga \in Nat
  /\ phase \in {"closed", "open", "closing", "stopped", "fresh"}
  /\ offs \in Nat
  /\ sent \in 0 .. MaxWords
  /\ left \in [last : Word, count : Nat]
  /\ cut \subseteq {"cleared", "shrunk", "drained"}
  /\ admin \in 0 .. MaxAdmin

Init ==
  /\ kind \in Kinds
  /\ u = FreshRing
  /\ cpltodo = 0 /\ cpl = 0 /\ wait = "none" /\ req = 0 /\ starved = FALSE
  /\ transfer = [remaining |-> 0, mine |-> FALSE, first |-> FALSE]
  /\ fpga = 0 /\ event = FALSE
  /\ masked = (kind.board = "me5") /\ seen = FALSE /\ phase = "closed" /\ offs = 0
  /\ sent = 0
  /\ left = [last |-> NoWord, count |-> 0]
  /\ cut = {} /\ admin = 0

\* complete(): once, if a client waits for no more than n words.
CompleteFor(n) == cpl' = IF cpltodo # 0 /\ cpltodo <= n THEN cpl + 1 ELSE cpl

\* The words of ws that are not chunks of a timestamp.
DatumCount(ws) == Cardinality({i \in DOMAIN ws : ws[i].part = 0})

\* The words ws leave the driver.
Leave(ws) ==
  left' = [last  |-> IF ws = <<>> THEN left.last ELSE Last(ws),
           count |-> left.count + DatumCount(ws)]

-----------------------------------------------------------------------------
(* The size and fill attributes.                                           *)

\* men_scale_uiq
Resize(size) ==
  /\ admin < MaxAdmin
  /\ size # u.capacity
  /\ u' = ReplaceBuffer(u, size)
  /\ cut' = IF size < u.fill THEN cut \cup {"shrunk"} ELSE cut
  /\ starved' = (starved \/ size < req)
  /\ admin' = admin + 1
  /\ UNCHANGED <<kind, cpl, sent, left, cpltodo, wait, req, boardVars>>

\* men_uiq_writefill: the words stored so far are dropped, uncounted.
Clear ==
  /\ admin < MaxAdmin
  /\ u' = Reset(u)
  /\ IF cpltodo # 0
     THEN cpltodo' = Cleared /\ cpl' = cpl + 1
     ELSE UNCHANGED <<cpltodo, cpl>>
  /\ left' = [left EXCEPT !.count = sent]
  /\ cut' = cut \cup {"cleared"}
  /\ admin' = admin + 1
  /\ UNCHANGED <<kind, wait, req, starved, sent, boardVars>>

-----------------------------------------------------------------------------
(* Sleeping on the completion, in uiq_read and uiq_write.                  *)

\* The caller goes to sleep for n words; anyone else gets -EBUSY meanwhile.
Sleep(n) == cpltodo' = n /\ wait' = "waiting" /\ req' = n /\ UNCHANGED starved

Return == cpltodo' = 0 /\ wait' = "none" /\ req' = 0 /\ starved' = FALSE

Woken ==
  /\ wait = "waiting" /\ cpl > 0
  /\ cpl' = cpl - 1
  /\ wait' = "woken"
  /\ UNCHANGED <<kind, u, cpltodo, req, starved, sent, left, cut, admin, boardVars>>

\* The timeout has run out (or the client is being killed).
Expired ==
  /\ wait = "waiting" /\ cpl = 0
  /\ wait' = "expired"
  /\ UNCHANGED <<kind, u, cpltodo, cpl, req, starved, sent, left, cut, admin, boardVars>>

-----------------------------------------------------------------------------
(* uiq_read.                                                               *)

Deliver(n) == u' = PopFront(u, n) /\ Leave(FrontWords(u, n))

ReadCall(n) ==
  /\ IsRead /\ cpltodo = 0
  /\ IF u.fill < n
     THEN Sleep(n) /\ UNCHANGED <<u, left>>
     ELSE Deliver(n) /\ UNCHANGED waitVars
  /\ UNCHANGED <<kind, cpl, sent, cut, admin, boardVars>>

\* Back under the lock: sleep again after a wakeup that was too early, else take
\* what there is.
ReadResume ==
  /\ IsRead /\ wait \in {"woken", "expired"}
  /\ IF wait = "woken" /\ u.fill < req
     THEN wait' = "waiting" /\ UNCHANGED <<u, left, cpltodo, req, starved>>
     ELSE Return /\ Deliver(req)
  /\ UNCHANGED <<kind, cpl, sent, cut, admin, boardVars>>

-----------------------------------------------------------------------------
(* uiq_write and men_uiq_push.                                             *)

WriteCount(v) == Least(FifoDepth, v.fill)

\* What the board gets: of a CXP queue one packet, and only if it is complete.
WrittenToDevice(v) ==
  LET length == v.data[v.read_index].len
  IN  IF kind.type = "WRITE_CXP"
      THEN IF WriteCount(v) > length THEN FrontWords(v, length + 1) ELSE <<>>
      ELSE FrontWords(v, WriteCount(v))

\* What is left in the ring: write_count words are gone.
AfterPush(v) ==
  LET w == PopFront(v, WriteCount(v))
  IN  IF w.fill = 0 THEN [w EXCEPT !.read_index = 0] ELSE w

\* Mutant of Push: a waiting writer is not told of the room.
PushUntold(v, running) ==
  /\ u' = [AfterPush(v) EXCEPT !.is_running = running]
  /\ fpga' = fpga + Len(WrittenToDevice(v))
  /\ Leave(WrittenToDevice(v))
  /\ UNCHANGED cpl

\* men_uiq_push on the ring v.  uiq_write sets is_running after the call, the
\* interrupts leave it as it is.
Push(v, running) ==
  /\ u' = [AfterPush(v) EXCEPT !.is_running = running]
  /\ fpga' = fpga + Len(WrittenToDevice(v))
  /\ Leave(WrittenToDevice(v))
  /\ CompleteFor(GetFreeCapacity(AfterPush(v)))

\* A client's words; a client of a CXP queue writes one packet at a time.
ClientWords(n) ==
  [i \in 1 .. n |-> [NoWord EXCEPT !.seq = sent + i, !.first = (i = 1),
                       !.len = IF kind.type = "WRITE_CXP" /\ i = 1 THEN n - 1 ELSE 0]]

\* Mutant of Enqueue: the board is given words while its FIFO is in use.
EnqueueAlways(n) ==
  /\ sent + n <= MaxWords
  /\ sent' = sent + n
  /\ Push(PushBack(u, ClientWords(n)), TRUE)

\* The words are stored, and pushed on unless an earlier burst is under way.
Enqueue(n) ==
  /\ sent + n <= MaxWords
  /\ sent' = sent + n
  /\ LET v == PushBack(u, ClientWords(n))
     IN  IF u.is_running
         THEN u' = v /\ UNCHANGED <<fpga, left, cpl>>
         ELSE Push(v, TRUE)

WriteCall(n) ==
  /\ IsWrite
  /\ n <= u.capacity
  /\ cpltodo = 0
  /\ IF GetFreeCapacity(u) < n
     THEN Sleep(n) /\ UNCHANGED <<u, left, cpl, sent, fpga>>
     ELSE Enqueue(n) /\ UNCHANGED waitVars
  /\ UNCHANGED <<kind, cut, admin, transfer, event, seen, switchVars>>

\* Back under the lock: a clear request drops the data silently, room lets it
\* in, a wakeup without room means sleeping again, a timeout gives up.
WriteResume ==
  /\ IsWrite /\ wait \in {"woken", "expired"}
  /\ \/ /\ cpltodo = Cleared
        /\ Return
        /\ UNCHANGED <<u, left, cpl, sent, fpga>>
     \/ /\ cpltodo # Cleared /\ GetFreeCapacity(u) >= req
        /\ Return
        /\ Enqueue(req)
     \/ /\ cpltodo # Cleared /\ GetFreeCapacity(u) < req
        /\ IF wait = "woken" THEN wait' = "waiting" /\ UNCHANGED <<cpltodo, req, starved>>
                             ELSE Return
        /\ UNCHANGED <<u, left, cpl, sent, fpga>>
  /\ UNCHANGED <<kind, cut, admin, transfer, event, seen, switchVars>>

-----------------------------------------------------------------------------
(* Interrupts.                                                             *)

\* The board has taken everything from its FIFO.
BoardDrains ==
  /\ fpga > 0
  /\ fpga' = 0
  /\ event' = TRUE
  /\ UNCHANGED <<kind, u, cpl, transfer, seen, sent, left, cut, admin, waitVars, switchVars>>

\* Mutant of FifoEmpty: the queue stays marked as running.
FifoEmptyKeeps ==
  IF u.fill = 0
  THEN u' = [u EXCEPT !.read_index = 0] /\ UNCHANGED <<fpga, left, cpl>>
  ELSE Push(u, u.is_running)

\* The interrupt of a write queue: the next burst, if there is one.
FifoEmpty ==
  IF u.fill = 0
  THEN /\ u' = [u EXCEPT !.is_running = FALSE, !.read_index = 0]
       /\ UNCHANGED <<fpga, left, cpl>>
  ELSE Push(u, u.is_running)

\* The next k words of the current packet, of which rest are still to come.
BoardWords(k, rest, first, stamp) ==
  [i \in 1 .. k |-> [NoWord EXCEPT
     !.seq = sent + i,
     !.first = first /\ i = 1,
     !.eot = kind.protocol # "RAW" /\ i = rest,
     !.insert_ts = kind.protocol # "RAW" /\ stamp /\ first /\ i = 1]]

\* process_uiq_data: a header names the queue and the length of its packet.  A
\* packet for a write queue follows the draining of its FIFO; packets for queues
\* that do not exist are discarded.
IrqHeader(mine, n) ==
  /\ kind.board = "me6"
  /\ transfer.remaining = 0
  /\ mine /\ IsRead  => sent + n <= MaxWords
  /\ mine /\ IsWrite => event
  /\ event' = (event /\ ~mine)
  /\ transfer' = [remaining |-> n, mine |-> mine, first |-> TRUE]
  /\ UNCHANGED <<kind, u, cpl, fpga, seen, sent, left, cut, admin, waitVars, switchVars>>

\* k more words of the packet are there, and processed under uiq->lock.
IrqPayload(k, stamp) ==
  /\ kind.board = "me6"
  /\ k \in 1 .. transfer.remaining
  /\ transfer' = [transfer EXCEPT !.remaining = @ - k, !.first = FALSE]
  /\ CASE transfer.mine /\ IsRead ->
            /\ u' = WriteAllFromGrabber(kind.protocol, u,
                      BoardWords(k, transfer.remaining, transfer.first, stamp))
            /\ sent' = sent + k
            /\ CompleteFor(u'.fill)
            /\ UNCHANGED <<fpga, left>>
       [] transfer.mine /\ IsWrite /\ k = transfer.remaining ->
            FifoEmpty /\ UNCHANGED sent
       [] ~transfer.mine \/ (IsWrite /\ k < transfer.remaining) ->
            UNCHANGED <<u, cpl, sent, left, fpga>>
  /\ UNCHANGED <<kind, event, seen, cut, admin, waitVars, switchVars>>

\* me5_irq reads the status and then handles the queues one by one.  Masking the
\* interrupt does not stop a handler that has come this far.
UiqIrqSeen ==
  /\ kind.board = "me5" /\ ~masked /\ ~seen
  /\ IsWrite => event
  /\ seen' = TRUE
  /\ UNCHANGED <<kind, u, cpl, transfer, fpga, event, sent, left, cut, admin, waitVars, switchVars>>

\* me5_irq, called for another device on the line or another source: an interrupt
\* that is not wanted is acknowledged and forgotten.
UiqIrqUnwanted ==
  /\ masked /\ event
  /\ event' = FALSE
  /\ UNCHANGED <<kind, u, cpl, transfer, fpga, seen, sent, left, cut, admin, waitVars, switchVars>>

\* uiq_irq with men_uiq_pop_all: n words of a packet are in the board's FIFO.  A
\* full queue loses them all; a LEGACY queue reads them all, a VA_EVENT queue
\* one per interrupt.
UiqIrqRead(n, stamp) ==
  /\ seen /\ IsRead
  /\ seen' = FALSE
  /\ n = transfer.remaining \/ (transfer.remaining = 0 /\ n \in Packets)
  /\ sent + n <= MaxWords
  /\ LET first == transfer.remaining = 0
         k     == IF u.fill = u.capacity \/ kind.protocol = "LEGACY" THEN n ELSE 1
     IN  /\ IF u.fill = u.capacity
            THEN /\ u' = [u EXCEPT !.lost_words_count = @ + k]
                 /\ cut' = cut \cup {"drained"}
                 /\ UNCHANGED cpl
            ELSE /\ u' = WriteAllFromGrabber(kind.protocol, u, BoardWords(k, n, first, stamp))
                 /\ CompleteFor(u'.fill)
                 /\ UNCHANGED cut
         /\ sent' = sent + k
         /\ transfer' = [transfer EXCEPT !.remaining = n - k]
  /\ UNCHANGED <<kind, fpga, event, left, admin, waitVars, switchVars>>

UiqIrqWrite ==
  /\ seen /\ IsWrite
  /\ seen' = FALSE /\ event' = FALSE
  /\ FifoEmpty
  /\ UNCHANGED <<kind, transfer, sent, cut, admin, waitVars, switchVars>>

-----------------------------------------------------------------------------
(* Opening, closing and reconfiguring the board.                           *)

\* is_running is cleared, whatever the board still has.
SwitchOff ==
  /\ u' = [u EXCEPT !.is_running = FALSE]
  /\ offs' = IF u.is_running THEN offs + 1 ELSE offs

\* me5_stopirq masks and acknowledges every interrupt and then, without
\* uiq->lock, switches the queues off; me6_stopirq leaves them alone.  (A section
\* under uiq->lock between the two does what it would do before or after both.)
StopIrq ==
  IF kind.board = "me5"
  THEN masked' = TRUE /\ event' = FALSE /\ SwitchOff
  ELSE UNCHANGED <<masked, event, u, offs>>

\* me5_startirq acknowledges what has come meanwhile.
StartIrq ==
  /\ IF kind.board = "me5" THEN masked' = FALSE /\ event' = FALSE ELSE UNCHANGED <<masked, event>>
  /\ UNCHANGED <<u, offs>>

Switching(from, to) ==
  /\ phase = from /\ phase' = to
  /\ UNCHANGED <<kind, cpl, seen, sent, left, cut, waitVars>>

Requested == admin < MaxAdmin /\ admin' = admin + 1

\* menable_open, the first time.
Open == Switching("closed", "open") /\ StartIrq /\ UNCHANGED <<transfer, fpga, admin>>

\* The last menable_release: men_cleanup_channels stops the interrupts, and then
\* switches the queue off under its lock.
CloseIrq == Requested /\ Switching("open", "closing") /\ StopIrq /\ UNCHANGED <<transfer, fpga>>

CloseQueue ==
  /\ Switching("closing", "closed")
  /\ SwitchOff
  /\ UNCHANGED <<transfer, fpga, event, masked, admin>>

\* A reconfiguration of the FPGA by a client: me5_reconfigure_fpga, me6_ioctl_ex
\* with init_peripherals.  What the board had is gone, and with it the packet under
\* way.  (On microEnable 6 boards one that fails does nothing to the queue.)
ReconfigureStop ==
  /\ Requested
  /\ Switching("open", "stopped")
  /\ StopIrq
  /\ UNCHANGED <<transfer, fpga>>

ReconfigureBoard ==
  /\ Switching("stopped", "fresh")
  /\ fpga' = 0 /\ event' = FALSE
  /\ transfer' = [transfer EXCEPT !.remaining = 0]
  /\ UNCHANGED <<u, masked, offs, admin>>

ReconfigureStart == Switching("fresh", "open") /\ StartIrq /\ UNCHANGED <<transfer, fpga, admin>>

\* men_set_des_name starts the interrupts at any time.
DesignName ==
  /\ kind.board = "me5" /\ Requested
  /\ Switching(phase, phase)
  /\ StartIrq
  /\ UNCHANGED <<transfer, fpga>>

\* What takes place behind the back of a queue.
Switch ==
  \/ Open \/ CloseIrq \/ CloseQueue
  \/ ReconfigureStop \/ ReconfigureBoard \/ ReconfigureStart
  \/ DesignName
  \/ UiqIrqUnwanted

-----------------------------------------------------------------------------
Next ==
  \/ \E size \in Sizes : Resize(size)
  \/ Clear
  \/ \E n \in Requests : ReadCall(n) \/ WriteCall(n)
  \/ Woken \/ Expired
  \/ ReadResume \/ WriteResume
  \/ BoardDrains
  \/ \E mine \in BOOLEAN, n \in Packets : IrqHeader(mine, n)
  \/ \E k \in 1 .. transfer.remaining, stamp \in Stamps : IrqPayload(k, stamp)
  \/ \E n \in 1 .. MaxWords, stamp \in Stamps : UiqIrqRead(n, stamp)
  \/ UiqIrqSeen \/ UiqIrqWrite
  \/ Switch

Spec == Init /\ [][Next]_vars

-----------------------------------------------------------------------------
(* Properties.                                                             *)

\* Words the source has produced since the last clear that are neither in the
\* ring nor gone on.
Missing == sent - left.count - DatumCount(Contents(u))

\* Every word is accounted for: what is neither stored nor handed on was counted
\* in lost_words_count ("number of words that were lost in this uiq",
\* uiq_base.h).  A buffer that shrinks also counts timestamp chunks.
AllWordsAccounted ==
  kind.type # "WRITE_CXP" =>
    /\ Missing <= u.lost_words_count
    /\ "shrunk" \notin cut => Missing = u.lost_words_count

Stream == <<left.last>> \o Contents(u)

Complete(w)   == w.part \in {0, TsWords}
Follows(w, v) == \/ Complete(w) /\ v.part = 0 /\ v.seq = w.seq + 1
                 \/ v.seq = w.seq /\ v.part = w.part + 1
Gap(w, v)     == Complete(w) /\ v.part = 0 /\ v.seq > w.seq + 1

\* Across wraps, resizing and losses the words leave in the order they came, a
\* timestamp right behind its word; and a word carries UIQ_CONTROL_DATALOSS
\* ("data was lost before this value", uiq_defines.h) exactly when words are
\* missing before it.  RAW data has no such flag; what a client clears or cuts
\* off, and what a full queue of a microEnable 5 board drains, is not flagged.
StreamIntact ==
  kind.type # "WRITE_CXP" =>
    \A i \in 1 .. u.fill :
      LET w == Stream[i]
          v == Stream[i + 1]
      IN  /\ v.seq > w.seq \/ (v.seq = w.seq /\ v.part > w.part)
          /\ cut = {} => \/ Follows(w, v) /\ ~v.dataloss
                         \/ Gap(w, v) /\ IsRead /\ (kind.protocol = "RAW" \/ v.dataloss)

\* After a loss an event queue resumes with the first word of a packet, so a
\* reader never takes the rest of a torn packet for a new one.
PacketsNotTorn ==
  kind.protocol = "VA_EVENT" => \A i \in 1 .. u.fill : Contents(u)[i].dataloss => Contents(u)[i].first

\* The board has words of this queue, has drained them, or is reporting it.
Reporting == event \/ seen \/ (transfer.mine /\ transfer.remaining > 0)
InUse     == fpga > 0 \/ Reporting

\* A write queue and its board agree: the queue is running exactly while an
\* interrupt is due for it, and always while words are stored.
Driven ==
  /\ u.is_running <=> InUse
  /\ u.fill > 0 => u.is_running
  /\ fpga > 0 => ~Reporting
  /\ event \/ seen => ~(transfer.mine /\ transfer.remaining > 0)

\* Only being switched off, acknowledged or reconfigured while it is in use can
\* make a write queue and its board disagree: no write, wakeup, request or
\* interrupt leaves words behind that no interrupt will send, in whatever order
\* they come, before the first open, while the board is closed and after a close
\* that found the queue idle.
WriteQueueDriven ==
  [][IsWrite /\ kind.type # "WRITE_CXP" /\ Driven => Driven' \/ (InUse /\ Switch)]_vars

\* The board's FIFO is never given more than it holds, but for one more burst each
\* time is_running was cleared while the board was still draining one.
FpgaFifoBounded == fpga <= FifoDepth * (1 + offs)

\* A sleeping client whose request can be met has been woken, or will be by the
\* interrupt that sends the rest of the queue (which comes while the queue is Driven).
\* (A clear takes a reader out of the count; men_scale_uiq wakes nobody, so a writer
\* whose request was larger than the buffer for a while may sleep until its timeout.)
NoMissedWakeup ==
  wait = "waiting" =>
    /\ IsRead /\ cpltodo # Cleared /\ u.fill >= req => cpl > 0
    /\ IsWrite /\ cpltodo = Cleared => cpl > 0
    /\ IsWrite /\ ~starved /\ GetFreeCapacity(u) >= req => cpl > 0 \/ u.fill > 0

-----------------------------------------------------------------------------
(* What a comment of the source says that the code does not keep.          *)

\* men_uiq_push: "Data that remains in the local buffer will be written on the
\* next call", so what a client wrote is stored or has gone to the board.
PushedDataRemains == IsWrite /\ cut = {} => Missing = 0
=============================================================================
