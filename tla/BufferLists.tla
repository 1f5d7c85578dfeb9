---------------------------- MODULE BufferLists ----------------------------
(***************************************************************************)
(* The buffer bookkeeping of one DMA channel: the four lists a sub-buffer  *)
(* can be linked into, the counters kept beside them, the listname tag in  *)
(* the buffer itself, and the operations that move buffers between lists   *)
(* (linux/menable_mem.c, men_clean_bh in linux/menable_dma.c).             *)
(*                                                                         *)
(* Every operation runs under the channel's listlock, so each is a pure    *)
(* function from the channel record before to the channel record after;    *)
(* DmaChannel says who calls it, when, and under which other locks.        *)
(***************************************************************************)
EXTENDS Integers, Sequences, FiniteSets

CONSTANTS
  Heads,        \* struct menable_dmahead objects
  NumSb,        \* num_sb: slots of every head's bufs[]
  FifoLength,   \* dma_fifo_length: depth of the board's descriptor FIFO
  UintMax       \* largest value of the unsigned int list counters

ASSUME NumSbAssumption      == NumSb \in Nat \ {0}
ASSUME FifoLengthAssumption == FifoLength \in Nat \ {0}
\* (kcalloc refuses a bufs[] with more entries than an unsigned int can count.)
ASSUME UintMaxAssumption    == UintMax \in Nat /\ UintMax >= FifoLength /\ UintMax >= NumSb

\* A sub-buffer is named by its head and its slot; the head's dummy buffer
\* has index -1.
Slots       == 0 .. NumSb - 1
Buf         == Heads \X Slots
DummyBuf(h) == <<h, -1>>
Dummies     == {DummyBuf(h) : h \in Heads}
IsDummy(b)  == b[2] = -1

\* DMA_CONTMODE and DMA_PULSEMODE take the same default branches everywhere.
Modes     == {"CONT", "HANDSHAKE", "SELECTIVE"}
ListNames == {"FREE", "READY", "HOT", "GRABBED", "NO_LIST"}

\* The part of struct menable_dmachan that listlock protects, with the
\* listname and frame_number fields of the sub-buffers.  wild is no field of
\* the code: it records that a step took the first entry of an empty list or
\* unlinked an entry that was in none.  What the kernel does from there is
\* undefined; the model only remembers that it happened.
Channel ==
  [free_list     : Seq(Buf),  free_count    : Nat,
   ready_list    : Seq(Buf),  ready_count   : Nat,
   hot_list      : Seq(Buf \cup Dummies), hot_count : Nat,
   grabbed_list  : Seq(Buf),  grabbed_count : Nat,
   locked_count  : Nat,
   lost_count    : Nat,
   goodcnt       : Nat,
   latest_frame_number : Nat,
   transfer_todo : Int,
   mode          : Modes,
   listname      : [Buf -> ListNames],
   frame_number  : [Buf -> Nat],
   wild          : BOOLEAN]

\* A freshly allocated channel: men_create_dmachan zeroes the structure.
FreshChannel ==
  [free_list    |-> <<>>, free_count    |-> 0,
   ready_list   |-> <<>>, ready_count   |-> 0,
   hot_list     |-> <<>>, hot_count     |-> 0,
   grabbed_list |-> <<>>, grabbed_count |-> 0,
   locked_count |-> 0,
   lost_count   |-> 0,
   goodcnt      |-> 0,
   latest_frame_number |-> 0,
   transfer_todo |-> 0,
   mode         |-> "CONT",
   listname     |-> [b \in Buf |-> "FREE"],
   frame_number |-> [b \in Buf |-> 0],
   wild         |-> FALSE]

\* unsigned int ++ and --.
Inc(n) == IF n = UintMax THEN 0 ELSE n + 1
Dec(n) == IF n = 0 THEN UintMax ELSE n - 1

\* The elements of a list, and list_del of an element from it.
Members(s)   == {s[i] : i \in 1 .. Len(s)}
Unlink(s, b) ==
  IF \E i \in 1 .. Len(s) : s[i] = b
  THEN LET k == CHOOSE i \in 1 .. Len(s) : s[i] = b
       IN  [i \in 1 .. Len(s) - 1 |-> IF i < k THEN s[i] ELSE s[i + 1]]
  ELSE s

-----------------------------------------------------------------------------
(* Starting: men_clean_bh empties every list and then puts the buffers of  *)
(* the head back one by one.                                               *)

ClearLists(c) ==
  [c EXCEPT !.free_list    = <<>>, !.free_count    = 0,
            !.ready_list   = <<>>, !.ready_count   = 0,
            !.hot_list     = <<>>, !.hot_count     = 0,
            !.grabbed_list = <<>>, !.grabbed_count = 0,
            !.locked_count = 0,    !.lost_count    = 0,
            !.goodcnt      = 0]

AddReady(c, b) ==
  [c EXCEPT !.ready_list = Append(@, b), !.ready_count = Inc(@), !.listname[b] = "READY"]

AddFree(c, b) ==
  [c EXCEPT !.free_list = Append(@, b), !.free_count = Inc(@), !.listname[b] = "FREE"]

\* One iteration of men_clean_bh for an existing buffer: in selective mode only
\* the buffers the user has queued (marked READY) are used.
CleanBuffer(c, b) ==
  IF c.mode # "SELECTIVE" \/ c.listname[b] = "READY" THEN AddReady(c, b) ELSE AddFree(c, b)

-----------------------------------------------------------------------------
(* men_dma_queue_max: hand buffers to the board.                           *)

Min2(a, b)  == IF a <= b THEN a ELSE b

\* Mutant of WantsDummy: no dummy buffer while the client holds frames.
WantsDummyUnlessGrabbed(c) ==
  /\ c.transfer_todo > c.hot_count
  /\ c.mode = "HANDSHAKE"
  /\ c.ready_count = 0
  /\ c.hot_count = 0
  /\ c.grabbed_count = 0

WantsDummy(c) ==
  /\ c.transfer_todo > c.hot_count
  /\ c.mode = "HANDSHAKE"
  /\ c.ready_count = 0
  /\ c.hot_count = 0

\* Both operands of the difference are unsigned int.
FreeInFifo(c) == (FifoLength - c.hot_count) % (UintMax + 1)

\* Mutant of NumToQueue: the depth of the board's FIFO is forgotten.
NumToQueueNoFifo(c) ==
  IF c.transfer_todo <= c.hot_count THEN 0
  ELSE Min2(c.transfer_todo - c.hot_count, c.ready_count)

NumToQueue(c) ==
  IF c.transfer_todo <= c.hot_count THEN 0
  ELSE Min2(Min2(c.transfer_todo - c.hot_count, c.ready_count), FreeInFifo(c))

\* The first n entries of a list and the rest.
FirstN(s, n)  == SubSeq(s, 1, Min2(n, Len(s)))
AfterN(s, n)  == SubSeq(s, n + 1, Len(s))

\* The descriptors queue_sb() writes to the board, in order.
Queued(c, h) ==
  IF WantsDummy(c) THEN <<DummyBuf(h)>> ELSE FirstN(c.ready_list, NumToQueue(c))

QueueMax(c, h) ==
  IF WantsDummy(c)
  THEN [c EXCEPT !.hot_list = <<DummyBuf(h)>> \o @, !.hot_count = Inc(@)]
  ELSE LET n == NumToQueue(c)
           q == FirstN(c.ready_list, n)
       IN  [c EXCEPT !.hot_list     = @ \o q,
                     !.ready_list   = AfterN(@, n),
                     !.ready_count  = @ - n,
                     !.hot_count    = (@ + n) % (UintMax + 1),
                     !.wild         = @ \/ n > Len(c.ready_list),
                     !.listname     = [b \in Buf |-> IF b \in Members(q) THEN "HOT" ELSE @[b]],
                     !.frame_number = [b \in Buf |-> IF b \in Members(q) THEN 0 ELSE @[b]]]

-----------------------------------------------------------------------------
(* men_move_hot with a head attached, and the frame number me6_dma_irq     *)
(* stores under the same listlock: one received frame.                     *)

\* Mutants of Received: the entry stays in the hot list; the frame is not
\* numbered.
ReceivedStillHot(c) ==
  [c EXCEPT !.transfer_todo = @ - 1, !.hot_count = Dec(@), !.latest_frame_number = @ + 1]

ReceivedUnnumbered(c) ==
  [c EXCEPT !.transfer_todo = @ - 1, !.hot_count = Dec(@), !.hot_list = Tail(@)]

Received(c) ==
  [c EXCEPT !.transfer_todo = @ - 1, !.hot_count = Dec(@),
            !.latest_frame_number = @ + 1, !.hot_list = Tail(@)]

\* Where a filled buffer goes depends on the acquisition mode.
Deliver(c, b) ==
  LET d == [c EXCEPT !.goodcnt = @ + 1, !.frame_number[b] = c.latest_frame_number]
  IN  CASE c.mode = "HANDSHAKE" ->
             [d EXCEPT !.grabbed_list = Append(@, b), !.grabbed_count = Inc(@),
                       !.listname[b] = "GRABBED"]
        [] c.mode = "SELECTIVE" -> AddFree(d, b)
        [] OTHER                -> AddReady(d, b)

MoveHot(c) ==
  IF c.hot_count = 0 THEN [c EXCEPT !.lost_count = @ + 1]
  ELSE IF c.hot_list = <<>> THEN [c EXCEPT !.wild = TRUE]
  ELSE LET b == Head(c.hot_list)
       IN  IF IsDummy(b)
           THEN [Received(c) EXCEPT !.lost_count = @ + 1]
           ELSE Deliver(Received(c), b)

-----------------------------------------------------------------------------
(* Handshake mode: handing grabbed buffers out and taking them back.       *)

NextBlocked(c) ==
  IF c.grabbed_count = 0 THEN c
  ELSE IF c.grabbed_list = <<>> THEN [c EXCEPT !.wild = TRUE]
  ELSE LET b == Head(c.grabbed_list)
       IN  [c EXCEPT !.grabbed_list = Tail(@), !.grabbed_count = Dec(@),
                     !.locked_count = Inc(@), !.listname[b] = "NO_LIST"]

\* All but the newest grabbed buffer go back to the ready list.
LastBlocked(c) ==
  IF c.grabbed_count = 0 THEN c
  ELSE IF c.grabbed_count > Len(c.grabbed_list) THEN [c EXCEPT !.wild = TRUE]
  ELSE LET n    == c.grabbed_count
           old  == FirstN(c.grabbed_list, n - 1)
           last == c.grabbed_list[n]
       IN  [c EXCEPT !.ready_list = @ \o old, !.ready_count = @ + (n - 1),
                     !.grabbed_list = AfterN(@, n), !.grabbed_count = 0,
                     !.locked_count = Inc(@),
                     !.listname = [b \in Buf |-> IF b = last THEN "NO_LIST"
                                                 ELSE IF b \in Members(old) THEN "READY"
                                                 ELSE @[b]]]

\* Mutant of Unblocked: a buffer taken back stays counted as locked.
UnblockedStillLocked(c, b) ==
  CASE c.listname[b] = "GRABBED" ->
         [AddReady(c, b) EXCEPT !.grabbed_list = Unlink(@, b), !.grabbed_count = Dec(@)]
    [] c.listname[b] = "NO_LIST" -> AddReady(c, b)
    [] OTHER -> c

\* men_unblock_buffer up to its last statement; buffers that are HOT, FREE or
\* READY are left alone.
Unblocked(c, b) ==
  CASE c.listname[b] = "GRABBED" ->
         [AddReady(c, b) EXCEPT !.grabbed_list = Unlink(@, b), !.grabbed_count = Dec(@)]
    [] c.listname[b] = "NO_LIST" ->
         [AddReady(c, b) EXCEPT !.locked_count = Dec(@)]
    [] OTHER -> c

RefillAfterUnblock(c, b) ==
  /\ c.listname[b] \in {"GRABBED", "NO_LIST"}
  /\ c.hot_count <= 1
  /\ Unblocked(c, b).ready_count > 0

UnblockBuffer(c, b, h) ==
  IF RefillAfterUnblock(c, b) THEN QueueMax(Unblocked(c, b), h) ELSE Unblocked(c, b)

UnblockQueues(c, b, h) ==
  IF RefillAfterUnblock(c, b) THEN Queued(Unblocked(c, b), h) ELSE <<>>

-----------------------------------------------------------------------------
(* Selective mode: list_move_tail to the ready list by men_queue_buffer.   *)

\* Mutant of MoveToReady: the buffer stays counted as free.
MoveToReadyStillFree(c, b) ==
  [c EXCEPT !.free_list    = Unlink(@, b),
            !.hot_list     = Unlink(@, b),
            !.grabbed_list = Unlink(@, b),
            !.ready_list   = Append(Unlink(@, b), b),
            !.listname[b]  = "READY",
            !.ready_count  = Inc(@)]

MoveToReady(c, b) ==
  [c EXCEPT !.free_list    = Unlink(@, b),
            !.hot_list     = Unlink(@, b),
            !.grabbed_list = Unlink(@, b),
            !.ready_list   = Append(Unlink(@, b), b),
            !.listname[b]  = "READY",
            !.free_count   = Dec(@),
            !.ready_count  = Inc(@),
            !.wild         = @ \/ c.listname[b] = "NO_LIST"]

\* Mutant of RemoveBuffer: the buffer is unlinked but stays counted.
RemoveBufferStillCounted(c, b) ==
  [c EXCEPT !.free_list    = Unlink(@, b), !.ready_list   = Unlink(@, b),
            !.hot_list     = Unlink(@, b), !.grabbed_list = Unlink(@, b)]

\* men_free_userbuf: unlink the buffer and decrement the counter its listname
\* selects.
RemoveBuffer(c, b) ==
  LET l == c.listname[b]
      Drop(name, n) == IF l = name THEN Dec(n) ELSE n
  IN  [c EXCEPT !.free_list     = Unlink(@, b), !.free_count    = Drop("FREE", @),
                !.ready_list    = Unlink(@, b), !.ready_count   = Drop("READY", @),
                !.hot_list      = Unlink(@, b), !.hot_count     = Drop("HOT", @),
                !.grabbed_list  = Unlink(@, b), !.grabbed_count = Drop("GRABBED", @),
                !.locked_count  = Drop("NO_LIST", @)]
=============================================================================
