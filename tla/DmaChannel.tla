----------------------------- MODULE DmaChannel -----------------------------
(***************************************************************************)
(* One DMA channel of a board and everything that drives it: the ioctls    *)
(* that register buffers, start and stop acquisitions, hand frames out and *)
(* wait for them; the DMA interrupt; the work item that finishes a stop;   *)
(* the acquisition timer; closing the device file; and the board's DMA     *)
(* engine, as far as the driver relies on it.                              *)
(*                                                                         *)
(* Locks.  buffer_heads_lock ("bh"), chanlock and listlock are not         *)
(* variables: who holds them follows from the program counters of the few  *)
(* activities that release and retake locks half way (BhFree, ChanFree and *)
(* ListFree below).  A section under locks that nobody can observe half    *)
(* done is one action.                                                     *)
(***************************************************************************)
EXTENDS BufferLists

CONSTANTS
  Threads,       \* threads in ioctls of several lock sections: start, unlock all, close
  Waiters,       \* threads in men_wait_dmaimg
  StartModes,    \* acquisition modes used by the clients
  Todos,         \* finite frame counts used to start (bounds goodcnt)
  Timeouts,      \* whether acquisitions are started with a timeout
  WaitFrames,    \* frame numbers that are waited for
  MaxStarts,     \* bound on the number of start requests
  ClientOps,     \* the optional operations the clients of this instance use
  Faults,        \* hardware faults that can occur
  QueueAnyList,  \* clients queue buffers that are not in the FREE list
  FreeUnderStart,\* clients free a head while another thread starts on it
  NoHead         \* the NULL of menable_dmahead pointers

AllClientOps ==
  {"free_userbuf", "free_head", "close", "get_next", "get_act", "unlock", "unlock_all", "queue"}
FaultKinds == {"start_fails", "stop_times_out", "irq_overflow"}

ASSUME ChannelAssumption ==
  /\ StartModes \subseteq Modes
  /\ Todos \subseteq Nat \ {0}
  /\ WaitFrames \subseteq Nat \ {0}
  /\ Timeouts \subseteq BOOLEAN
  /\ MaxStarts \in Nat
  /\ ClientOps \subseteq AllClientOps
  /\ Faults \subseteq FaultKinds
  /\ QueueAnyList \in BOOLEAN
  /\ FreeUnderStart \in BOOLEAN
  /\ NoHead \notin Heads

VARIABLES
  chan,        \* lists, counters and mode of the channel (BufferLists)
  state,       \* chan.state
  active,      \* chan.active
  timeout,     \* chan.timeout # 0
  timerArmed,  \* chan.timer is enqueued
  timerRunning,\* the timer's callback has begun and waits for its locks
  dwork,       \* chan.dwork is pending
  heads,       \* buffer_heads_list
  linked,      \* heads whose chan pointer is this channel (NULL otherwise)
  bufs,        \* registered sub-buffers: head.bufs[i] # NULL
  open,        \* some file handle is open (men.use > 0)
  thr,         \* progress of the threads in multi-section ioctls
  waits,       \* progress of the waiters and their completions
  irq,         \* progress of the DMA interrupt handler
  engine,      \* the board's DMA engine
  starts,      \* start requests so far
  hung         \* a CPU spins in hrtimer_cancel() with chanlock held

vars == <<chan, state, active, timeout, timerArmed, timerRunning, dwork, heads,
          linked, bufs, open, thr, waits, irq, engine, starts, hung>>

timerVars == <<timeout, timerArmed, timerRunning>>
memVars   == <<heads, linked, bufs>>
hwVars    == <<irq, engine>>
lifeVars  == <<open, starts>>

States == {"STARTING", "STARTED", "STOPPING", "STOPPED"}

ThreadPcs == {"idle", "window", "relock", "locked", "begin", "clean", "unlock", "close"}
Thread ==
  [pc : ThreadPcs, head : Heads \cup {NoHead}, slot : Slots, idx : 0 .. NumSb,
   todo : Todos \cup {0}, mode : Modes, timeout : BOOLEAN,
   cancelled : BOOLEAN, moved : BOOLEAN]
IdleThread ==
  [pc |-> "idle", head |-> NoHead, slot |-> 0, idx |-> 0, todo |-> 0, mode |-> "CONT",
   timeout |-> FALSE, cancelled |-> FALSE, moved |-> FALSE]

Waiter == [sleeping : BOOLEAN, frame : WaitFrames \cup {0}, done : BOOLEAN]
AwakeWaiter == [sleeping |-> FALSE, frame |-> 0, done |-> FALSE]

\* line: the interrupt is raised.  got: the transfers the handler has collected
\* from the count register and not yet booked.  fresh: that count was not zero.
\* stale (history): the current acquisition began with transfers of an earlier
\* one in the handler's hands, or has lost transfers to a counter overflow.
Irq == [pc : {"idle", "entered", "read", "frames"}, line : BOOLEAN,
        got : Seq(Buf \cup Dummies), fresh : BOOLEAN, stale : BOOLEAN]
IdleIrq == [pc |-> "idle", line |-> FALSE, got |-> <<>>, fresh |-> FALSE, stale |-> FALSE]

\* fifo: descriptors queued.  done: transfers finished and counted by the
\* interrupt count register, not yet collected.
Engine == [running : BOOLEAN, fifo : Seq(Buf \cup Dummies), done : Seq(Buf \cup Dummies)]
ResetEngine == [running |-> FALSE, fifo |-> <<>>, done |-> <<>>]

TypeOK ==
  /\ chan \in Channel
  /\ state \in States
  /\ active \in Heads \cup {NoHead}
  /\ timeout \in BOOLEAN
  /\ timerArmed \in BOOLEAN
  /\ timerRunning \in BOOLEAN
  /\ dwork \in BOOLEAN
  /\ heads \in SUBSET Heads
  /\ linked \in SUBSET Heads
  /\ bufs \in SUBSET Buf
  /\ open \in BOOLEAN
  /\ thr \in [Threads -> Thread]
  /\ waits \in [Waiters -> Waiter]
  /\ irq \in Irq
  /\ engine \in Engine
  /\ starts \in 0 .. MaxStarts
  /\ hung \in BOOLEAN

-----------------------------------------------------------------------------
(* Who holds which lock between two actions.                               *)

HoldsBh(t)   == thr[t].pc \in {"locked", "begin", "clean", "unlock", "close"}
HoldsChan(t) == thr[t].pc \in {"begin", "clean"}
HoldsList(t) == thr[t].pc \in {"clean", "unlock"}

BhFree   == ~hung /\ \A t \in Threads : ~HoldsBh(t)
ChanFree == ~hung /\ irq.pc # "frames" /\ \A t \in Threads : ~HoldsChan(t)
ListFree == \A t \in Threads : ~HoldsList(t)

\* complete() every waiter for which P holds.
CompleteIf(P(_)) ==
  waits' = [w \in Waiters |-> IF waits[w].sleeping /\ P(waits[w])
                              THEN [waits[w] EXCEPT !.done = TRUE] ELSE waits[w]]
CompleteAll == CompleteIf(LAMBDA w : TRUE)

\* me6_stopdma: the board may fail to confirm, which is only logged.
StopResults == IF "stop_times_out" \in Faults THEN BOOLEAN ELSE {FALSE}
StopDma     == \E r \in StopResults : engine' = [engine EXCEPT !.running = @ /\ r]

\* Mutant of CleanSync: the waiters are not completed.
CleanSyncNoWakeup(c) ==
  /\ ~timerRunning
  /\ timerArmed' = FALSE
  /\ state' = "STOPPED"
  /\ chan' = [c EXCEPT !.transfer_todo = 0]
  /\ UNCHANGED <<waits, hung>>

\* men_dma_clean_sync after its stopdma call, with the channel record c.
\* hrtimer_cancel() waits for a callback that has begun, and that callback waits
\* for chanlock, which the caller holds.
CleanSync(c) ==
  IF timerRunning
  THEN /\ hung' = TRUE
       /\ state' = "STOPPING"
       /\ chan' = c
       /\ UNCHANGED <<timerArmed, waits>>
  ELSE /\ timerArmed' = FALSE
       /\ state' = "STOPPED"
       /\ chan' = [c EXCEPT !.transfer_todo = 0]
       /\ CompleteAll
       /\ UNCHANGED hung

-----------------------------------------------------------------------------
Init ==
  /\ chan = FreshChannel
  /\ state = "STARTING"
  /\ active = NoHead
  /\ timeout = FALSE
  /\ timerArmed = FALSE
  /\ timerRunning = FALSE
  /\ dwork = FALSE
  /\ heads = {}
  /\ linked = {}
  /\ bufs = {}
  /\ open = FALSE
  /\ thr = [t \in Threads |-> IdleThread]
  /\ waits = [w \in Waiters |-> AwakeWaiter]
  /\ irq = IdleIrq
  /\ engine = ResetEngine
  /\ starts = 0
  /\ hung = FALSE

-----------------------------------------------------------------------------
(* Registering and removing buffers.                                       *)

Open ==
  /\ ~open
  /\ open' = TRUE
  /\ UNCHANGED <<chan, state, active, dwork, thr, waits, starts, hung, timerVars, memVars, hwVars>>

\* men_create_buf_head
CreateHead(h) ==
  /\ open /\ BhFree
  /\ h \notin heads
  /\ heads' = heads \cup {h}
  /\ UNCHANGED <<chan, state, active, dwork, linked, bufs, thr, waits, hung, timerVars, hwVars, lifeVars>>

\* men_create_userbuf: the new buffer joins the free list of the head's channel.
CreateUserbuf(b) ==
  /\ open /\ BhFree
  /\ b[1] \in heads /\ b \notin bufs
  /\ bufs' = bufs \cup {b}
  /\ LET c == [chan EXCEPT !.listname[b] = "FREE", !.frame_number[b] = 0]
     IN  IF b[1] \in linked
         THEN ListFree /\ chan' = AddFree(c, b)
         ELSE chan' = c
  /\ UNCHANGED <<state, active, dwork, heads, linked, thr, waits, hung, timerVars, hwVars, lifeVars>>

\* Mutant of FreeUserbuf: a buffer in the hardware queue is not refused.
FreeUserbufHot(b) ==
  /\ "free_userbuf" \in ClientOps
  /\ open /\ BhFree
  /\ b \in bufs
  /\ IF b[1] \in linked
     THEN ChanFree /\ ListFree /\ chan' = RemoveBuffer(chan, b)
     ELSE UNCHANGED chan
  /\ bufs' = bufs \ {b}
  /\ UNCHANGED <<state, active, dwork, heads, linked, thr, waits, hung, timerVars, hwVars, lifeVars>>

\* men_ioctl_del_virt_user_buffer with men_free_userbuf: a buffer in the
\* hardware queue is refused unless the channel is stopped.
FreeUserbuf(b) ==
  /\ "free_userbuf" \in ClientOps
  /\ open /\ BhFree
  /\ b \in bufs
  /\ IF b[1] \in linked
     THEN /\ ChanFree /\ ListFree
          /\ ~(state # "STOPPED" /\ chan.listname[b] = "HOT")
          /\ chan' = RemoveBuffer(chan, b)
     ELSE UNCHANGED chan
  /\ bufs' = bufs \ {b}
  /\ UNCHANGED <<state, active, dwork, heads, linked, thr, waits, hung, timerVars, hwVars, lifeVars>>

\* Threads that looked a head up before their lock was dropped hold a stale
\* pointer once it is freed.
MarkMoved(H) ==
  thr' = [t \in Threads |-> IF thr[t].pc \in {"window", "relock"} /\ thr[t].head \in H
                            THEN [thr[t] EXCEPT !.moved = TRUE] ELSE thr[t]]

\* Mutant of ReleaseHeads: the channel keeps its pointer to the head.
ReleaseHeadsStillActive(H) ==
  /\ heads' = heads \ H
  /\ linked' = linked \ H
  /\ bufs' = {b \in bufs : b[1] \notin H}
  /\ UNCHANGED active

\* men_release_buf_head and men_free_buf_head for every head in H.
ReleaseHeads(H) ==
  /\ active' = IF linked \cap H # {} /\ state # "STARTED" THEN NoHead ELSE active
  /\ heads' = heads \ H
  /\ linked' = linked \ H
  /\ bufs' = {b \in bufs : b[1] \notin H}

\* men_ioctl_free_virt_buffer
FreeBufHead(h) ==
  /\ "free_head" \in ClientOps
  /\ open /\ BhFree
  /\ h \in heads
  /\ h \in linked => ChanFree /\ state # "STARTED"
  /\ FreeUnderStart \/ \A t \in Threads : thr[t].pc \in {"window", "relock"} => thr[t].head # h
  /\ ReleaseHeads({h})
  /\ MarkMoved({h})
  /\ UNCHANGED <<chan, state, dwork, waits, hung, timerVars, hwVars, lifeVars>>

-----------------------------------------------------------------------------
(* fg_start_transfer.                                                      *)

\* Mutant of StartCheck: a start on a started channel is not refused early.
StartCheckStarted(t, b, todo, mode, tmo) ==
  /\ open /\ BhFree
  /\ thr[t].pc = "idle"
  /\ starts < MaxStarts
  /\ b[1] \in heads /\ b \in bufs
  /\ starts' = starts + 1
  /\ thr' = [thr EXCEPT ![t] =
               [pc |-> IF state = "STOPPING" THEN "window" ELSE "locked",
                head |-> b[1], slot |-> b[2], idx |-> 0, todo |-> todo, mode |-> mode,
                timeout |-> tmo, cancelled |-> FALSE, moved |-> FALSE]]
  /\ UNCHANGED <<chan, state, active, dwork, waits, hung, timerVars, memVars, hwVars, open>>

\* First section, under buffer_heads_lock: the argument checks.  The channel
\* state is read without chanlock.
StartCheck(t, b, todo, mode, tmo) ==
  /\ open /\ BhFree
  /\ thr[t].pc = "idle"
  /\ starts < MaxStarts
  /\ b[1] \in heads /\ b \in bufs
  /\ state # "STARTED"
  /\ starts' = starts + 1
  /\ thr' = [thr EXCEPT ![t] =
               [pc |-> IF state = "STOPPING" THEN "window" ELSE "locked",
                head |-> b[1], slot |-> b[2], idx |-> 0, todo |-> todo, mode |-> mode,
                timeout |-> tmo, cancelled |-> FALSE, moved |-> FALSE]]
  /\ UNCHANGED <<chan, state, active, dwork, waits, hung, timerVars, memVars, hwVars, open>>

\* Mutant of StartCancelWork: the result of cancel_work_sync is ignored.
StartCancelWorkUnnoticed(t) ==
  /\ thr[t].pc = "window"
  /\ thr' = [thr EXCEPT ![t].pc = "relock"]
  /\ dwork' = FALSE
  /\ UNCHANGED <<chan, state, active, waits, hung, timerVars, memVars, hwVars, lifeVars>>

\* buffer_heads_lock is dropped: cancel_work_sync.
StartCancelWork(t) ==
  /\ thr[t].pc = "window"
  /\ thr' = [thr EXCEPT ![t].pc = "relock", ![t].cancelled = dwork]
  /\ dwork' = FALSE
  /\ UNCHANGED <<chan, state, active, waits, hung, timerVars, memVars, hwVars, lifeVars>>

\* The head is gone when it is looked up again.
StartHeadGone(t) ==
  /\ thr[t].pc = "relock" /\ BhFree
  /\ thr[t].head \notin heads
  /\ thr' = [thr EXCEPT ![t] = IdleThread]
  /\ UNCHANGED <<chan, state, active, dwork, waits, hung, timerVars, memVars, hwVars, lifeVars>>

\* Under both locks: finish the stop ourselves if we cancelled the work, then
\* go on only if the channel is stopped and the head is still the same object.
\* A head created anew may or may not have the address of the freed one.
StartRelock(t) ==
  /\ thr[t].pc = "relock" /\ BhFree /\ ChanFree
  /\ thr[t].head \in heads
  /\ IF thr[t].cancelled /\ state = "STOPPING"
     THEN ListFree /\ StopDma /\ CleanSync(chan)
     ELSE UNCHANGED <<engine, timerArmed, state, chan, waits, hung>>
  /\ \E same \in IF thr[t].moved THEN BOOLEAN ELSE {TRUE} :
       thr' = [thr EXCEPT ![t] = IF state' = "STOPPED" /\ same
                                 THEN [@ EXCEPT !.pc = "begin"] ELSE IdleThread]
  /\ UNCHANGED <<active, timeout, timerRunning, dwork, irq, memVars, lifeVars>>

\* The channel was not stopping: just take chanlock.
StartLock(t) ==
  /\ thr[t].pc = "locked" /\ ChanFree
  /\ thr' = [thr EXCEPT ![t].pc = "begin"]
  /\ UNCHANGED <<chan, state, active, dwork, waits, hung, timerVars, memVars, hwVars, lifeVars>>

\* men_start_dma refuses: the head is linked to a channel that is not stopped.
StartRefused(t) == thr[t].head \in linked /\ state # "STOPPED"

\* Mutant of StoreRequest: the number of frames is not stored.
StoreRequestNoTodo(t) == [chan EXCEPT !.mode = thr[t].mode, !.latest_frame_number = 0]

\* The request is stored in the channel.  INIT_WORK on a pending work item
\* leaves it queued or loses it.
StoreRequest(t) ==
  [chan EXCEPT !.transfer_todo = thr[t].todo, !.mode = thr[t].mode,
               !.latest_frame_number = 0]

InitWork == IF dwork THEN dwork' \in BOOLEAN ELSE UNCHANGED dwork

StartBusy(t) ==
  /\ thr[t].pc = "begin" /\ ListFree
  /\ StartRefused(t)
  /\ timeout' = thr[t].timeout
  /\ InitWork
  /\ StopDma
  /\ CleanSync(StoreRequest(t))
  /\ thr' = [thr EXCEPT ![t] = IdleThread]
  /\ UNCHANGED <<active, timerRunning, irq, memVars, lifeVars>>

\* men_start_dma accepts: take the head over and empty the lists.
StartBegin(t) ==
  /\ thr[t].pc = "begin" /\ ListFree
  /\ ~StartRefused(t)
  /\ timeout' = thr[t].timeout
  /\ InitWork
  /\ chan' = ClearLists(StoreRequest(t))
  /\ linked' = IF active # thr[t].head THEN linked \ {active} ELSE linked
  /\ active' = thr[t].head
  /\ state' = "STARTING"
  /\ thr' = [thr EXCEPT ![t].pc = "clean"]
  /\ UNCHANGED <<timerArmed, timerRunning, heads, bufs, waits, hung, hwVars, lifeVars>>

\* Mutant of StartCleanBuffer: the loop runs once too often.
StartCleanBufferPastEnd(t) ==
  LET b == <<active, (thr[t].slot + thr[t].idx) % NumSb>>
  IN  /\ thr[t].pc = "clean"
      /\ thr[t].idx <= NumSb
      /\ chan' = IF b \in bufs THEN CleanBuffer(chan, b) ELSE chan
      /\ thr' = [thr EXCEPT ![t].idx = @ + 1]
      /\ UNCHANGED <<state, active, dwork, waits, hung, timerVars, memVars, hwVars, lifeVars>>

\* One iteration of the loop in men_clean_bh.
StartCleanBuffer(t) ==
  LET b == <<active, (thr[t].slot + thr[t].idx) % NumSb>>
  IN  /\ thr[t].pc = "clean"
      /\ thr[t].idx < NumSb
      /\ chan' = IF b \in bufs THEN CleanBuffer(chan, b) ELSE chan
      /\ thr' = [thr EXCEPT ![t].idx = @ + 1]
      /\ UNCHANGED <<state, active, dwork, waits, hung, timerVars, memVars, hwVars, lifeVars>>

NothingReady == chan.ready_count = 0 /\ chan.mode # "SELECTIVE"

\* No buffer is ready (-ENODEV), or the board does not start: the channel goes
\* through STOPPING and men_dma_clean_sync while the locks are held.
StartFails(t) ==
  /\ thr[t].pc = "clean" /\ thr[t].idx = NumSb
  /\ \/ /\ NothingReady
        /\ StopDma
        /\ CleanSync(chan)
        /\ UNCHANGED irq
     \/ /\ ~NothingReady
        /\ "start_fails" \in Faults
        /\ engine' = [ResetEngine EXCEPT !.fifo = Queued(chan, active)]
        /\ CleanSync(QueueMax(chan, active))
        /\ irq' = [irq EXCEPT !.stale = irq.got # <<>>]
  /\ linked' = linked \cup {active}
  /\ thr' = [thr EXCEPT ![t] = IdleThread]
  /\ UNCHANGED <<active, timeout, timerRunning, dwork, heads, bufs, lifeVars>>

\* me6_startdma resets the engine, queues what is ready and enables the engine;
\* men_start_dma then arms the timer.
StartSucceeds(t) ==
  /\ thr[t].pc = "clean" /\ thr[t].idx = NumSb
  /\ ~NothingReady
  /\ linked' = linked \cup {active}
  /\ engine' = [running |-> TRUE, fifo |-> Queued(chan, active), done |-> <<>>]
  /\ chan' = QueueMax(chan, active)
  /\ timerArmed' = (timerArmed \/ timeout)
  /\ state' = "STARTED"
  /\ irq' = [irq EXCEPT !.stale = irq.got # <<>>]
  /\ thr' = [thr EXCEPT ![t] = IdleThread]
  /\ UNCHANGED <<active, timeout, timerRunning, dwork, heads, bufs, waits, hung, lifeVars>>

-----------------------------------------------------------------------------
(* Stopping.                                                               *)

\* Mutants of StopLocked: the work item is not scheduled; the state is left for
\* the work item to change.
StopLockedNoWork ==
  IF chan.transfer_todo > 0
  THEN /\ chan' = [chan EXCEPT !.transfer_todo = 0]
       /\ state' = "STOPPING"
       /\ UNCHANGED dwork
  ELSE UNCHANGED <<chan, state, dwork>>

StopLockedStillStarted ==
  IF chan.transfer_todo > 0
  THEN chan' = [chan EXCEPT !.transfer_todo = 0] /\ dwork' = TRUE /\ UNCHANGED state
  ELSE UNCHANGED <<chan, state, dwork>>

\* men_stop_dma_locked
StopLocked ==
  IF chan.transfer_todo > 0
  THEN /\ chan' = [chan EXCEPT !.transfer_todo = 0]
       /\ state' = "STOPPING"
       /\ dwork' = TRUE
  ELSE UNCHANGED <<chan, state, dwork>>

\* men_stop_dma
Stop ==
  /\ open /\ BhFree /\ ChanFree /\ ListFree
  /\ state = "STARTED"
  /\ StopLocked
  /\ UNCHANGED <<active, thr, waits, hung, timerVars, memVars, hwVars, lifeVars>>

\* men_dma_done_work
DoneWork ==
  /\ dwork /\ BhFree /\ ChanFree /\ ListFree
  /\ dwork' = FALSE
  /\ IF state = "STOPPING"
     THEN StopDma /\ CleanSync(chan)
     ELSE UNCHANGED <<engine, timerArmed, state, chan, waits, hung>>
  /\ UNCHANGED <<active, timeout, timerRunning, thr, irq, memVars, lifeVars>>

TimerExpires ==
  /\ timerArmed /\ ~timerRunning
  /\ timerArmed' = FALSE
  /\ timerRunning' = TRUE
  /\ UNCHANGED <<chan, state, active, timeout, dwork, thr, waits, hung, memVars, hwVars, lifeVars>>

\* men_dma_timeout once it has its locks.  timerlock is only ever held together
\* with chanlock, so its trylock succeeds here.
DmaTimeout ==
  /\ timerRunning /\ BhFree /\ ChanFree /\ ListFree
  /\ timerRunning' = FALSE
  /\ engine' = ResetEngine
  /\ state' = "STOPPED"
  /\ CompleteAll
  /\ UNCHANGED <<chan, active, timeout, timerArmed, dwork, thr, irq, hung, memVars, lifeVars>>

\* The last close: men_cleanup_channels under buffer_heads_lock and boardlock,
\* without chanlock ...
CloseChannels(t) ==
  /\ "close" \in ClientOps
  /\ open /\ BhFree /\ ListFree
  /\ \A u \in Threads : thr[u].pc = "idle"
  /\ \A w \in Waiters : ~waits[w].sleeping
  /\ open' = FALSE
  /\ IF state = "STARTED" THEN StopLocked ELSE UNCHANGED <<chan, state, dwork>>
  /\ thr' = [thr EXCEPT ![t].pc = "close"]
  /\ UNCHANGED <<active, waits, starts, hung, timerVars, memVars, hwVars>>

\* ... then men_cleanup_mem releases every head under chanlock and frees it,
\* whether or not the release was refused.
CloseMem(t) ==
  /\ thr[t].pc = "close"
  /\ linked # {} => ChanFree
  /\ ReleaseHeads(heads)
  /\ thr' = [thr EXCEPT ![t] = IdleThread]
  /\ UNCHANGED <<chan, state, dwork, waits, hung, timerVars, hwVars, lifeVars>>

-----------------------------------------------------------------------------
(* The DMA engine and its interrupt (me6_dma_irq).                         *)

\* The board fills the oldest queued buffer and raises the interrupt.
EngineTransfers ==
  /\ engine.running /\ engine.fifo # <<>>
  /\ engine' = [engine EXCEPT !.fifo = Tail(@), !.done = Append(@, Head(engine.fifo))]
  /\ irq' = [irq EXCEPT !.line = TRUE]
  /\ UNCHANGED <<chan, state, active, dwork, thr, waits, hung, timerVars, memVars, lifeVars>>

IrqEnter ==
  /\ irq.pc = "idle" /\ irq.line
  /\ irq' = [irq EXCEPT !.pc = "entered", !.line = FALSE]
  /\ UNCHANGED <<chan, state, active, dwork, thr, waits, engine, hung, timerVars, memVars, lifeVars>>

\* The count register is read (and thereby cleared) before chanlock is taken.
IrqRead ==
  /\ irq.pc = "entered"
  /\ irq' = [irq EXCEPT !.pc = "read", !.got = engine.done, !.fresh = (engine.done # <<>>)]
  /\ engine' = [engine EXCEPT !.done = <<>>]
  /\ UNCHANGED <<chan, state, active, dwork, thr, waits, hung, timerVars, memVars, lifeVars>>

\* The count register has overflowed: nothing is booked.
IrqOverflow ==
  /\ irq.pc = "entered"
  /\ "irq_overflow" \in Faults
  /\ irq' = [irq EXCEPT !.pc = "idle", !.stale = TRUE]
  /\ engine' = [engine EXCEPT !.done = <<>>]
  /\ chan' = [chan EXCEPT !.lost_count = @ + 1]
  /\ UNCHANGED <<state, active, dwork, thr, waits, hung, timerVars, memVars, lifeVars>>

\* chanlock is taken; without a head the frames are only counted as lost.
IrqLock ==
  /\ irq.pc = "read" /\ ChanFree
  /\ IF active = NoHead
     THEN /\ chan' = [chan EXCEPT !.lost_count = @ + Len(irq.got)]
          /\ irq' = [irq EXCEPT !.pc = "idle", !.got = <<>>, !.fresh = FALSE]
     ELSE /\ irq' = [irq EXCEPT !.pc = "frames"]
          /\ UNCHANGED chan
  /\ UNCHANGED <<state, active, dwork, thr, waits, engine, hung, timerVars, memVars, lifeVars>>

\* One frame under listlock, which is released between two frames.
IrqFrame ==
  /\ irq.pc = "frames" /\ ~hung /\ ListFree
  /\ irq.got # <<>>
  /\ chan' = MoveHot(chan)
  /\ irq' = [irq EXCEPT !.got = Tail(@)]
  /\ UNCHANGED <<state, active, dwork, thr, waits, engine, hung, timerVars, memVars, lifeVars>>

\* All frames are booked: wake the waiters, then refill the board and restart
\* the timer, or begin the stop.
IrqFinish ==
  /\ irq.pc = "frames" /\ ~hung /\ ListFree
  /\ irq.got = <<>>
  /\ CompleteIf(LAMBDA w : w.frame <= chan.goodcnt)
  /\ IF chan.transfer_todo > 0
     THEN /\ chan' = IF irq.fresh THEN QueueMax(chan, active) ELSE chan
          /\ engine' = [engine EXCEPT !.fifo = IF irq.fresh THEN @ \o Queued(chan, active) ELSE @]
          /\ IF timeout /\ timerRunning
             THEN hung' = TRUE /\ UNCHANGED <<timerArmed, irq>>
             ELSE /\ timerArmed' = (timerArmed \/ timeout)
                  /\ irq' = [irq EXCEPT !.pc = "idle", !.fresh = FALSE]
                  /\ UNCHANGED hung
          /\ UNCHANGED <<state, dwork>>
     ELSE /\ state' = "STOPPING"
          /\ dwork' = TRUE
          /\ irq' = [irq EXCEPT !.pc = "idle", !.fresh = FALSE]
          /\ UNCHANGED <<chan, engine, timerArmed, hung>>
  /\ UNCHANGED <<active, timeout, timerRunning, thr, memVars, lifeVars>>

-----------------------------------------------------------------------------
(* Frames and buffers in the hands of the client.                          *)

ClientListSection(h) == open /\ BhFree /\ ListFree /\ h \in heads \cap linked

\* men_ioctl_get_handshake_dma_buffer: SEL_NEXT_IMAGE and SEL_ACT_IMAGE.
GetNextImage(h) ==
  /\ "get_next" \in ClientOps
  /\ ClientListSection(h)
  /\ chan' = NextBlocked(chan)
  /\ UNCHANGED <<state, active, dwork, thr, waits, hung, timerVars, memVars, hwVars, lifeVars>>

GetActImage(h) ==
  /\ "get_act" \in ClientOps
  /\ ClientListSection(h)
  /\ chan' = LastBlocked(chan)
  /\ UNCHANGED <<state, active, dwork, thr, waits, hung, timerVars, memVars, hwVars, lifeVars>>

Unblock(b) ==
  /\ chan' = UnblockBuffer(chan, b, active)
  /\ engine' = [engine EXCEPT !.fifo = @ \o UnblockQueues(chan, b, active)]

\* men_ioctl_unlock_buffer for one buffer ...
UnlockBuffer(b) ==
  /\ "unlock" \in ClientOps
  /\ ClientListSection(b[1])
  /\ b \in bufs
  /\ Unblock(b)
  /\ UNCHANGED <<state, active, dwork, thr, waits, irq, hung, timerVars, memVars, lifeVars>>

\* ... and for all of them (index -1), one loop iteration per step.
UnlockAllBegin(t, h) ==
  /\ "unlock_all" \in ClientOps
  /\ ClientListSection(h)
  /\ thr[t].pc = "idle"
  /\ thr' = [thr EXCEPT ![t] = [IdleThread EXCEPT !.pc = "unlock", !.head = h]]
  /\ UNCHANGED <<chan, state, active, dwork, waits, hung, timerVars, memVars, hwVars, lifeVars>>

UnlockAllStep(t) ==
  LET b == <<thr[t].head, thr[t].idx>>
  IN  /\ thr[t].pc = "unlock"
      /\ thr[t].idx < NumSb
      /\ IF b \in bufs THEN Unblock(b) ELSE UNCHANGED <<chan, engine>>
      /\ thr' = [thr EXCEPT ![t].idx = @ + 1]
      /\ UNCHANGED <<state, active, dwork, waits, irq, hung, timerVars, memVars, lifeVars>>

UnlockAllEnd(t) ==
  /\ thr[t].pc = "unlock"
  /\ thr[t].idx = NumSb
  /\ thr' = [thr EXCEPT ![t] = IdleThread]
  /\ UNCHANGED <<chan, state, active, dwork, waits, hung, timerVars, memVars, hwVars, lifeVars>>

\* men_queue_buffer.  A buffer outside the FREE list only draws a warning;
\* without a running acquisition the buffer is marked, not moved.
QueueBuffer(b) ==
  /\ "queue" \in ClientOps
  /\ open /\ BhFree
  /\ b[1] \in heads /\ b \in bufs
  /\ QueueAnyList \/ chan.listname[b] = "FREE"
  /\ IF b[1] \notin linked \/ state \in {"STOPPED", "STOPPING"}
     THEN /\ chan' = [chan EXCEPT !.listname[b] = "READY"]
          /\ UNCHANGED engine
     ELSE /\ chan.mode = "SELECTIVE" /\ ListFree
          /\ LET c == MoveToReady(chan, b)
             IN  /\ chan' = QueueMax(c, active)
                 /\ engine' = [engine EXCEPT !.fifo = @ \o Queued(c, active)]
  /\ UNCHANGED <<state, active, dwork, thr, waits, irq, hung, timerVars, memVars, lifeVars>>

-----------------------------------------------------------------------------
(* men_wait_dmaimg for an absolute frame number.                           *)

WaitBegin(w, n) ==
  /\ open /\ ListFree
  /\ ~waits[w].sleeping
  /\ chan.goodcnt < n
  /\ state = "STARTED"
  /\ waits' = [waits EXCEPT ![w] = [sleeping |-> TRUE, frame |-> n, done |-> FALSE]]
  /\ UNCHANGED <<chan, state, active, dwork, thr, hung, timerVars, memVars, hwVars, lifeVars>>

WaitEnd(w) ==
  /\ waits[w].sleeping /\ ListFree
  /\ waits' = [waits EXCEPT ![w] = AwakeWaiter]
  /\ UNCHANGED <<chan, state, active, dwork, thr, hung, timerVars, memVars, hwVars, lifeVars>>

\* Woken by complete() ...
WaitWoken(w) == waits[w].done /\ WaitEnd(w)

\* ... or by the waiter's own timeout.
WaitTimesOut(w) == ~waits[w].done /\ WaitEnd(w)

-----------------------------------------------------------------------------
StartNext(t) ==
  \/ \E b \in Buf, n \in Todos, m \in StartModes, tmo \in Timeouts : StartCheck(t, b, n, m, tmo)
  \/ StartCancelWork(t)
  \/ StartHeadGone(t)
  \/ StartRelock(t)
  \/ StartLock(t)
  \/ StartBusy(t)
  \/ StartBegin(t)
  \/ StartCleanBuffer(t)
  \/ StartFails(t)
  \/ StartSucceeds(t)

ThreadNext(t) ==
  \/ StartNext(t)
  \/ \E h \in Heads : UnlockAllBegin(t, h)
  \/ UnlockAllStep(t)
  \/ UnlockAllEnd(t)
  \/ CloseChannels(t)
  \/ CloseMem(t)

ClientNext ==
  \/ Open
  \/ \E h \in Heads : CreateHead(h) \/ FreeBufHead(h) \/ GetNextImage(h) \/ GetActImage(h)
  \/ \E b \in Buf : CreateUserbuf(b) \/ FreeUserbuf(b) \/ UnlockBuffer(b) \/ QueueBuffer(b)
  \/ Stop

WaiterNext(w) ==
  \/ \E n \in WaitFrames : WaitBegin(w, n)
  \/ WaitWoken(w)
  \/ WaitTimesOut(w)

IrqNext == IrqEnter \/ IrqRead \/ IrqOverflow \/ IrqLock \/ IrqFrame \/ IrqFinish

Next ==
  \/ ClientNext
  \/ \E t \in Threads : ThreadNext(t)
  \/ \E w \in Waiters : WaiterNext(w)
  \/ EngineTransfers
  \/ IrqNext
  \/ DoneWork
  \/ TimerExpires
  \/ DmaTimeout

Spec == Init /\ [][Next]_vars
-----------------------------------------------------------------------------
(* Fairness.  Interrupt handlers and kernel threads run to completion, and *)
(* the queued spin locks are fair, so an activity that waits for a lock    *)
(* others take and release gets it (strong fairness).  Clients, the board  *)
(* and the timer owe nothing.                                              *)

Fairness ==
  /\ SF_vars(DoneWork)
  /\ SF_vars(IrqRead \/ IrqLock \/ IrqFrame \/ IrqFinish)
  /\ \A t \in Threads :
       /\ SF_vars(StartCancelWork(t) \/ StartHeadGone(t) \/ StartRelock(t) \/ StartLock(t))
       /\ WF_vars(StartBusy(t) \/ StartBegin(t) \/ StartCleanBuffer(t)
                   \/ StartFails(t) \/ StartSucceeds(t))
       /\ WF_vars(UnlockAllStep(t) \/ UnlockAllEnd(t))
       /\ SF_vars(CloseMem(t))
  /\ \A w \in Waiters : SF_vars(WaitWoken(w))

FairSpec == Spec /\ Fairness

-----------------------------------------------------------------------------
(* Properties.                                                             *)

ListOf(c, name) ==
  CASE name = "FREE"    -> c.free_list
    [] name = "READY"   -> c.ready_list
    [] name = "HOT"     -> c.hot_list
    [] name = "GRABBED" -> c.grabbed_list

Injective(s) == \A i, j \in 1 .. Len(s) : s[i] = s[j] => i = j

\* While an acquisition runs, the three records the driver keeps of where a
\* buffer is agree: each counter is the length of its list ("number of entries
\* in free_list", menable.h), no buffer is linked twice, and a registered
\* buffer's listname names the one list that holds it.
ListsConsistent ==
  state = "STARTED" =>
    /\ chan.free_count    = Len(chan.free_list)
    /\ chan.ready_count   = Len(chan.ready_list)
    /\ chan.hot_count     = Len(chan.hot_list)
    /\ chan.grabbed_count = Len(chan.grabbed_list)
    /\ \A name \in ListNames \ {"NO_LIST"} :
         /\ Injective(ListOf(chan, name))
         /\ \A b \in Buf :
              b \in Members(ListOf(chan, name)) <=>
                b \in bufs /\ b[1] = active /\ chan.listname[b] = name
    /\ chan.locked_count =
         Cardinality({b \in bufs : b[1] = active /\ chan.listname[b] = "NO_LIST"})

\* The hot list is what the board has: the transfers the interrupt handler has
\* collected, then those it has not, then the descriptors still queued, so the
\* head of the hot list is the buffer men_move_hot must take.  (From the start
\* of an acquisition whose handler held no count of an earlier one.)
HotMatchesHardware ==
  state = "STARTED" /\ ~irq.stale
  => chan.hot_list = irq.got \o engine.done \o engine.fifo

\* The BUG_ONs of men_ioctl_unlock_buffer: once every slot of the head is
\* unlocked, no buffer is counted as grabbed or locked.
UnlockAllComplete ==
  \A t \in Threads :
    thr[t].pc = "unlock" /\ thr[t].idx = NumSb
      => chan.grabbed_count = 0 /\ chan.locked_count = 0

\* Frames are handed out in the order they were received: men_next_blocked
\* takes the oldest grabbed frame, men_last_blocked the newest, while the
\* acquisition runs.
FramesInOrder ==
  state = "STARTED" =>
    \A i, j \in 1 .. Len(chan.grabbed_list) :
      i < j => chan.frame_number[chan.grabbed_list[i]] < chan.frame_number[chan.grabbed_list[j]]

\* The board always has a descriptor while frames are outstanding: in handshake
\* mode at least the dummy buffer, in selective mode whenever one is ready.
EngineFed ==
  /\ state = "STARTED" /\ irq.pc # "frames"
  /\ chan.mode # "SELECTIVE" \/ chan.ready_list # <<>>
  => chan.hot_list # <<>>

\* men_dma_queue_max never gives the board more buffers than frames remain or
\* than its FIFO can hold, whoever calls it.
NeverOverqueued ==
  state = "STARTED" =>
    chan.hot_count <= chan.transfer_todo /\ chan.hot_count <= FifoLength

\* While the channel is started, every descriptor on the board belongs to a
\* buffer that is still registered.  (Same proviso as HotMatchesHardware.)
QueuedBuffersRegistered ==
  state = "STARTED" /\ ~irq.stale =>
    \A b \in Members(engine.fifo) : b[1] \in heads /\ (IsDummy(b) \/ b \in bufs)

\* The driver never takes the first entry of an empty list and never unlinks
\* a buffer that is in none, however the counters it goes by were changed.
NoWildEntry == ~chan.wild

\* A started channel can be stopped: men_stop_dma_locked does nothing when
\* transfer_todo has run out, so that must not happen outside the interrupt.
StartedIsStoppable ==
  state = "STARTED" /\ irq.pc # "frames" => chan.transfer_todo > 0

\* Somebody will finish a stop: the work item is pending, a starter has taken
\* over from it, or a starter is about to reinitialise the channel.
StopHasOwner ==
  state = "STOPPING" /\ ~hung =>
    \/ dwork
    \/ \E t \in Threads : thr[t].pc = "relock" /\ thr[t].cancelled
    \/ \E t \in Threads : thr[t].pc = "begin"

\* The BUG_ON of men_dma_clean_sync, for the call after a refused start.
RefusedStartIsStopping ==
  \A t \in Threads : thr[t].pc = "begin" /\ StartRefused(t) => state = "STOPPING"

\* The WARN_ON of men_cleanup_mem: closing stops the channel without chanlock,
\* yet no head is refused because its channel is started.
CloseFindsNoneStarted ==
  \A t \in Threads : thr[t].pc = "close" /\ linked # {} /\ ChanFree => state # "STARTED"

\* Channel and head point at each other (except while men_clean_bh has not yet
\* reached its last statement), and only at a head that exists.
LinkConsistent ==
  /\ linked \subseteq {active}
  /\ active # NoHead => active \in heads
  /\ active # NoHead /\ (\A t \in Threads : thr[t].pc # "clean") => active \in linked

\* No wakeup is lost: a waiter that sleeps unnotified waits for a frame that is
\* not there yet, or the interrupt handler that brought it has still to notify;
\* and it never sleeps on a channel that is stopped.
NoLostWakeup ==
  \A w \in Waiters : waits[w].sleeping /\ ~waits[w].done =>
    /\ state \in {"STARTED", "STOPPING"}
    /\ waits[w].frame <= chan.goodcnt => irq.pc = "frames"

\* Every stop comes to an end.
StopFinishes == (state = "STOPPING") ~> (state # "STOPPING")

\* A waiter does not outlive the acquisition it waits on: once the channel is
\* stopping it returns, even if its frame never comes and its own timeout never
\* expires.
WaitersReleased ==
  \A w \in Waiters : (waits[w].sleeping /\ state = "STOPPING") ~> ~waits[w].sleeping

-----------------------------------------------------------------------------
(* What a comment of the source says and the code does not keep; refuted   *)
(* by a run of its own.                                                    *)

\* men_dma_timeout trusts that whoever modifies the timer "will take care of
\* everything"; that other function waits for the callback with chanlock held.
NoHang == ~hung
=============================================================================
