# Formal verification of the menable frame grabber driver

This directory holds TLA+ modules that model the Linux kernel driver for
microEnable frame grabbers (`src/linux`, with the portable library `src/lib`),
TLC configurations that check them on small instances, and proofs checked by
TLAPS. Paths below are relative to the repository; line numbers refer to the
commit the modules were written from. `PROJECT.json` maps every definition to
the lines it translates.

Contents: 1 the system, 2 modules and their correspondence to the code, 3 runs,
4 bounds, 5 fairness and deadlock, 6 proofs, 7 findings and observations,
8 assumptions of the models, 9 what is not modelled, 10 plan.

## 1. The system

A board transfers images into user memory and reports finished transfers, alarms
and small messages by interrupt. User programs talk to the driver by ioctl and
sysfs.

| Component | State | Operations | Interacts with | What is hard | What makes it correct |
|---|---|---|---|---|---|
| DMA buffer lists (`menable_mem.c`, `menable_dma.c`) | per channel: free, ready, hot and grabbed list, a counter for each plus `locked_count`, the `listname` of each buffer | `men_clean_bh`, `men_dma_queue_max`, `men_move_hot`, `men_next_blocked`, `men_last_blocked`, `men_unblock_buffer`, `men_queue_buffer`, removal in `men_free_userbuf` | called from ioctls and the DMA interrupt under `listlock` | three records of one fact (list, counter, tag); the interrupt releases `listlock` between frames; unsigned counters | the records agree; the hot list is the board's FIFO; FIFO depth and frame count are respected |
| DMA channel control (`fgrab.c`, `menable_dma.c`, `menable_core.c`) | `state`, `active`, `transfer_todo`, timer, `dwork`, waiters | `fg_start_transfer`, `men_stop_dma`, `men_dma_done_work`, `men_dma_timeout`, `men_wait_dmaimg`, `menable_release` | the board's `startdma`, `stopdma`, `abortdma`; the work queue; the hrtimer | four locks, dropped half way by the starter; a stop finished later by a work item; failing hardware | every stop ends, no wakeup is lost, channel and head point at each other |
| DMA interrupt, me6 (`menable6.c`) | count register, `goodcnt`, `lost_count` | `me6_dma_irq` | lists, waiters, timer, work queue | the count is read before the lock | buffers are booked in the order the board filled them |
| DMA and queue interrupt, me5 (`menable5*.c`) | acknowledge registers, enabled sources | `me5_irq` and the per-board handlers | channels, queues, alarms | acknowledge protocol | as above |
| User interrupt queues (`uiq.c`, `lib/uiq`) | ring, fill, lost words, `is_running`, completion | read, write, clear, resize, interrupt | event interrupt or queue interrupt, clients | packets cut by interrupts, overflow, sleeping clients | words in order, losses counted and flagged, bursts driven to the end |
| Messaging DMA (`lib/dma/messaging_dma_controller.c`, `dma_controller_base.c`) | `read_offset`, `buffer_addresses`, the engine's status bits, the ring of pages | init, start, stop, abort, destroy, `get_next_transmission` | event interrupt, FPGA configuration, the queues | offset arithmetic, an interrupt that is never masked, ignored timeouts | the driver reads where the board wrote; pages outlive the engine |
| Transaction controllers (`lib/controllers`, `process_transaction`) | burst under way, queue fill, chip select, TAP state, bank and bus caches | begin, write, read, state change and command bursts, end; abort | ioctls, boards | queue flow control, errors in the middle, cached device state | bytes reach the device in order or an error is reported; the device is left as asked |
| CXP frontend (`lib/frontends`) | a cache for each setting of each port, the port map | the `do_camera_control` commands, reset | register interface, board probe | registers shared by all ports, settings that move with a port map | a command touches its port only, a remap moves every setting |
| Alarms and notifications (`menable5.c`, `menable6.c`) | `irq_wanted`/`alarms_enabled`, alarm status, notification flags and time stamp, handlers, two work items | alarm interrupt, notification and temperature work, `DEVCTRL_*_ASYNC_NOTIFY`, `stopirq`, `startirq` | interrupt, clients, board life cycle | five agents, two locks on me5 | no client sleeps through an event, an alarm is enabled again |
| Board life cycle (`menable_core.c`, `menable5.c`, `menable6.c`, `menable_design.c`) | `maxidx`, `use`, thread groups, `state`, `design_changing`, `releasing`, what a probe has taken | probe, remove, open, release, design change, reconfiguration | everything above | a dozen steps that can fail, processes that close and reconfigure | numbers are unique, resources are freed once, nothing runs unused |
| Scatter-gather lists (`menable5.c`, `menable6.c`) | list blocks under construction | append page runs, finish | buffer registration | block boundaries, length limits | the list denotes exactly the pages |
| Image buffer deque (`lib/acquisition`) | ring of buffer descriptors | push, pop at both ends | not used by the Linux driver | wrap-around | behaves as a sequence |
| MCAP (`lib/fpga/mcap_lib.c`) | ownership of the configuration port | download bitstream | PCI configuration space | hand-over | the port is released on every path |
| Register and PCI access, board tables, OS ports | none | – | – | – | – |

The core is the DMA channel: it is where the processes, work items, timer and
interrupts of the driver meet. `PROJECT.json` lists, under `hazards`, what is hard
to test in each component and the properties that watch it.

## 2. Modules

| Module | Models | Used by |
|---|---|---|
| `BufferLists` | the channel record (lists, counters, tags, mode, frame counts) and each operation that moves a buffer, as a pure function on that record | `DmaChannel` |
| `DmaChannel` | one channel with all its actors; properties | `MCDmaChannel`, proofs |
| `MCDmaChannel` | instance for TLC | `Dma_*.cfg` |
| `UiqRing` | `uiq_base.c`: the ring and the bookkeeping of lost words, as functions on the ring record | `Uiq` |
| `Uiq` | one queue between the board and a client; properties | `MCUiq`, proofs |
| `MCUiq` | the kinds of queue that boards declare | `Uiq*.cfg` |
| `MessagingDma`, `MCMessagingDma` | the messaging DMA engine, its set-up and its interrupt | `Messaging.cfg` |
| `Outcomes` | results of a shot: success, error, the bytes moved | the controllers |
| `SpiController`, `BpiController`, `JtagController`, `I2cController` | the function pointers of each controller as functions from its state to its possible outcomes | `Transactions` |
| `Transfer` | abstract: what a burst promises its caller | `Transactions` |
| `Transactions`, `MCTransactions` | `process_transaction` and `controller_base.c` over any of the controllers | `Transactions.cfg` |
| `CxpFrontend`, `MCCxpFrontend` | the camera commands of a CoaXPress board | `Cxp.cfg` |
| `Alarms`, `MCAlarms` | alarms and notifications, both families | `Alarms.cfg` |
| `Board`, `MCBoard` | probe to removal of boards of both families | `Board.cfg` |
| `DmaChannelProofs` | lemmas on what each list operation preserves and bounds; inductive invariant, the theorems about control, the FIFO bound | `DmaListsProofs` |
| `DmaListsProofs` | lists, counters, tags, frame order, hot list and board | – |
| `BoardProofs` | numbers, resources and users of boards | – |
| `AlarmsProofs` | wakeups of notified clients, alarms and their status | – |
| `UiqProofs` | what each ring operation does to the stored words; losses, order, packets, bursts and wakeups of a queue | – |
| `MessagingDmaProofs` | the ring of transmissions as board, driver and interrupt see it | – |
| `TransactionsProofs` | the burst machine, for each controller what is known of its target (selection, queues, banks, busses, the TAP), and the refinement of `Transfer` | – |
| `CxpFrontendProofs` | caches and registers of every port through each setter, the restoring loop of a remap and the reset loop | – |

Definitions preceded by a comment "Mutant of X" are faulty variants of X. No
specification uses them; each is kept to show that a property notices the fault
it describes (see the list `mutants` in `PROJECT.json`).

### 2.1 BufferLists

`chan` is a record with the fields of `struct menable_dmachan` that list
operations touch. Counters are unsigned ints of modulus `UintMax + 1`
(`Inc`, `Dec`), because the code decrements them by the `listname` tag and can
go below zero while a channel is stopped. A buffer is named by the pair of its
head and its index in the head's array; each head has a dummy buffer with index
-1. `Members` and `Unlink` stand for the kernel's `list_head`. Taking the first
entry of an empty list, or unlinking what is in no list, sets the history field
`wild` instead of inventing an entry.

`QueueMax`/`Queued` are `men_dma_queue_max` (the new record and the descriptors
written to the board), `MoveHot` is `men_move_hot` with the per-mode treatment
of a finished buffer, `NextBlocked`, `LastBlocked`, `UnblockBuffer` are the
handshake operations, `RemoveBuffer` is the list part of `men_free_userbuf`.

### 2.2 DmaChannel

Locks are not variables. Who holds `buffer_heads_lock`, `chanlock` and
`listlock` between two actions follows from the program counters of the few
activities that drop or keep locks half way (`HoldsBh`, `HoldsChan`,
`HoldsList`); a section that nobody can observe half done is one action.

| Actions | Code |
|---|---|
| `Open`, `CloseChannels`, `CloseMem` | `menable_open`; the last `menable_release`: channels are stopped without `chanlock`, then heads are freed |
| `CreateHead`, `CreateUserbuf`, `FreeUserbuf`, `FreeBufHead` | buffer ioctls |
| `StartCheck`, `StartCancelWork`, `StartHeadGone`, `StartRelock`, `StartLock` | `fg_start_transfer` up to the point where both locks are held; `buffer_heads_lock` is dropped around `cancel_work_sync` |
| `StartBusy`, `StartBegin`, `StartCleanBuffer`, `StartFails`, `StartSucceeds` | `men_start_dma` with `men_clean_bh` (one buffer per step) and the clean-up after a failure |
| `Stop`, `DoneWork`, `CleanSync` | `men_stop_dma`, `men_dma_done_work`, `men_dma_clean_sync` |
| `TimerExpires`, `DmaTimeout` | the hrtimer begins its callback; the callback gets its locks |
| `IrqEnter`, `IrqRead`, `IrqOverflow`, `IrqLock`, `IrqFrame`, `IrqFinish` | `me6_dma_irq`: the count is read before `chanlock`; each frame is a section of its own |
| `GetNextImage`, `GetActImage`, `UnlockBuffer`, `UnlockAll*`, `QueueBuffer` | handshake and selective ioctls |
| `WaitBegin`, `WaitWoken`, `WaitTimesOut` | `men_wait_dmaimg` |
| `EngineTransfers` | the board fills the next buffer of its FIFO, counts it and raises the interrupt |

`hung` records that a CPU spins in `hrtimer_cancel()` with `chanlock` held;
nothing that needs that lock can happen afterwards. `irq.stale` is history: the
acquisition began with a count of an earlier one in the handler's hands, or lost
transfers to a counter overflow.

### 2.3 UiqRing and Uiq

A word is a record of what the driver looks at (control bits, CXP length) and of
its origin (`seq`, `part` for timestamp chunks, `first` of its packet), so that
order, loss and tearing can be stated. `PushBack`, `PopFront`, `ReplaceBuffer`
work on the index arithmetic of the real ring; `Contents` reads it back.

`Uiq` has one action per section under `uiq->lock`: `ReadCall`/`ReadResume` and
`WriteCall`/`WriteResume` with the sleep on the completion between them
(`Woken`, `Expired`), `Clear`, `Resize`, `IrqHeader`/`IrqPayload`
(`process_uiq_data`, which may get any number of words of a packet at a time),
`UiqIrqRead`/`UiqIrqWrite` (`uiq_irq`). `Push` is `men_uiq_push`. The kind of the
queue (board, type, protocol) is chosen in `Init` among those that boards
declare.

Opening, closing and reconfiguring the board go behind the queue's back; the "data"
attribute can be read and written all the while, before the first open and after the
last close too. `phase` is how far such an operation has got: `Open` and
`ReconfigureStart` are `startirq`; `CloseIrq`, `CloseQueue` the two halves of
`men_cleanup_channels`; `ReconfigureStop`, `ReconfigureBoard` the reconfiguration up
to `init_peripherals`; `DesignName` the `design_name` attribute, whose write starts the
interrupts at any time. On microEnable 5 boards `StopIrq` masks and acknowledges all
interrupts and clears `is_running` without `uiq->lock`, `StartIrq` acknowledges what
came meanwhile (`masked` is the absence from `irq_wanted`); an interrupt that is not
wanted is acknowledged and forgotten (`UiqIrqUnwanted`), and a handler that has read
the status before acts after it (`UiqIrqSeen`, `seen`). On microEnable 6 boards these
leave the queues alone, but the reconfigured board has forgotten its words and
`init_peripherals` the packet under way.

`offs`, `left`, `cut` and `starved` are history: how often `is_running` was cleared while
it was set, the last word that left, whether words were cleared, cut off by a smaller
buffer or drained by a full me5 queue, and whether the buffer was, while a client sleeps, once smaller than its request.

### 2.4 MessagingDma

The thread that sets the engine up and tears it down (`drv`), the board and the
interrupt handler run against each other; `stopirq` does not mask the event
interrupt, so nothing but `free_irq` in `me6_exit` orders the handler and that
thread. The polls of `dma_controller_base.c` are two steps: the write of the
control register and the wait, which ends when the status bit changes or times
out. A word in the ring is written as the position it has in its transmission, so
that a wrong offset shows as a wrong word; a payload word that is taken for a
length may have any value. `me6_messaging_irq` reads the count (`IrqCount`), and
for each transmission checks the status register (`IrqCheck`) and then reads the
ring (`IrqGet`); `IrqGetFreed` is the same read after `destroy` has freed the
address array. The words go on to `process_uiq_data`, which is `IrqHeader` and
`IrqPayload` of `Uiq`; that module lets packets be cut anywhere, which includes
every cut that transmissions make.

### 2.5 Transactions

`Transactions` has the control flow of `process_transaction` (`menable_ioctl.c`)
and of `ctrl_write_burst` and `ctrl_read_burst` (`controller_base.c`): one action
per shot, request or poll, with the error exits of each. What a shot does to a
controller is a function from the state of the controller and its target to a set
of outcomes (`WriteShotOf`, `RequestReadOf`, `ReadShotOf`, `HandlePreBurst` …); the
`CASE` in each stands for the function pointer. The controllers are modelled down
to what their properties need: chip select and command FIFO (SPI), bank register
and address (BPI), TAP state against the TMS bits really sent (JTAG), bank, bus and
START/STOP (I2C). `Execute` is the FPGA working off its command FIFO; `Vanish` sets
`dev.gone`: the board is off the bus, under any controller and at any moment, takes
nothing and answers all ones. What a shot makes of that differs: spi_v2, JTAG and I2C
fail, spi_dual and spi_bs look at no answer, BPI only where it waits or reads. `Transfer` says what the caller of a burst may rely
on; the refinement mapping (`Promise`) takes the bytes that have arrived at the
target or in the caller's buffer for `moved`. Bursts that promise less are excepted in one place, `InBurst`
(`MovesAll`, `Reached`); section 7 says what they do instead.

### 2.6 CxpFrontend

`fe` is `struct cxp_frontend` (all caches), `hw` the registers, which outlive the
driver. Each command is one action, as it holds `camera_frontend_lock`; its inner
calls (`SetPort…`, `RestorePort`, `ResetPort`) are functions on the pair, in the
order of the code, each writing a register only if the cache changes. Fields of
the connector are indexed by physical, fields of the core by logical port. A speed
change may time out; `late` records where.

### 2.7 Alarms

The interrupt handler, `irq_notification_work`, `temperature_alarm_work`, the
thread in `stopirq`/`startirq` or in a reconfiguration, and two client threads;
one action per section under a lock. me5 and me6 differ in locks (`Me5…`, `Me6…`
actions) and registers. `fresh` marks a client in the window of its first call.

### 2.8 Board

A resource is a name in `held`; a probe is a sequence of steps, each with what it
takes, what its error label frees and whether the caller is told (`Step`,
`Me5Ladder`, `Me6Ladder`, `CoreLadder`). `Open`, `JoinGroup`, `Release`, `Cleanup`
are `menable_open` and `menable_release` with their thread groups; `PPControl`,
`Reconfigure` and the actions after it, and `Configure` the three ways to change
the design; `Remove`, `Exit`, `RemoveEnds` are `menable_pci_remove`. A failing
`init_peripherals` (`InitPeripherals`) keeps what it has set up; if its last part fails,
`undeclared` says that the driver has forgotten the declaration of the messaging DMA,
and `Exit` does not free its pages (`Orphaned`).

## 3. Runs

Passing runs:

| Run | Instance | Shows |
|---|---|---|
| `dma_lists` | one acquisition, handshake or selective, all buffer ioctls, 327 k states | lists, counters and tags agree while the channel is started (`ListsConsistent`); FIFO depth and frame count are respected by every caller (`NeverOverqueued`); frames are handed out in order (`FramesInOrder`); no descriptor of a freed buffer is on the board (`QueuedBuffersRegistered`) |
| `dma_restart` | two handshake acquisitions with timeout, buffers removed at any moment, 1.4 M states | the hot list is the board's FIFO (`HotMatchesHardware`); no empty list is popped although counters may be wrong between acquisitions (`NoWildEntry`); the `BUG_ON`s of unlock-all hold (`UnlockAllComplete`); the board never starves (`EngineFed`) |
| `dma_control` | two heads, two threads, a waiter, all hardware faults, 380 k states | the assertions of `men_dma_clean_sync` and `men_cleanup_mem` hold (`RefusedStartIsStopping`, `CloseFindsNoneStarted`), `LinkConsistent`, `NoLostWakeup`, `StartedIsStoppable`, `TypeOK` |
| `dma_liveness` | two starters and a waiter under `FairSpec`, 32 k states | a stop always has an owner (`StopHasOwner`) and ends (`StopFinishes`); waiters do not outlive the acquisition (`WaitersReleased`) |
| `uiq` | seven kinds of queue, switched off and on by closes, opens and reconfigurations, 4.3 M states | `AllWordsAccounted`, `StreamIntact`, `PacketsNotTorn`, `NoMissedWakeup`; a write queue and its board agree until the queue is switched off, acknowledged or reconfigured while in use (`WriteQueueDriven`, an action property); the board's FIFO gets at most one burst too many each time `is_running` is cleared under it (`FpgaFifoBounded`) |
| `messaging` | two pages, six transmissions, one reconfiguration, two faults, 1.4 M states | the driver's offset is that of the next transmission and every outstanding one is counted (`InStep`), pages are freed only after the engine has stopped (`PagesOutliveEngine`); together `RingAgreed` |
| `transactions` | each controller, two transactions of a set of scripts, a board that may disappear, 83 k states | the burst keeps the promise of `Transfer` (`BurstsKeepPromise`), the target is released as asked (`ReleasedAsAsked`), the JTAG state and BPI bank caches are true (`TapTracked`, `BankCacheTrue`), no other I2C bus is left busy (`InactiveBussesIdle`), the FPGA's queues are not overrun (`QueuesWithinLimits`), every transaction ends (`TransactionEnds`) |
| `cxp` | four ports, four commands, two probes, one timeout, 313 k states | `RemapKeepsSettings`, `CommandTouchesOnePort`, `ResetIsClean` |
| `alarms` | both families, a waiting and a resetting client, 662 k states | `NotifierWoken`, `AlarmHasCause`, `TemperatureRearmed` (liveness) |
| `board` | a me5 and a me6 board, two processes, three probes, one fault, 2.4 M states | `NumbersUnique`; a removed board holds nothing but orphaned messaging pages and a failed probe no more than `MayLeak` (`NothingLeft`); `UnusedIsQuiet` |

Runs that refute what a comment of the source says (section 7): `dma_timer_hang`,
`uiq_cxp_lost`.

To run one: `tlc -config Dma_lists.cfg MCDmaChannel`, `tlc -config Uiq.cfg MCUiq`,
`tlc -config Messaging.cfg MCMessagingDma`, `tlc -config Transactions.cfg
MCTransactions`, `tlc -config Cxp.cfg MCCxpFrontend`, `tlc -config Alarms.cfg
MCAlarms`, `tlc -config Board.cfg MCBoard`.

## 4. Bounds

* `NumSb`, `FifoLength`, `Todos` ≤ 2. Two buffers and a FIFO of one make every
  list both empty and longer than the FIFO; two frames make the last frame
  differ from the others. `dma_restart` uses a FIFO of two so that the board can
  be two transfers ahead of the driver.
* `MaxStarts` bounds the start requests. Two are needed for what one acquisition
  leaves behind for the next; state that survives (timer, work item, counters,
  interrupt in flight) is fully exposed by one restart.
* `dma_control` has one buffer per head and one frame: its properties are about
  control; two heads and two threads make every race on the head pointer
  possible.
* `UintMax = 15`: far above every count, so a wrapped counter is seen as one.
* `ClientOps`, `Faults`, `Timeouts` select what the clients and the board of an
  instance do, to keep each run small; between them all are used.
* `Uiq`: capacity 1 or 3 against packets of 2 and 3 words, requests of 1 and 2 and a
  FIFO of 2: a packet may fit, be cut in the middle, or find the queue full, the ring
  wraps, and a buffer may be too small for a sleeping writer. `MaxWords` 4 is two
  packets, so what follows a loss is reached. `MaxAdmin` 3: the initial allocation
  (which is a resize) and two more clears, resizes, closes, reconfigurations or design
  names, enough to shrink a buffer and let it grow again, or to close a busy queue
  twice, or to reconfigure between a close and the next write. `TsWords` is 1 instead of 4: only "room for the word but not for
  its timestamp" matters. A completion's counter is bounded by the number of events.
* `Messaging`: a page of four words has every kind of place (first, middle, the one
  before last, the last that is skipped); six transmissions wrap the ring of two
  pages. `CountMax` 2 makes the count register overflow, which the real one
  (17 bits) does only after 131071 transmissions. `MaxFaults` 2 lets a stop time
  out and the set-up after it fail.
* `Transactions`: bursts of up to seven bytes against shots of two bytes and queues
  of two, so a burst is shorter than a shot, ends in the middle of one, and is
  longer than the queue. Two transactions show what one leaves to the next. The
  scripts (`MCScripts`) are sequences of bursts that use every flag and command.
* `Cxp`: remaps of two, three and four ports; four commands are enough to set,
  remap, set and remap back, with a reload between (`MaxProbes` 2).
* `Alarms`: one more alarm than the handler has in hand; two calls per thread; one
  stop and start. The me5 instance raises one alarm (its two locks give it more
  interleavings), the me6 instance two.
* `Board`: two boards are needed for numbering, three probes for one to fail or go
  and another to come; two processes, one with two files, for `use` and groups.

The theorems of section 6 hold for every value of the constants of `DmaChannel`,
`Uiq`, `Board` and `Alarms`.

## 5. Fairness and deadlock

Safety runs use `Spec`. In `DmaChannel`, `FairSpec` adds:

* strong fairness for the work item, the interrupt handler once it has begun,
  the lock acquisitions of a starter and the second half of a close: each waits
  for a spin lock that others take and release, and the kernel's queued spin
  locks serve their waiters in order;
* weak fairness for sections that already hold their locks;
* strong fairness for a waiter whose completion has been signalled.

Clients, the board and the timer owe nothing: a start or stop may never be asked
for, the board may never finish a transfer, and the interrupt line may never be
served.

In `Transactions` the thread inside the ioctl takes its next step and the FPGA
works off its command queue (weak fairness): the thread is runnable all the time,
and an FPGA that does not answer any more is a board that is gone. In `Alarms` an
interrupt that is raised, a queued work item and a thread inside the driver go on
(weak fairness): work queues and the scheduler serve them; alarms, calls, stops and
starts are not owed.

`CHECK_DEADLOCK FALSE`: once the bounds on starts, words, calls or transmissions
are used up the driver may be idle for good, and a hung CPU stops everything.

## 6. Proofs

The theorems hold for any sets of heads, threads and waiters, any number of
slots, FIFO depth, frame counts, client operations and faults. They rest on the
assumptions `NumSbAssumption`, `FifoLengthAssumption`, `UintMaxAssumption`
(counters can hold the FIFO depth) in `BufferLists` and `ChannelAssumption` in
`DmaChannel` (constants have their types, the null pointer is no head); TLC
evaluates them in every run of `MCDmaChannel`.

* `DmaChannelProofs` begins with lemmas on `BufferLists`: each list operation maps
  channel records to channel records and leaves the fields it does not own alone;
  `NumToQueueBound` bounds what `men_dma_queue_max` may queue. The inductive
  invariant is

  `IInv == TypeOK /\ LockInv /\ (\A t : ThreadInv(t)) /\ ChanInv /\ LinkConsistent
  /\ StartedIsStoppable /\ NoLostWakeup`.

  `LockInv` says that the program counters that stand for locks exclude each
  other, `ThreadInv` what a thread may still rely on at each of its steps (its
  head exists while it holds `buffer_heads_lock`; the channel is not started
  between its check and the end of its start), `ChanInv` that the handler only
  books frames while the channel has a head, and that a channel in `STARTING` has
  no head unless somebody is in `men_clean_bh`. Without these, `LinkConsistent`
  and `NoLostWakeup` are not inductive: a starter in the middle of the clean-up
  or a handler between two frames could start from states that never occur.
  From `[]IInv` follow `TypeCorrect`, `LinksConsistent`,
  `StartedChannelIsStoppable`, `WakeupsNotLost`, `RefusalIsStopping` and
  `CloseFindsStopped`.
* `StopIsLostOnlyWithItsHead` (same module) is about `StopHasOwner` without any
  assumption on clients, under which it is false (first observation of section 7). It
  holds at first, and every step keeps it but one: `LeavesCancelled`, a starter that
  has cancelled the work item finds, with its lock back, that its head was freed
  meanwhile (`fgrab.c:97`). Freeing the head, closing the board or another start do no
  harm by themselves: the stop keeps its owner until that thread returns.
* `QueueNeverOverfull` (same module) proves `NeverOverqueued`. `QueueInv` adds
  to it that a starter inside `men_clean_bh` has an empty hot list, which is why
  the first refill of an acquisition cannot exceed the bound.

* `DmaListsProofs`. Five of its theorems assume `Careful` (`"queue" \in ClientOps
  => ~QueueAnyList`): a client that queues a buffer by hand does not choose one outside
  the free list; `men_queue_buffer` only warns, overwrites the tag, and the lists and
  counters disagree from then on. `OnlyQueueingSpoilsTheLists` assumes nothing and
  says that this is the only way.
  * `PlacedInv`: `Placed` (each buffer of the head in one list, tags and counters
    right) holds whenever the channel has a head that nobody is cleaning; during
    `men_clean_bh`, which goes through the slots one by one, `Cleaning(t)` says which
    slots are done. It gives `ListsAgree` (`ListsConsistent`). The counters are
    unsigned, so each decrement needs the list's non-emptiness, which is what the
    counter says before the step: lists and counters cannot be proved apart.
  * `RunInv` adds what the handler has in hand: the frame numbers of grabbed
    buffers are ordered and below the next one to be given, every buffer on the board
    is in the hot list in the same order, and one descriptor is left whenever the
    handler is outside its booking section. It gives `FramesAreInOrder`,
    `HotListIsTheBoards`, `BoardIsFed` and `BoardBuffersRegistered`.
  * `ListsSound` is `PlacedInv` and, while the channel is started, `AllReleased`: the
    slots an unlock-all has passed are neither grabbed nor locked (`Released(t)`),
    although `headlock` is dropped between two of them. `OnlyQueueingSpoilsTheLists`: it
    holds at first; while it does, the lists of a running acquisition agree with their
    counters and the `BUG_ON`s at `menable_ioctl.c:299` do not fire; every step keeps it
    and takes no entry of an empty list, but for the queue ioctl on a buffer outside the
    free list (`QueuesUnfree`), for every client and with all ioctls among the steps.
    Nothing is said of the lists of a stopped channel, where the queue ioctl may make the
    counters wrong at will; `men_clean_bh` of the next start, which rebuilds them, makes
    `PlacedInv` true again.
* `BoardProofs` needs `BoardAssumption` (the constants have their types, the
  reserved values are no boards or processes). `IInv == TypeOK /\ Numbers /\ Holdings
  /\ Files`. `Numbers` puts `maxidx` above every number and says that only one probe
  is under way and has the highest number, which makes the double decrement after a
  failed probe harmless. `Holdings` bounds the resources at each step of the ladder
  of a probe and of its error path, and those of a board under removal by `Orphaned`. `Files` counts: `use` is the number of open
  files, a thread group has no more members than its process has files, a channel
  belongs to a group that is not empty. Theorems `NumbersAreUnique`,
  `NothingIsLeft`, `UnusedBoardsAreQuiet`.
* `AlarmsProofs`: `IInv == TypeOK /\ Caused /\ \A c : Waking(c) /\ Answer(c)`.
  `Waking` follows a client from its look at the notifications to its sleep: either
  the time stamp has not moved since, and there is nothing to report, or a wakeup was
  given or is owed. Theorems `NotifiersAreWoken`, `AlarmsHaveCause`.

* `UiqProofs` needs `TsAssumption` and `UiqAssumption` (the constants have their
  types, requests and packets are not empty, sizes and requests are below the value
  that stands for -1). It has three layers.
  * Each function on the ring is described by what it does to `Contents`, once, so that
    the index arithmetic is not needed again: `PushBackStores`, `PopFrontDrops`,
    `ReplaceBufferKeeps`, `AfterPushDrops`. They rest on `WrapOnce`, which replaces a
    remainder by a case distinction.
  * `Fed` says what is true of a ring that has been fed the words 1 to n: those that
    were stored are in line (`StreamOK`, which also says that the newest word is
    missing exactly if `last_words_were_lost` is set), the others are counted
    (`Accounted`, with `CountJoined` for the number of words in two parts), and a flagged word
    of an event queue begins a packet (`NotTorn`). Every function keeps `Fed`; for
    `write_from_grabber` this is `FedArrives`, and `FedAll` extends it to all words of
    a packet by induction over their number (`NatInduct`, from the well-foundedness of
    the natural numbers).
  * `IInv == Typed /\ RingInv /\ DriveInv /\ WaitInv /\ Budget`. `RingInv` adds to `Fed`
    that `last_word_was_eop` is set only between two packets: without it the rest of a
    torn packet could be stored as a new one. `DriveInv` counts the bursts that the
    board's FIFO may still be given: one for each interrupt that is due (pending, seen by
    a handler, reported in a packet), one for the next write if the queue is not running.
    Together with what is in the FIFO they are no more than `1 + offs` bursts
    (`BurstsApart`: bursts come whole, as each is at most a FIFO deep). `WriteQueueDriven`
    needs no invariant beyond that: `StaysDriven` shows for every step that a queue which
    agrees with its board goes on to do so, unless a switch finds it in use. `WaitInv` says that a writer sleeps for no more
    than the buffer can hold, unless `starved`, so that the interrupt that empties the
    ring wakes it.

  Theorems `UiqTypeCorrect`, `WordsAreAccounted`, `StreamIsIntact`, `PacketsAreWhole`,
  `WriteQueueIsDriven`, `FpgaFifoIsBounded`, `WakeupsAreNotMissed`.

* `MessagingDmaProofs` needs `MessagingAssumption` (a page holds at least three words,
  there is a page, the count register counts). `RingAgreed` speaks of the oldest
  transmission outstanding only; that it holds again after that one is fetched needs
  all the others. `IInv == TypeOK /\ Phase /\ Chain`.
  * `Linked(ring, d, h, s, ro, at)` puts the transmissions `h + 1 .. s` one behind the
    other from the driver's read offset to the place of the engine, at the distances
    `d`, going round the ring at most once. `LinkedPut`, `LinkedGet` and `LinkedEmpty`
    say what a transmission of the board, `get_next_transmission` and a fresh set-up do
    to it. `LinkedPut` rests on `StretchesApart` (words within the capacity of each
    other do not overlap), `LinkedGet` on `PlaceAfter` (driver and board skip the same
    last words of pages). `PageInRing` is the division of the ring into pages.
  * `Chain` (while the engine is enabled and nothing was lost) adds that `sent - handed`
    is what the handler still has to fetch plus what is counted, that the words of the
    outstanding transmissions are not acknowledged, and that those which came since
    the handler read the count are covered by what it will not acknowledge: without
    the last part `IrqAck` could free words that were never read.
  * `Phase` follows the thread that sets up and tears down: the engine is enabled only
    between a complete set-up and the next abort, so the handler that meets freed
    addresses meets a disabled engine.

  Theorems `MessagingTypeCorrect`, `RingIsAgreed`.

* `TransactionsProofs` needs `TransactionsAssumption` (the constants have their types,
  no queue or shot is empty, a length set for JTAG is a number, the read queue of spi_v2
  is not longer than its write queue: both are 8 in the code, and requests of reads go
  through the write FIFO; the I2C core reads one byte per shot,
  `I2C_CORE_MAX_BYTES_PER_READ`; `LongestBurst` bounds the bursts of the scripts, and is
  itself any number), `I2cAssumption` (the value for no bus is no bus) and
  `BpiAssumption` (the read FIFO holds a word).
  * `Flow` is the bookkeeping common to all controllers: `UnderWay` (the burst under way
    is one of the transaction, of the type its place in the code is for) and `ReadsOn` (a
    read that waits has requested something). `StartEffect`, `WriteEffect`, `WaitEffect`,
    `DoneEffect`, `RequestEffect` and `ReadEffect` say once what each step does apart from
    the device, so that the arguments below only speak of the functions of a controller.
  * `Devices` has one invariant per controller. I2C (`I2cInv`): all busses but the active
    one are idle, a set bit of the bank register is the bit of the active bus, and after
    the last shot of a burst with STOP the active bus is idle too; the abort path has to
    be part of it, because a refused access leaves the bus busy. SPI (`SpiInv`): the
    target is selected during a burst, and spi_dual's `chip_selected` is never set without
    chip select, otherwise its early return would skip the selection. BPI (`BpiGood`): the
    cache is right unless a failure went unnoticed; a read is an induction over its turns
    (`TurnsSafe`).
  * JTAG (`JtagGood`): `ClockConcat` splits a walk of the TAP at the fall-through of
    `set_state`, `FromIdleArrives` and its like walk each path through the state diagram,
    `PathArrives` puts them together for every source and target, and `ShiftTmsIs` (by
    induction over the bits left) and `ShiftArrives` follow the shift loop for any number
    of bits. An access that fails has moved nothing, or has found the board gone.
  * spi_v2 (`QueueInv`): the commands queued are all writes or all reads. Writes: no more
    are queued than shots since the last wait (`NextModulo` for the remainder that
    triggers it). Reads: `Chunks` relates requests under way, bytes requested and bytes
    left, since all requests but the last are full; without it the end of a burst could
    not be shown to find both FIFOs empty, and the next burst would start with too much in
    them. A board that is gone keeps its queues.
  * The refinement of `Transfer` (`BurstsImplementTransfer`) needs to know where the bytes
    of the burst are (`DataInv`). For the controllers without a FIFO the target has, or has
    answered, exactly the bytes that the counters of the loops no longer count
    (`WriteShotData`, `ReadShotData`: a shot that succeeds moves its bytes, one that fails
    none that are reported). For spi_v2 they are spread over the FIFOs: `Chain(tag, q, a, e,
    len, m)` says that the entries of the queue `q` are the shots of `m` bytes, the last one
    shorter, that make up the positions from `a` to `e`. Writes: the commands continue where
    the target stands and end where the driver stands (`QueuedWrites`). Reads: the answered
    words begin where the caller's buffer ends, and the queued requests where the words end
    (`QueuedReads`). `ChainAppend` is the driver queueing a shot, `ChainHead` the FPGA
    carrying one out or the driver taking an answer; `Chunks` above shows that the shot the
    driver takes is as long as the one it once requested, without which it would pick the
    wrong bytes of the register. Every step is then a `Start`, `Move`, `Return` or `Other`
    of `Transfer` or a stutter (`StartStep`, `MoveStep`, `ReturnStep`, `OtherStep`,
    `StutterStep`). STATUS_OK of a spi_v2 write needs that the queue has run empty, which
    `drain` ensures after the remainder and the wait after a full queue.

  Theorems `BurstsFlow`, `BussesIdle`, `BankCacheIsTrue`, `TargetReleased`,
  `TapIsTracked`, `QueuesStayWithinLimits`, `BurstsImplementTransfer`.

* `CxpFrontendProofs` needs `CxpAssumption` (a board has one, two, four or five ports,
  as `cxp_frontend_init` demands, and commands are records of the fields of the ioctl).
  `ResetIsClean` is not inductive: it says nothing of the caches, and a register is
  only written if the cache differs. `IInv` holds `Ready(Device)` while there is a
  frontend: `DeviceOK` (types), `Synced` (what a cache holds is what the register
  holds, but for caches never set) and `Settled` of every port (after the resets of a
  probe no setting is unknown, and the two sides of a port, state at the connector and
  at the core, speed of the downlink and of the uplink, agree unless its last speed
  change timed out). Without a frontend it holds what the next probe needs of the
  registers: their downscaling, as its cache starts out known and a reset to the same
  value writes nothing.
  * One lemma per setter (`PowerKeeps` … `SpeedKeeps`) says that it keeps `Synced` and
    every setting of the other ports (`Keeps`), and what it leaves in its own cache;
    `LinkKeeps` and `CameraKeeps` put them together for the sequences of a remap and
    of a reset.
  * The loop of `cxp_set_port_map` goes through the connectors and writes the logical
    ports they are mapped to, which still hold the values of others. `RemapMoves` is an
    induction over the connectors: those behind have `Moved` (what they had, at the new
    logical port), those ahead wait (`Waits`: their own settings are untouched, and the
    copy `x` the loop restores from is never written). `RestoreLoopExists` and
    `ResetLoopExists` justify the recursive functions that stand for the two loops.
  * A first reset meets registers of any content; `FreshRemap` and `ResetCleans` show
    that nothing of them is left. `SameRegisters`, `MovedRegisters`, `CleanRegisters`
    go from the caches to the registers.

  Theorems `ResetIsCleanAlways`, `CommandsTouchOnePort`, and `RemapsKeepSettings` for
  boards with up to four ports. With five it is false: a connector that a remap moves
  to or from the fifth logical port does not keep its downscaling (section 7).

Only model-checked: liveness (`StopFinishes`, `WaitersReleased`, `TransactionEnds`,
`TemperatureRearmed`), as fairness is outside the prover; and `StopHasOwner`,
`NoWildEntry` and `UnlockAllComplete` themselves, which hold for the clients of their
runs only. Of these three the theorems say, for all clients, which step breaks them
(`NoWildEntry` and `UnlockAllComplete`: while the channel is started).

## 7. Findings and observations

Findings, each with a run:

1. `dma_timer_hang`: `hrtimer_cancel` is called with `chanlock` held
   (`menable_dma.c:316`, `menable6.c:988`) while `men_dma_timeout` spins on that
   lock. The timer's comment expects the other function to "take care of
   everything".
2. `uiq_cxp_lost`: `uiq_write_to_device_cxp` limits a copy of `write_count` to one
   packet; `men_uiq_push` removes the unlimited number from the ring
   (`uiq.c:161`, `uiq.c:237`), so packets queued behind the first are dropped.

Observed while modelling, without a run of their own. DMA channel:

* A starter that has cancelled the work of a stop finds its head freed and
  returns; the channel stays `STOPPING`. The code asserts that this does not
  happen (`fgrab.c:97`, `WARN_ON(dma_done_was_cancelled)`). `FreeUnderStart = FALSE`
  excludes such clients where `StopHasOwner` is checked; that nothing else loses a stop is
  proved without it (`StopIsLostOnlyWithItsHead`).
* A head is released while its channel is `STOPPING` and the board still has its
  descriptors (`menable_mem.c:442`).
* The count of finished transfers is read before `chanlock` (`menable6.c:922`);
  after a stop and restart in between, buffers of the new acquisition are booked
  that the board has not filled (`irq.stale`).
* With `QueueAnyList = TRUE` (clients queue a buffer that is not free) `UnlockAllComplete` fails: `men_queue_buffer` overwrites the
  tag, and the `BUG_ON`s at `menable_ioctl.c:299` are reached.
* After a stale count the handler can meet an empty hot list, the `WARN_ON` at
  `menable_mem.c:557`.
* A restart in selective mode moves buffers from the hot to the free list
  (`menable_dma.c:649`); the comment at line 600 says ready.
* `ready_count` wraps when a buffer tagged READY on a stopped channel is removed
  (`menable_ioctl.c:421`); in selective mode with a timeout a late interrupt can
  then pop an empty ready list.
* Comments at `menable_mem.c:688` and `722` name the FREE list where the code
  moves to READY.
* `me6` waits for delayed work (`flush_delayed_work`) with a spin lock held
  (`menable6.c:1544`).
* A waiter that was woken and then sees the count reset by a restart returns
  `-ETIMEDOUT`.

User interrupt queues:

* A reader whose queue is cleared sleeps on with `cpltodo = -1` and is not woken
  by later data before its timeout (`uiq.c:456`).
* `men_scale_uiq` wakes nobody (`uiq.c:651-680`). A writer that sleeps for more words
  than a smaller buffer holds is not woken when the queue is drained, because its
  request does not fit, nor when the buffer grows again: it sleeps until its timeout
  although there is room. `NoMissedWakeup` excludes this case by `starved`; it came up
  when the invariant was proved, as a buffer that was large enough for every request
  had hidden it in the model.
* A smaller buffer and a full me5 queue lose words without the DATALOSS flag
  (the source has a TODO at `uiq.c:107`); a nearly full queue stores a word that
  asks for a timestamp without one.
* A write queue in use hangs, that is `is_running` stays set and no interrupt will come,
  when `me5_startirq` acknowledges its event (`menable5.c:1231`: first open after words
  were written to the closed board, write of the design name, reconnection), when
  `me5_irq` acknowledges it as unwanted (`menable5.c:819`), and when a microEnable 6 board
  is reconfigured (`menable6_impulse.c:203`; nothing clears `is_running`). `uiq_write` then
  stores its words and sends none until the last close clears the flag.
* The last close and `me5_stopirq` clear `is_running` while the board still drains its
  FIFO (`menable_core.c:163`, `menable5.c:1209`); the next write pushes up to
  `fpga_fifo_depth` words on top. A queue interrupt that comes late, of the first burst,
  meets a queue that is not running (the `WARN_ON` in `uiq_irq`) and pushes once more.
* Words that a reconfigured microEnable 6 board had not delivered are lost without being
  counted, and a packet cut there ends without its end flag.
* A CXP packet that is incomplete, or follows one cut off by (2), leaves
  `is_running` set with nothing sent.
* `me6_alloc_va_event_uiqs` (`menable6.c:227-305`): growing again after shrinking
  does not raise `num_active_uiqs` to the number asked for.

Messaging DMA:

* The event interrupt is masked neither by `stopirq` nor by the destruction of the
  controller for a reconfiguration: a handler that has passed the running check
  dereferences the freed address array (`IrqGetFreed`,
  `messaging_dma_controller.c:99`, `260`).
* The results of `abort` and `start` are ignored (`messaging_dma_controller.c:242`,
  `menable6_impulse.c:194`). After a stop that timed out, pages may be freed under a
  running engine, and a new set-up reads from offset 0 while the board goes on
  elsewhere.
* After a count overflow or a failed fetch the read offset stays behind for good.
* When the address array cannot be allocated the declaration is forgotten
  (`menable6_impulse.c:189`): the pages are never freed (`me6_impulse_exit` looks at the
  declaration, `296`; `Orphaned` in `Board`, which `NothingLeft` excepts) and later event
  interrupts use the register protocol. The failure path of the page allocation indexes a
  NULL array (`menable6_impulse.c:104`).

Transactions:

* A failing copy or command leaves `process_transaction` without `end_transaction`
  (`menable_ioctl.c:157-164`); results of a command burst are not copied back
  (`144`); a state change burst calls `handle_post_burst_flags` directly, which I2C
  bus controllers do not have.
* A BPI write reports STATUS_OK although bytes were dropped: the odd last byte of data
  (`bpi_controller.c:265`), all but the first of a command (`226`), all without an
  operation flag; a second shot of data starts again at the address of the first.
* On a board that is gone, spi_dual, spi_bs and most BPI bursts report STATUS_OK: they look at no
  status. `Vanish` contains this; `BurstsKeepPromise` does not promise more there than the
  code does (`Reached`). The odd last byte of a spi_dual quad write goes out with a filler
  byte.
* `bpi_controller.c:293`: an inner `ret` shadows the result, so a read shot always
  reports success. A failed `SET_ACTIVE_BANK` leaves the cached bank.
* `write_stop` returns the inverse of its result (`i2c_master_core.c:419-421`).
* `spi_v2_read_data_when_valid` polls for ever when the board is gone.
* In raw MSB-first mode partial TMS words are not aligned as data words are
  (`jtag_controller.c:451-457`).

CoaXPress frontend:

* The comment of `cxp_set_port_map` (`cxp_frontend.c:949`) says that ports to be
  remapped are put into reset; the code does not. Results of the restoration are
  ignored; stream ids are not moved.
* The downscaling register has eight bits; for a fifth port the shift is negative
  (`cxp_frontend.c:862`), so the number of links of the fifth logical port is never
  written. A remap that moves a connector there or away from there changes its
  downscaling, although `cxp_set_port_map` restores it (`cxp_frontend.c:1014`): the
  proof of `RemapKeepsSettings` fails for five ports exactly here, and TLC finds the
  counterexample with `NumPorts = 5`, one downscaling command and a rotation.
* A failed `cxp_frontend_init` leads to a call of a NULL `reset` (`1288`, `1111`).
* The first power command switches on every port whose power state is unknown.

Alarms:

* `me5_irq_ack` enables the interrupt and then clears the status
  (`menable5.c:355-366`): an alarm in between stays masked and unreported.
* `DEVICE_REMOVED` is never cleared after a reconfiguration, so later alarms are
  reported as removals. An alarm raised before a client's first call is never told
  to it; during that call the client may sleep for 250 ms.
* `stopirq` may sleep in `flush_delayed_work` with interrupts off and
  `boardlock` held; `irq_notification_work` is not cancelled and may run on a board
  that has been freed (`menable5.c:1187`, `menable6.c:1412-1436`).

Board life cycle:

* `uiq.c:729` warns "Deleting UIQs although design is not changing."; a process that
  opened the board meanwhile and changes the design clears the flag that
  `me5_cleanup` set (`menable5.c:479-482`, `1242`).
* `menable_pci_remove` takes `releasing`, set by a reconfiguration still in
  progress, for a failed one and does not wait (`menable_core.c:396-398`).
* `me6_probe` returns 0 after failing allocations (a board without data), as does
  `menable_pci_probe` without BAR 0; failed probes leak channels, peripherals and
  the messaging pages (`MayLeak`).
* The character device is added before the board is initialised
  (`menable_core.c:620`). `IOCTL_EX_CONFIGURE_FPGA` takes no lock.
* `maxidx` is lowered twice for a failed probe (`711-715`, `95-104`, with a TODO at
  `699-710`): with overlapping probes numbers could repeat.

## 8. Assumptions of the models

* The board is external. Resetting its DMA engine (`abortdma`) also clears the
  count register; a board that failed to start stays off; a board that does not
  confirm a stop may go on transferring until the next reset.
* `men_create_userbuf` is one action, because a buffer is named by its slot. The
  race of two registrations of one slot is listed as a hazard.
* A head created anew under the id of a freed one may or may not get its address
  (`moved` in `StartRelock`).
* Frame counts are finite; continuous and pulse mode take the same branches.
  A timeout is a Boolean.
* `FreeUnderStart` and `QueueAnyList` describe clients, not the driver: `TRUE` in
  the runs that need the race, `FALSE` where a property is about well-behaved
  clients. `StopIsLostOnlyWithItsHead` and `OnlyQueueingSpoilsTheLists` hold for either.
* The event interface sends well-formed packets; a client of a CXP queue writes
  whole packets. A fatal signal is treated as the end of the timeout.
* `MessagingDma`: reading the count register clears it; the board cuts transmissions
  at the end of a page, skips its last word (as the comments in
  `messaging_dma_controller.c` say of the firmware) and does not overwrite pages it
  reported before they are acknowledged. An interrupt pending when a configuration
  begins has been served when the bitstream is loaded.
* `Transactions`: a controller's mutex serialises its transactions, so one at a time
  is modelled. A silent failure of the CPLD behind the BPI flash is left out.
* `CxpFrontend`: the port map tables of the source hold all permutations with their
  inverses; the model uses the set of permutations.
* `Alarms`: status registers of a board that is gone (all ones) and
  `pci_channel_offline` are left out.
* `Uiq`: one section under `uiq->lock` between the masking of interrupts and the clearing
  of `is_running` in `me5_stopirq` is taken before or after both. A reconfiguration that
  fails does nothing to the queue. A word is never fetched between the load of a
  bitstream and the reset of the transfer state.
* `Board`: a microEnable 6 board is an impulse (the abacus has no messaging DMA). The
  failure of `get_first_va_event_uiq_idx_me5` in `me5_probe` (`menable5.c:1485`) is left
  out: the function fails only for device ids that are no microEnable 5
  (`lib/uiq/uiq_helper.c:24`), and `menable_pci_probe` calls `me5_probe` for no others
  (`menable_core.c:665`). The PCI core does not run two probes at a time; a driver with open files
  is not removed (the module's reference count), which excludes hot unplug.

## 9. Not modelled

* Copying and checking of ioctl arguments, query ioctls, sysfs formatting, board
  tables, PCI and register access, the Windows and user-space ports: they keep no
  state of their own or are constants.
* The DMA part of `me5_irq`: the same booking loop as `me6_dma_irq` with another
  acknowledge register.
* Two channels that share heads: two copies of `DmaChannel` are out of TLC's reach,
  and a smaller model would leave out the sections in which the race lies.
* Scatter-gather lists: a sequential computation at registration, without shared
  state. `me6_sgl.c`, `sgl_v2.c` and the image buffer deque are not called by the
  Linux driver.
* Of the queues: `me6_alloc_va_event_uiqs`; the reset of the transfer state in
  `init_peripherals` racing the event interrupt, which is not masked and may have read
  `remaining_packet_words` before; a microEnable 5 interrupt that finds no valid word; a
  board that is gone (status all ones).
* `cxp_prepare_applet_reload` (`cxp_frontend.c:1073`): a reset, a request and a poll; nothing
  in the repository calls it.
* `mcap_lib.c`: a sequence of configuration space accesses and polls; `Board` and
  `MessagingDma` use its result.
* Hazards of the DMA channel that stay without a property are listed in
  `PROJECT.json` with the reason.

## 10. Plan

Done: all modules of section 2, with the proofs of section 6. Every safety property a
passing run checks is proved, the refinement of `Transfer` among them, with four provisos:
`RemapKeepsSettings` for boards with up to four ports (section 7), and `StopHasOwner`,
`NoWildEntry` and `UnlockAllComplete` by theorems that name the one step which can break
them. `ListsConsistent`, `FramesInOrder`, `HotMatchesHardware`, `EngineFed` and
`QueuedBuffersRegistered` are proved for `Careful` clients.
