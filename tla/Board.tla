------------------------------- MODULE Board --------------------------------
(***************************************************************************)
(* Life cycle of the boards: menable_pci_probe with me5_probe and          *)
(* me6_probe, any step of which may fail; open, release and the thread     *)
(* groups of the processes; the ioctls that change the design              *)
(* (IOCTL_PP_CONTROL, DEVCTRL_RECONFIGURE_FPGA, IOCTL_EX_CONFIGURE_FPGA);  *)
(* menable_pci_remove.  A resource is a name in "held".                    *)
(***************************************************************************)
EXTENDS Naturals, Sequences, FiniteSets

CONSTANTS
  Boards,        \* PCI devices
  Family,        \* "me5" or "me6", for each
  Procs,         \* processes
  MaxFiles,      \* bound on the files a process has open, by process
  MaxProbes,     \* bound on probes
  MaxFaults,     \* bound on failing steps
  MaxCalls       \* bound on ioctls

\* A board is of one of the two families; the names of boards and processes are not
\* those that stand for the absence of one.
ASSUME BoardAssumption ==
  /\ Family \in [Boards -> {"me5", "me6"}]
  /\ "none" \notin Boards \cup Procs /\ "nobody" \notin Procs
  /\ MaxFiles \in [Procs -> Nat]
  /\ MaxProbes \in Nat /\ MaxFaults \in Nat /\ MaxCalls \in Nat

VARIABLES
  maxidx,
  board,         \* struct siso_menable and the calls of the PCI core, by device
  proc,          \* what a process is doing, and on which board
  count

vars == <<maxidx, board, proc, count>>

\* A step of a probe: what it takes; what its error path gives back; whether the
\* probe function then returns an error (in me6_probe "ret" may still be 0).
Step(takes, gives, told) == [takes |-> takes, gives |-> gives, told |-> told]

\* menable_pci_probe before the probe of the family.  Without BAR 0 it returns 0.
CoreLadder ==
  << Step("cdev", {}, TRUE),
     Step("device", {"cdev"}, TRUE),
     Step("regions", {}, TRUE),
     Step("bar", {}, FALSE) >>

Page == {"data", "pool", "page"}

\* The steps of me5_probe, each with the resources that its error label frees.
Me5Uiqs == Step("uiqs", Page, TRUE)

\* Mutant of Me5Irq: a failed request_irq leaves by the label before its own.
Me5IrqSkips == Step("irq", Page, TRUE)

Me5Irq == Step("irq", Page \cup {"uiqs"}, TRUE)

Me5Dmas == Step("dmas", Page \cup {"uiqs", "irq"}, TRUE)
Me5Ladder ==
  << Step("data", {}, TRUE), Step("pool", {"data"}, TRUE), Step("page", {"data", "pool"}, TRUE),
     Me5Uiqs, Me5Irq, Step("peripherals", {}, TRUE), Me5Dmas >>

\* The steps of me6_probe.
Me6Messaging == Step("messaging", {"data"}, TRUE)
Me6Uiqs == Step("uiqs", {"data"}, TRUE)
Me6Irq == Step("irq", Page \cup {"uiqs"}, TRUE)
Me6Dmas == Step("dmas", Page \cup {"uiqs", "irq"}, TRUE)
Me6Peripherals == Step("peripherals", Page \cup {"uiqs", "irq"}, TRUE)
Me6Ladder ==
  << Step("data", {}, FALSE), Me6Messaging, Me6Uiqs, Step("pool", {"data", "uiqs"}, FALSE),
     Step("page", {"data", "uiqs", "pool"}, FALSE), Me6Irq, Me6Dmas, Me6Peripherals >>

\* me5_exit; me6_exit, which has me6_impulse_exit free the pages of the messaging DMA
\* if they are declared.
Me5Exit == Page \cup {"uiqs", "irq", "peripherals"}
Me6Exit == Me5Exit \cup {"messaging"}
ExitFrees(x) == IF Family[x] = "me5" THEN Me5Exit ELSE Me6Exit

\* The end of menable_pci_probe; err_sysfs_link calls men_del_uiqs and men->exit.
Link(x) == Step("link", ExitFrees(x), TRUE)
Ladder(x) ==
  CoreLadder \o (IF Family[x] = "me5" THEN Me5Ladder ELSE Me6Ladder) \o <<Link(x)>>

NoBoard ==
  [at |-> "absent", told |-> TRUE, step |-> 0, idx |-> 0, held |-> {},
   state |-> "UNINITIALISED", changing |-> FALSE, releasing |-> FALSE, use |-> 0,
   irq |-> FALSE, chan |-> "none", cnt |-> [p \in Procs |-> 0], marked |-> {},
   undeclared |-> FALSE]
Outside == [pc |-> "none", on |-> "none", files |-> 0]

Init ==
  /\ maxidx = 0
  /\ board = [x \in Boards |-> NoBoard]
  /\ proc = [p \in Procs |-> Outside]
  /\ count = [probes |-> 0, faults |-> 0, calls |-> 0]

Is(x, at) == board[x].at = at
Has(x, r) == r \in board[x].held
\* The next state of one board.
Becomes(x, r) == board' = [board EXCEPT ![x] = r]
-----------------------------------------------------------------------------
(* menable_pci_probe: the PCI core probes one device at a time *)

Probing == \E x \in Boards : board[x].at \in {"probing", "dropping", "failing"}

ProbeBegin(x) ==
  /\ board[x].at \in {"absent", "failed", "removed"} /\ ~Probing /\ count.probes < MaxProbes
  /\ maxidx' = maxidx + 1
  /\ Becomes(x, [NoBoard EXCEPT !.at = "probing", !.step = 1, !.idx = maxidx,
                                !.held = {"number"}, !.changing = TRUE])
  /\ count' = [count EXCEPT !.probes = @ + 1]
  /\ UNCHANGED proc

\* The step succeeds.  men_set_state(READY) adds the DMA channels; a me6 board with
\* peripherals starts its interrupts.  The last step ends the probe.
ProbeStep(x) ==
  /\ Is(x, "probing")
  /\ LET b == board[x]
         s == Ladder(x)[b.step]
         last == b.step = Len(Ladder(x))
     IN  Becomes(x, [b EXCEPT !.held = @ \cup {s.takes},
                              !.step = IF last THEN 0 ELSE @ + 1,
                              !.at = IF last THEN "up" ELSE "probing",
                              !.changing = ~last,
                              !.state = IF s.takes = "dmas" THEN "READY" ELSE @,
                              !.irq = @ \/ (Family[x] = "me6" /\ s.takes = "peripherals")])
  /\ UNCHANGED <<maxidx, proc, count>>

\* me6_update_board_status: a board without a design gets no channels, no peripherals.
ProbeUnconfigured(x) ==
  /\ Is(x, "probing") /\ Family[x] = "me6" /\ Ladder(x)[board[x].step].takes = "dmas"
  /\ Becomes(x, [board[x] EXCEPT !.step = @ + 2])
  /\ UNCHANGED <<maxidx, proc, count>>

\* The step fails.  menable_pci_probe leaves by err_release or err_cdev ("dropping"), or
\* by err_board_dev ("failing"); not told of an error of me6_probe, it goes on to its
\* end, and the device is bound without data ("hollow").
ProbeFails(x) ==
  /\ Is(x, "probing") /\ count.faults < MaxFaults
  /\ LET b == board[x]
         s == Ladder(x)[b.step]
         ignored == Family[x] = "me5" /\ s.takes = "peripherals"
     IN  Becomes(x,
           IF ignored THEN [b EXCEPT !.step = @ + 1]
           ELSE [b EXCEPT !.held = @ \ s.gives, !.told = s.told,
                          !.at = CASE b.step <= 2 -> "dropping"
                                   [] b.step > 2 /\ (s.told \/ s.takes = "bar") -> "failing"
                                   [] OTHER -> "hollow"])
  /\ count' = [count EXCEPT !.faults = @ + 1]
  /\ UNCHANGED <<maxidx, proc>>

\* Mutant of LowerMax: the number goes back whether or not it is the highest.
LowerMaxAlways(x) == maxidx' = maxidx - 1

LowerMax(x) == maxidx' = IF board[x].idx = maxidx - 1 THEN maxidx - 1 ELSE maxidx

\* What is left of a board when struct siso_menable is freed; regions and BAR are
\* managed by the PCI core.
Freed(x, at) ==
  [NoBoard EXCEPT !.at = at,
                  !.undeclared = board[x].undeclared,
                  !.held = board[x].held \ {"number", "cdev", "device", "regions", "bar", "link"}]

\* err_release: the number and the memory.
ProbeDropped(x) ==
  /\ Is(x, "dropping")
  /\ LowerMax(x)
  /\ Becomes(x, Freed(x, "failed"))
  /\ UNCHANGED <<proc, count>>

\* err_board_dev: the number ...
ProbeUnwind(x) ==
  /\ Is(x, "failing") /\ Has(x, "number")
  /\ LowerMax(x)
  /\ Becomes(x, [board[x] EXCEPT !.held = @ \ {"number"}])
  /\ UNCHANGED <<proc, count>>

\* ... the devices; device_unregister calls menable_obj_release, which looks at the
\* number again.  A probe that returns 0 leaves the device bound.
ProbeEnds(x) ==
  /\ Is(x, "failing") /\ ~Has(x, "number")
  /\ LowerMax(x)
  /\ Becomes(x, Freed(x, IF board[x].told THEN "failed" ELSE "hollow"))
  /\ UNCHANGED <<proc, count>>
-----------------------------------------------------------------------------
(* open and release *)

In(p, pc) == proc[p].pc = pc
Goes(p, pc) == proc' = [proc EXCEPT ![p].pc = pc]
On(p) == proc[p].on
Users(x) == {p \in Procs : On(p) = x}

\* startirq: a me6 board without a design is left alone.
CanStart(x) == Family[x] = "me5" \/ board[x].state = "READY"

\* menable_open, under boardlock.
Open(p, x) ==
  /\ Is(x, "up") /\ proc[p].files < MaxFiles[p]
  /\ In(p, "none") \/ (In(p, "in") /\ On(p) = x)
  /\ Becomes(x, [board[x] EXCEPT !.use = @ + 1,
                                 !.irq = @ \/ (board[x].use = 0 /\ CanStart(x))])
  /\ proc' = [proc EXCEPT ![p] = [pc |-> "group", on |-> x, files |-> @.files + 1]]
  /\ UNCHANGED <<maxidx, count>>

\* The thread group of the process, found or made; without memory it has none.
JoinGroup(p) ==
  /\ In(p, "group")
  /\ \/ Becomes(On(p), [board[On(p)] EXCEPT !.cnt[p] = @ + 1])
     \/ /\ board[On(p)].cnt[p] = 0 /\ UNCHANGED board
  /\ Goes(p, "in")
  /\ UNCHANGED <<maxidx, count>>

\* Mutant of LeaveGroup: the channels of a process that is gone run on.
LeaveGroupRunning(p, b) ==
  IF b.cnt[p] = 0 THEN b
  ELSE [b EXCEPT !.cnt[p] = @ - 1, !.marked = IF b.cnt[p] = 1 THEN @ \ {p} ELSE @]

\* men_cleanup_threadgroup: the channels that the group has started are stopped.
LeaveGroup(p, b) ==
  IF b.cnt[p] = 0 THEN b
  ELSE IF b.cnt[p] > 1 THEN [b EXCEPT !.cnt[p] = @ - 1]
  ELSE [b EXCEPT !.cnt[p] = 0, !.marked = @ \ {p},
                 !.chan = IF p \in b.marked THEN "none" ELSE @]

\* men_cleanup_channels, by the last user.
CleanupChannels(b) == [b EXCEPT !.chan = "none", !.irq = FALSE]

\* menable_release, its sections under boardlock.
Release(p) ==
  /\ In(p, "in")
  /\ LET b == LeaveGroup(p, [board[On(p)] EXCEPT !.use = @ - 1])
     IN  /\ Becomes(On(p), IF b.use = 0 THEN CleanupChannels(b) ELSE b)
         /\ proc' = [proc EXCEPT ![p] =
              CASE b.use = 0 -> [@ EXCEPT !.pc = "mem", !.files = 0]
                [] b.use > 0 /\ @.files > 1 -> [@ EXCEPT !.files = @ - 1]
                [] OTHER -> Outside]
  /\ UNCHANGED <<maxidx, count>>

\* me5_cleanup, me6_cleanup: mark the design as changing ...
Cleanup(p) ==
  /\ In(p, "mem")
  /\ Becomes(On(p), [board[On(p)] EXCEPT !.changing = TRUE])
  /\ Goes(p, "del")
  /\ UNCHANGED <<maxidx, count>>

\* ... me5: men_del_uiqs of the higher FPGAs; forget the name; and unmark it.
CleanupEnds(p) ==
  /\ In(p, "del")
  /\ Becomes(On(p), [board[On(p)] EXCEPT !.changing = FALSE])
  /\ proc' = [proc EXCEPT ![p] = Outside]
  /\ UNCHANGED <<maxidx, count>>
-----------------------------------------------------------------------------
(* ioctls *)

Call(p) ==
  /\ In(p, "in") /\ count.calls < MaxCalls
  /\ count' = [count EXCEPT !.calls = @ + 1]

\* IOCTL_FG_START_TRANSFER by a process, with or without a thread group.
StartDma(p) ==
  /\ Call(p)
  /\ Has(On(p), "dmas") /\ board[On(p)].chan = "none"
  /\ LET b == board[On(p)]
     IN  Becomes(On(p), IF b.cnt[p] > 0
                        THEN [b EXCEPT !.chan = p, !.marked = @ \cup {p}]
                        ELSE [b EXCEPT !.chan = "nobody"])
  /\ UNCHANGED <<maxidx, proc>>

\* IOCTL_FG_STOP_CMD, by any process; the marks of the groups stay.
StopDma(p) ==
  /\ Call(p)
  /\ board[On(p)].chan # "none"
  /\ Becomes(On(p), [board[On(p)] EXCEPT !.chan = "none"])
  /\ UNCHANGED <<maxidx, proc>>

\* IOCTL_PP_CONTROL: refused while the design changes.
PPControl(p) ==
  /\ Call(p)
  /\ IF board[On(p)].changing THEN UNCHANGED <<board, proc>>
     ELSE /\ Becomes(On(p), [board[On(p)] EXCEPT !.changing = TRUE])
          /\ Goes(p, "pp")
  /\ UNCHANGED maxidx

PPControlEnds(p) ==
  /\ In(p, "pp")
  /\ Becomes(On(p), [board[On(p)] EXCEPT !.changing = FALSE])
  /\ Goes(p, "in")
  /\ UNCHANGED <<maxidx, count>>

\* me5_reconfigure_fpga: nothing is taken down if the board is being released.
Reconfigure(p) ==
  /\ Call(p) /\ Family[On(p)] = "me5"
  /\ Goes(p, IF board[On(p)].releasing THEN "reset" ELSE "removed")
  /\ UNCHANGED <<maxidx, board>>

\* me5_device_removed
DeviceRemoved(p) ==
  /\ In(p, "removed")
  /\ Becomes(On(p), [board[On(p)] EXCEPT !.releasing = TRUE, !.irq = FALSE])
  /\ Goes(p, "wait")
  /\ UNCHANGED <<maxidx, count>>

DeviceRemovedWaits(p) ==
  /\ In(p, "wait") /\ ~board[On(p)].changing
  /\ Becomes(On(p), [board[On(p)] EXCEPT !.changing = TRUE])
  /\ Goes(p, "drop")
  /\ UNCHANGED <<maxidx, count>>

\* men_alloc_dma(men, 0), cleanup_peripherals
DropDmas(p) ==
  /\ In(p, "drop")
  /\ Becomes(On(p), [board[On(p)] EXCEPT !.held = @ \ {"dmas", "peripherals"},
                                         !.chan = "none"])
  /\ Goes(p, "reset")
  /\ UNCHANGED <<maxidx, count>>

\* The FPGA loads its design.  me5_device_reconnected: peripherals, interrupts ...
Reconnected(p) ==
  /\ In(p, "reset")
  /\ Becomes(On(p), [board[On(p)] EXCEPT !.held = @ \cup {"peripherals"},
                                         !.releasing = FALSE, !.irq = TRUE])
  /\ Goes(p, "add")
  /\ UNCHANGED <<maxidx, count>>

\* ... men_add_dmas, whose failure is ignored ...
AddDmas(p) ==
  /\ In(p, "add")
  /\ \/ Becomes(On(p), [board[On(p)] EXCEPT !.held = @ \cup {"dmas"}])
        /\ UNCHANGED count
     \/ /\ count.faults < MaxFaults /\ ~Has(On(p), "dmas") /\ UNCHANGED board
        /\ count' = [count EXCEPT !.faults = @ + 1]
  /\ Goes(p, "changed")
  /\ UNCHANGED maxidx

\* ... and the end.
ReconfigureEnds(p) ==
  /\ In(p, "changed")
  /\ Becomes(On(p), [board[On(p)] EXCEPT !.changing = FALSE])
  /\ Goes(p, "in")
  /\ UNCHANGED <<maxidx, count>>

\* IOCTL_EX_CONFIGURE_FPGA, which takes no lock: a board that runs is taken down.
Configure(p) ==
  /\ Call(p) /\ Family[On(p)] = "me6"
  /\ Becomes(On(p), IF board[On(p)].state = "UNINITIALISED" THEN board[On(p)]
                    ELSE [board[On(p)] EXCEPT !.irq = FALSE, !.state = "UNINITIALISED",
                                              !.held = @ \ {"peripherals"}])
  /\ Goes(p, "write")
  /\ UNCHANGED maxidx

\* The bitstream is written; me6_update_board_status finds a design, or none (dead if
\* it had been up), or there is an error; new channels are added to those there are.
WriteBitstream(p) ==
  /\ In(p, "write")
  /\ LET b == board[On(p)]
     IN  \/ /\ Becomes(On(p), [b EXCEPT !.state = "READY", !.held = @ \cup {"dmas"}])
            /\ Goes(p, "init")
         \/ /\ \/ Becomes(On(p), [b EXCEPT !.state = IF @ = "UNINITIALISED" THEN @ ELSE "DEAD"])
               \/ UNCHANGED board
            /\ Goes(p, "in")
  /\ UNCHANGED <<maxidx, count>>

\* init_peripherals, and the interrupts if it succeeds.  If it fails, what was set up
\* stays; if its last part fails, the controller of the messaging DMA, the driver
\* forgets messaging_dma_declaration.
InitPeripherals(p) ==
  /\ In(p, "init")
  /\ LET b == [board[On(p)] EXCEPT !.held = @ \cup {"peripherals"}]
     IN  \/ Becomes(On(p), [b EXCEPT !.irq = @ \/ CanStart(On(p))])
         \/ Becomes(On(p), b)
         \/ Becomes(On(p), [b EXCEPT !.undeclared = TRUE])
  /\ Goes(p, "in")
  /\ UNCHANGED <<maxidx, count>>
-----------------------------------------------------------------------------
(* menable_pci_remove, when the module is unloaded: no file is open *)

\* design_changing waited for and set, interrupts stopped, "releasing" set, channels
\* removed.
Remove(x) ==
  /\ Is(x, "up") /\ ~board[x].changing
  /\ Users(x) = {}
  /\ Becomes(x, [board[x] EXCEPT !.at = "removing", !.changing = TRUE, !.irq = FALSE,
                                 !.releasing = TRUE, !.held = @ \ {"dmas"}])
  /\ UNCHANGED <<maxidx, proc, count>>

\* The pages of the messaging DMA, once their declaration is forgotten.
Orphaned(b) == IF b.undeclared THEN {"messaging"} ELSE {}

\* men_del_uiqs, men->exit; me6_impulse_exit does not find orphaned pages.
Exit(x) ==
  /\ Is(x, "removing")
  /\ Becomes(x, [board[x] EXCEPT !.at = "unregister",
                                 !.held = @ \ (ExitFrees(x) \ Orphaned(board[x]))])
  /\ UNCHANGED <<maxidx, proc, count>>

\* device_unregister, cdev_del, put_device, menable_obj_release
RemoveEnds(x) ==
  /\ Is(x, "unregister")
  /\ LowerMax(x)
  /\ Becomes(x, Freed(x, "removed"))
  /\ UNCHANGED <<proc, count>>

Next ==
  \/ \E x \in Boards :
       \/ ProbeBegin(x) \/ ProbeStep(x) \/ ProbeUnconfigured(x) \/ ProbeFails(x)
       \/ ProbeDropped(x) \/ ProbeUnwind(x) \/ ProbeEnds(x)
       \/ Remove(x) \/ Exit(x) \/ RemoveEnds(x)
       \/ \E p \in Procs : Open(p, x)
  \/ \E p \in Procs :
       \/ JoinGroup(p) \/ Release(p) \/ Cleanup(p) \/ CleanupEnds(p)
       \/ StartDma(p) \/ StopDma(p) \/ PPControl(p) \/ PPControlEnds(p)
       \/ Reconfigure(p) \/ DeviceRemoved(p) \/ DeviceRemovedWaits(p) \/ DropDmas(p)
       \/ Reconnected(p) \/ AddDmas(p) \/ ReconfigureEnds(p)
       \/ Configure(p) \/ WriteBitstream(p) \/ InitPeripherals(p)

Spec == Init /\ [][Next]_vars
-----------------------------------------------------------------------------
(* properties *)

\* Two boards never have the same number (menable0, menable1, ...), over failed probes
\* and removals in any order: maxidx is lowered twice for a failed probe, and only for
\* the highest number.
NumbersUnique ==
  \A x, y \in Boards :
    (x # y /\ Has(x, "number") /\ Has(y, "number")) => board[x].idx # board[y].idx

\* What a probe leaves behind when it fails.  me6_probe never frees the memory of the
\* messaging DMA, neither probe function the channels and the peripherals.
MayLeak(x) ==
  {"dmas", "peripherals"} \cup (IF Family[x] = "me6" THEN {"messaging"} ELSE {})

\* A board that has been removed holds nothing, whatever its processes did before, but
\* for the pages of the messaging DMA after a reconfiguration that failed to start it
\* (nobody frees them any more); the error paths of the probe functions, wherever they
\* are entered, leave no more than MayLeak: no interrupt line, no data, no queue, no pool.
NothingLeft ==
  \A x \in Boards :
    /\ Is(x, "removed") => board[x].held \subseteq Orphaned(board[x])
    /\ Is(x, "failed") => board[x].held \subseteq MayLeak(x)

\* Nothing runs without a user: a running channel was started by a process that still
\* has a file open (or that had no thread group, and then some file is open); the
\* interrupts of a me5 board are on only if a file is open, also when one process
\* reconfigures the board while another one closes it.
UnusedIsQuiet ==
  \A x \in Boards :
    LET b == board[x]
    IN  /\ b.chan # "none" => b.use > 0
        /\ b.chan \in Procs => On(b.chan) = x /\ proc[b.chan].files > 0
        /\ (Family[x] = "me5" /\ b.irq) => b.use > 0
=============================================================================
