------------------------------- MODULE Alarms -------------------------------
(***************************************************************************)
(* Alarms and notifications of a board.  The board raises alarms; the      *)
(* interrupt handler records and masks them and schedules                  *)
(* irq_notification_work, which wakes the clients sleeping in              *)
(* DEVCTRL_GET_ASYNC_NOTIFY and arms temperature_alarm_work; that work, or *)
(* a client with DEVCTRL_RESET_ASYNC_NOTIFY, acknowledges an alarm and     *)
(* lets the board raise it again.  microEnable 5 boards (menable5.c) use   *)
(* two locks for what menable6.c does under one.  Interrupts are stopped   *)
(* and started around the last close and around a reconfiguration.         *)
(***************************************************************************)
EXTENDS Naturals, FiniteSets

CONSTANTS
  Families,      \* the drivers to check, of "me5" and "me6"
  Waiters,       \* threads that wait for notifications
  Resetters,     \* threads that reset them
  Parent,        \* the process (ppid) of each
  MaxRaises,     \* bound on the alarms a board raises, by family
  MaxCalls,      \* bound on the ioctls
  MaxStops       \* bound on the times interrupts are stopped

Clients == Waiters \cup Resetters

VARIABLES
  family,
  hw,            \* alarm status, alarm enable register, MSI-X message on its way
  mask,          \* irq_wanted (its alarm bits), alarms_enabled
  status,        \* irq_alarms_status, alarms_status
  notif,         \* notifications
  stamp,         \* notification_time_stamp
  isr,           \* the interrupt handler: where it is, the alarms it works on
  note,          \* irq_notification_work
  temp,          \* temperature_alarm_work
  board,         \* stopirq, startirq and their callers
  handlers,      \* struct me_notification_handler, by client
  clients,       \* ioctls under way
  count

vars == <<family, hw, mask, status, notif, stamp, isr, note, temp, board, handlers,
          clients, count>>
data == <<status, notif, stamp>>
works == <<isr, note, temp>>

Alarms == {"temp", "other"}   \* over-temperature; any alarm that a client resets
NoHandler == [listed |-> FALSE, quit |-> FALSE, stamp |-> 0, done |-> 0]
IdleClient == [pc |-> "idle", any |-> FALSE, stamp |-> 0, fresh |-> FALSE, alarms |-> {},
               removed |-> FALSE]

Init ==
  /\ family \in Families
  /\ hw = [pending |-> {}, enable |-> {}, msg |-> FALSE]
  /\ mask = {} /\ status = {} /\ notif = {} /\ stamp = 0
  /\ isr = [pc |-> "idle", st |-> {}]
  /\ note = [queued |-> FALSE, pc |-> "idle"]
  /\ temp = [queued |-> FALSE, pc |-> "idle"]
  /\ board = [pc |-> "stopped", why |-> "close"]
  /\ handlers = [c \in Clients |-> NoHandler]
  /\ clients = [c \in Clients |-> IdleClient]
  /\ count = [raises |-> 0, calls |-> 0, stops |-> 0]
-----------------------------------------------------------------------------
(* the board *)

\* An alarm comes up, or is still there and comes up again.
Raise(a) ==
  /\ count.raises < MaxRaises[family]
  /\ family = "me6" => a \in hw.enable
  /\ hw' = [hw EXCEPT !.pending = @ \cup {a}, !.msg = (family = "me6")]
  /\ count' = [count EXCEPT !.raises = @ + 1]
  /\ UNCHANGED <<family, mask, data, works, board, handlers, clients>>
-----------------------------------------------------------------------------
(* the interrupt handlers *)

RecordAlarms(st) ==
  /\ status' = status \cup st
  /\ notif' = IF status' # {} THEN notif \cup {"ALARM"} ELSE notif
  /\ stamp' = IF status' # {} THEN stamp + 1 ELSE stamp
  /\ note' = IF status' # {} THEN [note EXCEPT !.queued = TRUE] ELSE note

\* me5_irq, first section: alarms that are not wanted are acknowledged.
Me5IrqEnter ==
  /\ family = "me5" /\ isr.pc = "idle" /\ hw.pending \cap hw.enable # {}
  /\ hw' = IF hw.pending \subseteq mask THEN hw
           ELSE [hw EXCEPT !.enable = mask, !.pending = @ \cap mask]
  /\ isr' = IF hw.pending \cap mask = {} THEN isr
            ELSE [pc |-> "record", st |-> hw.pending \cap mask]
  /\ UNCHANGED <<family, mask, data, note, temp, board, handlers, clients, count>>

\* Second section, under notification_data_lock; irq_wanted is read without its lock.
Me5IrqRecord ==
  /\ family = "me5" /\ isr.pc = "record"
  /\ RecordAlarms(isr.st \cap mask)
  /\ isr' = [pc |-> "mask", st |-> status']
  /\ UNCHANGED <<family, hw, mask, temp, board, handlers, clients, count>>

\* Third section, under irqmask_lock: "Disable all alarms until they are handled".
Me5IrqMask ==
  /\ isr.pc = "mask"
  /\ mask' = mask \ isr.st
  /\ hw' = [hw EXCEPT !.enable = mask']
  /\ isr' = [pc |-> "idle", st |-> {}]
  /\ UNCHANGED <<family, data, note, temp, board, handlers, clients, count>>

\* me6_level_irq: the status is read before the lock is taken and does not show a
\* condition that has gone; a software alarm is taken back.
Me6IrqEnter ==
  /\ family = "me6" /\ isr.pc = "idle" /\ hw.msg
  /\ \E st \in SUBSET hw.pending :
       /\ hw' = [hw EXCEPT !.msg = FALSE, !.pending = st \ {"other"}]
       /\ isr' = IF st = {} THEN isr ELSE [pc |-> "record", st |-> st]
  /\ UNCHANGED <<family, mask, data, note, temp, board, handlers, clients, count>>

\* The enable register keeps the alarms until its next write.
Me6IrqRecord ==
  /\ family = "me6" /\ isr.pc = "record"
  /\ mask' = mask \ isr.st
  /\ RecordAlarms(isr.st)
  /\ isr' = [pc |-> "idle", st |-> {}]
  /\ UNCHANGED <<family, hw, temp, board, handlers, clients, count>>

Interrupt == Me5IrqEnter \/ Me5IrqRecord \/ Me5IrqMask \/ Me6IrqEnter \/ Me6IrqRecord
-----------------------------------------------------------------------------
(* me5_irq_ack (three steps) and me6_ack_alarms (one) *)

FirstAck == IF family = "me5" THEN "write" ELSE "ack"
AfterAck == [write |-> "enable", enable |-> "clear", clear |-> "idle", ack |-> "idle"]

\* Mutant of ClearStatus: the notification outlives the last alarm.
ClearStatusOnly(acked) == status' = status \ acked /\ UNCHANGED notif

ClearStatus(acked) ==
  /\ status' = status \ acked
  /\ notif' = IF status' = {} THEN notif \ {"ALARM"} ELSE notif

Ack(pc, acked) ==
  /\ UNCHANGED stamp
  /\ \/ /\ pc = "write"
        /\ hw' = [hw EXCEPT !.pending = @ \ acked]
        /\ UNCHANGED <<mask, status, notif>>
     \/ /\ pc = "enable"
        /\ mask' = mask \cup acked
        /\ hw' = [hw EXCEPT !.enable = mask']
        /\ UNCHANGED <<status, notif>>
     \/ /\ pc = "clear"
        /\ ClearStatus(acked)
        /\ UNCHANGED <<hw, mask>>
     \/ /\ pc = "ack"
        /\ ClearStatus(acked)
        /\ mask' = mask \cup acked
        /\ hw' = [hw EXCEPT !.enable = mask']
-----------------------------------------------------------------------------
(* the work items *)

Complete ==
  handlers' = [c \in Clients |->
    IF handlers[c].listed THEN [handlers[c] EXCEPT !.done = @ + 1] ELSE handlers[c]]

\* irq_notification_work: wake all handlers ...
NotificationWork ==
  /\ note.pc = "idle" /\ note.queued
  /\ note' = [queued |-> FALSE, pc |-> "woken"]
  /\ Complete
  /\ UNCHANGED <<family, hw, mask, data, isr, temp, board, clients, count>>

\* ... read the status ...
NotificationRead ==
  /\ note.pc = "woken"
  /\ note' = [note EXCEPT !.pc = IF "temp" \in status THEN "arm" ELSE "idle"]
  /\ UNCHANGED <<family, hw, mask, data, isr, temp, board, handlers, clients, count>>

\* ... and arm temperature_alarm_work, unless it is armed.
NotificationArm ==
  /\ note.pc = "arm"
  /\ temp' = [temp EXCEPT !.queued = TRUE]
  /\ note' = [note EXCEPT !.pc = "idle"]
  /\ UNCHANGED <<family, hw, mask, data, isr, board, handlers, clients, count>>

\* temperature_alarm_period has passed.
TemperatureWork ==
  /\ temp.queued /\ temp.pc = "idle"
  /\ temp' = [queued |-> FALSE, pc |-> FirstAck]
  /\ UNCHANGED <<family, hw, mask, data, isr, note, board, handlers, clients, count>>

TemperatureAck ==
  /\ temp.pc # "idle"
  /\ Ack(temp.pc, {"temp"})
  /\ temp' = [temp EXCEPT !.pc = AfterAck[temp.pc]]
  /\ UNCHANGED <<family, isr, note, board, handlers, clients, count>>

Notification == NotificationWork \/ NotificationRead \/ NotificationArm
Temperature == TemperatureWork \/ TemperatureAck
-----------------------------------------------------------------------------
(* stopirq and startirq *)

\* The last close needs idle clients, a reconfiguration does not.
StopCancel ==
  /\ board.pc = "running" /\ count.stops < MaxStops
  /\ \E why \in {"close", "reconfigure"} :
       /\ why = "close" => \A c \in Clients : clients[c].pc = "idle"
       /\ board' = [pc |-> IF temp.queued THEN "mask" ELSE "flush", why |-> why]
  /\ temp' = [temp EXCEPT !.queued = FALSE]
  /\ count' = [count EXCEPT !.stops = @ + 1]
  /\ UNCHANGED <<family, hw, mask, data, isr, note, handlers, clients>>

\* The work was not waiting: let it finish.
StopFlush ==
  /\ board.pc = "flush" /\ temp = [queued |-> FALSE, pc |-> "idle"]
  /\ board' = [board EXCEPT !.pc = "mask"]
  /\ UNCHANGED <<family, hw, mask, data, works, handlers, clients, count>>

Me5StopMask == hw' = [hw EXCEPT !.enable = {}, !.pending = {}]
Me6StopMask == hw' = [hw EXCEPT !.enable = {}]
StopMask ==
  /\ board.pc = "mask"
  /\ mask' = {}
  /\ IF family = "me5" THEN Me5StopMask ELSE Me6StopMask
  /\ board' = [board EXCEPT !.pc = "again"]
  /\ UNCHANGED <<family, data, works, handlers, clients, count>>

\* "cancel again"; a microEnable 5 board then tells its clients that it is gone.
StopAgain ==
  /\ board.pc = "again"
  /\ temp' = [temp EXCEPT !.queued = FALSE]
  /\ board' = [board EXCEPT !.pc =
       IF family = "me5" /\ board.why = "reconfigure" THEN "notify" ELSE "stopped"]
  /\ UNCHANGED <<family, hw, mask, data, isr, note, handlers, clients, count>>

\* me5_device_removed
NotifyRemoved ==
  /\ board.pc = "notify"
  /\ notif' = notif \cup {"REMOVED"} /\ stamp' = stamp + 1
  /\ board' = [board EXCEPT !.pc = "complete"]
  /\ UNCHANGED <<family, hw, mask, status, works, handlers, clients, count>>

\* Mutant of CompleteRemoved: the sleeping clients are not woken.
CompleteRemovedSilently ==
  /\ board.pc = "complete"
  /\ board' = [board EXCEPT !.pc = "stopped"]
  /\ UNCHANGED <<family, hw, mask, data, works, handlers, clients, count>>

CompleteRemoved ==
  /\ board.pc = "complete"
  /\ Complete
  /\ board' = [board EXCEPT !.pc = "stopped"]
  /\ UNCHANGED <<family, hw, mask, data, works, clients, count>>

\* me6: init_peripherals enables the software alarm, without the lock.
InitPeripherals ==
  /\ family = "me6" /\ board = [pc |-> "stopped", why |-> "reconfigure"]
  /\ mask' = {"other"}
  /\ hw' = [hw EXCEPT !.enable = {"other"}, !.pending = @ \ {"other"}]
  /\ board' = [board EXCEPT !.pc = "ready"]
  /\ UNCHANGED <<family, data, works, handlers, clients, count>>

Me5StartIrq == hw' = [hw EXCEPT !.enable = Alarms, !.pending = {}]
Me6StartIrq == hw' = [hw EXCEPT !.enable = Alarms, !.pending = @ \ {"other"}]

\* startirq, by the first open, me5_device_reconnected or IOCTL_EX_CONFIGURE_FPGA.
StartIrq ==
  /\ \/ board.pc = "ready"
     \/ board.pc = "stopped" /\ (board.why = "close" \/ family = "me5")
  /\ mask' = Alarms
  /\ IF family = "me5" THEN Me5StartIrq ELSE Me6StartIrq
  /\ board' = [board EXCEPT !.pc = "running"]
  /\ UNCHANGED <<family, data, works, handlers, clients, count>>

Board ==
  \/ StopCancel \/ StopFlush \/ StopMask \/ StopAgain
  \/ NotifyRemoved \/ CompleteRemoved \/ InitPeripherals \/ StartIrq
-----------------------------------------------------------------------------
(* DEVCTRL_GET_ASYNC_NOTIFY *)

Unlocked == <<family, hw, mask, data, works, board>>
At(c, pc) == clients[c].pc = pc
Goes(c, pc) == clients' = [clients EXCEPT ![c].pc = pc]
Returns(c) == clients' = [clients EXCEPT ![c] = IdleClient]

\* A file is open, and this client makes an ioctl.
Call(c) ==
  /\ At(c, "idle") /\ count.calls < MaxCalls
  /\ board.pc = "running" \/ board.why = "reconfigure"
  /\ count' = [count EXCEPT !.calls = @ + 1]

\* Read the notifications and the time stamp; look for the handler.
GetNotify(c) ==
  /\ Call(c)
  /\ clients' = [clients EXCEPT ![c] =
       [IdleClient EXCEPT !.pc = IF handlers[c].listed THEN "check" ELSE "create",
                          !.any = (notif # {}), !.stamp = stamp]]
  /\ UNCHANGED <<Unlocked, handlers>>

\* A new handler takes the time stamp; kzalloc may fail.
CreateHandler(c) ==
  /\ At(c, "create")
  /\ \/ /\ handlers' = [handlers EXCEPT ![c].stamp = stamp]
        /\ Goes(c, "add")
     \/ /\ Returns(c)
        /\ UNCHANGED handlers
  /\ UNCHANGED <<Unlocked, count>>

AddHandler(c) ==
  /\ At(c, "add")
  /\ handlers' = [handlers EXCEPT ![c].listed = TRUE]
  /\ clients' = [clients EXCEPT ![c].pc = "check", ![c].fresh = TRUE]
  /\ UNCHANGED <<Unlocked, count>>

NothingNew(c) == handlers[c].stamp = clients[c].stamp \/ ~clients[c].any

CheckHandler(c) ==
  /\ At(c, "check")
  /\ Goes(c, IF ~handlers[c].quit /\ NothingNew(c) THEN "wait" ELSE "reread")
  /\ UNCHANGED <<Unlocked, handlers, count>>

\* The completion, or the timeout of 250 ms or a fatal signal.
Woken(c) ==
  /\ At(c, "wait") /\ handlers[c].done > 0
  /\ handlers' = [handlers EXCEPT ![c].done = @ - 1]
  /\ Goes(c, "reread")
  /\ UNCHANGED <<Unlocked, count>>

TimesOut(c) ==
  /\ At(c, "wait")
  /\ Goes(c, "reread")
  /\ UNCHANGED <<Unlocked, handlers, count>>

Reread(c) ==
  /\ At(c, "reread")
  /\ clients' = [clients EXCEPT ![c] =
       [@ EXCEPT !.pc = "decide", !.any = (notif # {}), !.stamp = stamp,
                 !.alarms = status, !.removed = ("REMOVED" \in notif)]]
  /\ UNCHANGED <<Unlocked, handlers, count>>

FreeHandler(c) == handlers' = [handlers EXCEPT ![c] = NoHandler]

\* DRIVER_CLOSED, unless the answer cannot be copied to the caller.
DecideQuit(c) ==
  /\ At(c, "decide") /\ handlers[c].quit
  /\ FreeHandler(c) \/ UNCHANGED handlers
  /\ Returns(c)
  /\ UNCHANGED <<Unlocked, count>>

\* A time stamp that the handler has not seen: DEVICE_REMOVED ends the handler, else
\* DEVICE_ALARM, or a timeout if the alarm is gone; reinit_completion.
DecideNew(c) ==
  /\ At(c, "decide") /\ ~handlers[c].quit /\ handlers[c].stamp # clients[c].stamp
  /\ IF clients[c].removed THEN FreeHandler(c)
     ELSE handlers' = [handlers EXCEPT ![c].stamp = clients[c].stamp, ![c].done = 0]
  /\ Returns(c)
  /\ UNCHANGED <<Unlocked, count>>

\* A timeout, a wakeup that was for nothing, or a fatal signal (EFAULT).
DecideOld(c) ==
  /\ At(c, "decide") /\ ~handlers[c].quit /\ handlers[c].stamp = clients[c].stamp
  /\ Returns(c)
  /\ UNCHANGED <<Unlocked, handlers, count>>
-----------------------------------------------------------------------------
(* DEVCTRL_RESET_ASYNC_NOTIFY *)

\* DRIVER_CLOSED: every handler of the caller's process must quit.
QuitHandlers(c) ==
  /\ Call(c)
  /\ handlers' = [d \in Clients |->
       IF handlers[d].listed /\ Parent[d] = Parent[c]
       THEN [handlers[d] EXCEPT !.quit = TRUE, !.done = @ + 1] ELSE handlers[d]]
  /\ UNCHANGED <<Unlocked, clients>>

\* Mutant of SetPeriod: the work that waited is cancelled and not armed again.
SetPeriodCancels(c) ==
  /\ Call(c)
  /\ temp' = [temp EXCEPT !.queued = FALSE]
  /\ UNCHANGED <<family, hw, mask, data, isr, note, board, handlers, clients>>

\* DEVICE_ALARM, temperature: a new period.  If the work waits it is armed again.
SetPeriod(c) ==
  /\ Call(c)
  /\ temp' = [temp EXCEPT !.queued = FALSE]
  /\ IF temp.queued THEN Goes(c, "rearm") ELSE UNCHANGED clients
  /\ UNCHANGED <<family, hw, mask, data, isr, note, board, handlers>>

Rearm(c) ==
  /\ At(c, "rearm")
  /\ temp' = [temp EXCEPT !.queued = TRUE]
  /\ Goes(c, "idle")
  /\ UNCHANGED <<family, hw, mask, data, isr, note, board, handlers, count>>

\* DEVICE_ALARM, any other alarm: acknowledge it.
ResetAlarm(c) ==
  /\ Call(c)
  /\ Goes(c, FirstAck)
  /\ UNCHANGED <<Unlocked, handlers>>

ClientAck(c) ==
  /\ clients[c].pc \in DOMAIN AfterAck
  /\ Ack(clients[c].pc, {"other"})
  /\ Goes(c, AfterAck[clients[c].pc])
  /\ UNCHANGED <<family, works, board, handlers, count>>

Client(c) ==
  \/ CreateHandler(c) \/ AddHandler(c) \/ CheckHandler(c) \/ Woken(c) \/ TimesOut(c)
  \/ Reread(c) \/ DecideQuit(c) \/ DecideNew(c) \/ DecideOld(c) \/ Rearm(c) \/ ClientAck(c)

Reset(c) == QuitHandlers(c) \/ SetPeriod(c) \/ ResetAlarm(c)

Next ==
  \/ \E a \in Alarms : Raise(a)
  \/ Interrupt \/ Notification \/ Temperature \/ Board
  \/ \E c \in Clients : Client(c)
  \/ \E c \in Waiters : GetNotify(c)
  \/ \E c \in Resetters : Reset(c)

\* Interrupts, work items and threads inside an ioctl run on; timers expire.
Spec ==
  /\ Init /\ [][Next]_vars
  /\ WF_vars(Interrupt) /\ WF_vars(Notification) /\ WF_vars(Temperature)
  /\ \A c \in Clients : WF_vars(Client(c))
-----------------------------------------------------------------------------
(* properties *)

\* No client sleeps through a notification: when its handler is behind, the wakeup has
\* been given or is on its way (notification work queued, removal under way); when it
\* is asked to quit the wakeup has been given.  The first call of a client is exempt:
\* its handler joins the list after it took the time stamp, so it may sleep 250 ms.
NotifierWoken ==
  \A c \in Clients :
    LET h == handlers[c]
        behind == h.stamp # stamp /\ notif # {} /\ ~clients[c].fresh
    IN  (At(c, "wait") /\ h.done = 0) =>
          ~h.quit /\ (behind => (note.queued \/ board.pc = "complete"))

\* A client that is told DEVICE_ALARM is told which alarm: the notification and the
\* alarm status are changed by three agents and always agree when they are read.
AlarmHasCause ==
  \A c \in Clients :
    (At(c, "decide") /\ clients[c].any /\ ~clients[c].removed) => clients[c].alarms # {}

\* me6: an over-temperature alarm that was masked can come up again, if interrupts are
\* not stopped: temperature_alarm_work, armed twice, cancelled and armed again by
\* several agents, does run.
TemperatureRearmed ==
  (family = "me6" /\ "temp" \notin mask)
    ~> ("temp" \in mask \/ board.pc # "running")
=============================================================================
