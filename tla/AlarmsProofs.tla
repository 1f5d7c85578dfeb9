---------------------------- MODULE AlarmsProofs ----------------------------
(***************************************************************************)
(* Proofs about Alarms, for any set of clients and any number of alarms,   *)
(* calls and stops, and for both families: no client sleeps through a      *)
(* notification, and a client that is told of an alarm is told which.      *)
(***************************************************************************)
EXTENDS Alarms, TLAPS

\* The places of an acknowledgement, by a client or by temperature_alarm_work.
AckPlaces == {"write", "enable", "clear", "ack"}

ClientRec ==
  [pc : {"idle", "create", "add", "check", "wait", "reread", "decide", "rearm"} \cup AckPlaces,
   any : BOOLEAN, stamp : Nat, fresh : BOOLEAN, alarms : SUBSET Alarms, removed : BOOLEAN]
HandlerRec == [listed : BOOLEAN, quit : BOOLEAN, stamp : Nat, done : Nat]
HwRec == [pending : SUBSET Alarms, enable : SUBSET Alarms, msg : BOOLEAN]
IsrRec == [pc : {"idle", "record", "mask"}, st : SUBSET Alarms]
NoteRec == [queued : BOOLEAN, pc : {"idle", "woken", "arm"}]
TempRec == [queued : BOOLEAN, pc : {"idle"} \cup AckPlaces]
BoardRec ==
  [pc : {"stopped", "ready", "running", "flush", "mask", "again", "notify", "complete"},
   why : {"close", "reconfigure"}]
CountRec == [raises : Nat, calls : Nat, stops : Nat]

\* The state of the driver that the interrupt handlers, the works and stopirq share.
SharedOK ==
  /\ family \in Families /\ hw \in HwRec
  /\ mask \in SUBSET Alarms /\ status \in SUBSET Alarms
  /\ notif \in SUBSET {"ALARM", "REMOVED"} /\ stamp \in Nat
  /\ isr \in IsrRec /\ note \in NoteRec /\ temp \in TempRec /\ board \in BoardRec
  /\ count \in CountRec

\* The type invariant: the handlers, the works and the ioctls keep their state in these
\* sets; no completion is taken that was not given.
TypeOK ==
  /\ SharedOK
  /\ handlers \in [Clients -> HandlerRec]
  /\ clients \in [Clients -> ClientRec]

\* The notification stands for an alarm that is recorded.
Caused == "ALARM" \in notif => status # {}

\* What a client knows between its look at the notifications and its sleep.  The handler
\* stays in the list.  If the time stamp has moved on since, a wakeup was given or will be
\* (the notification work is queued, the removal is not completed); if it has not, there
\* is nothing to report that was not there when the client looked.
Waking(c) ==
  /\ clients[c].pc \in {"check", "wait", "reread", "decide"} => handlers[c].listed
  /\ (clients[c].pc \in {"check", "wait"} /\ ~clients[c].fresh) =>
       /\ clients[c].stamp <= stamp
       /\ stamp # clients[c].stamp =>
            handlers[c].done > 0 \/ note.queued \/ board.pc = "complete"
       /\ (stamp = clients[c].stamp /\ ~clients[c].any) => notif = {}
  /\ clients[c].pc = "wait" =>
       NothingNew(c) /\ (handlers[c].quit => handlers[c].done > 0)

\* The answer that a client has read names an alarm.
Answer(c) ==
  (clients[c].pc = "decide" /\ clients[c].any /\ ~clients[c].removed) => clients[c].alarms # {}

IInv == TypeOK /\ Caused /\ \A c \in Clients : Waking(c) /\ Answer(c)

\* The invariant implies that no client sleeps through a notification.
LEMMA IInvWoken == IInv => NotifierWoken
<1> SUFFICES ASSUME IInv, NEW c \in Clients, clients[c].pc = "wait", handlers[c].done = 0
             PROVE  /\ ~handlers[c].quit
                    /\ (handlers[c].stamp # stamp /\ notif # {} /\ ~clients[c].fresh)
                         => (note.queued \/ board.pc = "complete")
  BY DEF NotifierWoken, At
<1>1. Waking(c) /\ ~(handlers[c].done > 0)
  BY DEF IInv
<1>2. QED
  BY <1>1 DEF Waking, NothingNew
-----------------------------------------------------------------------------
(* What one client sees of the steps of the others.                        *)

\* The client stands still.  Its handler may get a wakeup, with or without being asked to
\* quit.  The time stamp stays and no notification comes, and a wakeup on its way is not
\* lost; or the time stamp moves and a wakeup is on its way.
Bystander(c) ==
  /\ clients'[c] = clients[c]
  /\ handlers'[c].listed = handlers[c].listed /\ handlers'[c].stamp = handlers[c].stamp
  /\ handlers'[c].done >= handlers[c].done
  /\ handlers'[c].quit => handlers[c].quit \/ handlers'[c].done > 0
  /\ \/ /\ stamp' = stamp /\ notif' \subseteq notif
        /\ (note.queued \/ board.pc = "complete") /\ handlers[c].listed =>
             note'.queued \/ board'.pc = "complete" \/ handlers'[c].done > 0
     \/ /\ stamp' = stamp + 1
        /\ note'.queued \/ board'.pc = "complete"

\* A bystander keeps its part of the invariant.
LEMMA BystanderKeeps ==
  ASSUME TypeOK, TypeOK', NEW c \in Clients, Waking(c), Answer(c), Bystander(c)
  PROVE  Waking(c)' /\ Answer(c)'
<1>1. /\ stamp \in Nat /\ handlers[c] \in HandlerRec /\ clients[c] \in ClientRec
      /\ handlers'[c] \in HandlerRec
  BY DEF TypeOK, SharedOK
<1>2. handlers[c].done \in Nat /\ handlers'[c].done \in Nat /\ clients[c].stamp \in Nat
  BY <1>1 DEF HandlerRec, ClientRec
<1>3. Answer(c)'
  BY DEF Answer, Bystander
<1>4. ASSUME clients[c].pc \in {"check", "wait", "reread", "decide"}
      PROVE  handlers'[c].listed /\ handlers[c].listed
  BY <1>4 DEF Waking, Bystander
<1>5. ASSUME clients[c].pc \in {"check", "wait"}, ~clients[c].fresh
      PROVE  /\ clients[c].stamp <= stamp'
             /\ stamp' # clients[c].stamp =>
                  handlers'[c].done > 0 \/ note'.queued \/ board'.pc = "complete"
             /\ (stamp' = clients[c].stamp /\ ~clients[c].any) => notif' = {}
  <2>1. /\ clients[c].stamp <= stamp
        /\ stamp # clients[c].stamp => handlers[c].done > 0 \/ note.queued \/ board.pc = "complete"
        /\ (stamp = clients[c].stamp /\ ~clients[c].any) => notif = {}
    BY <1>5 DEF Waking
  <2>2. CASE stamp' = stamp + 1
    BY <1>1, <1>2, <2>1, <2>2 DEF Bystander
  <2>3. CASE stamp' # stamp + 1
    BY <1>1, <1>2, <1>4, <1>5, <2>1, <2>3 DEF Bystander
  <2>4. QED
    BY <2>2, <2>3
<1>6. ASSUME clients[c].pc = "wait"
      PROVE  /\ handlers'[c].stamp = clients[c].stamp \/ ~clients[c].any
             /\ handlers'[c].quit => handlers'[c].done > 0
  BY <1>2, <1>6 DEF Waking, NothingNew, Bystander
<1>7. clients'[c] = clients[c]
  BY DEF Bystander
<1>8. QED
  BY <1>3, <1>4, <1>5, <1>6, <1>7 DEF Waking, NothingNew

\* The steps that do not concern the clients.
Aside ==
  /\ clients' = clients /\ handlers' = handlers
  /\ \/ /\ stamp' = stamp /\ notif' \subseteq notif
        /\ note.queued => note'.queued
        /\ board.pc = "complete" => board'.pc = "complete"
     \/ /\ stamp' = stamp + 1
        /\ note'.queued \/ board'.pc = "complete"

\* Such a step preserves the invariant.
LEMMA AsideKeeps ==
  ASSUME IInv, SharedOK', Caused', Aside
  PROVE  IInv'
<1>1. TypeOK'
  BY DEF IInv, TypeOK, Aside
<1>2. ASSUME NEW c \in Clients PROVE Waking(c)' /\ Answer(c)'
  <2>1. handlers[c] \in HandlerRec
    BY DEF IInv, TypeOK
  <2>2. handlers[c].done \in Nat
    BY <2>1 DEF HandlerRec
  <2>3. Bystander(c)
    BY <2>2 DEF Aside, Bystander
  <2>4. QED
    BY <1>1, <2>3, BystanderKeeps DEF IInv
<1>3. QED
  BY <1>1, <1>2 DEF IInv
-----------------------------------------------------------------------------
(* The board, the interrupt handlers and the works.                        *)

\* Raise preserves the invariant.
LEMMA RaiseKeeps ==
  ASSUME IInv, NEW a \in Alarms, Raise(a)
  PROVE  IInv'
<1>1. SharedOK
  BY DEF IInv, TypeOK
<1>2. SharedOK'
  <2> DEFINE msg == (family = "me6")
  <2>1. msg \in BOOLEAN /\ hw' = [hw EXCEPT !.pending = @ \cup {a}, !.msg = msg]
    BY DEF Raise
  <2> HIDE DEF msg
  <2>2. hw' \in HwRec
    BY <1>1, <2>1 DEF SharedOK, HwRec
  <2>3. count' \in CountRec
    BY <1>1 DEF Raise, SharedOK, CountRec
  <2>4. QED
    BY <1>1, <2>2, <2>3 DEF Raise, SharedOK, data, works
<1>3. Caused'
  BY DEF IInv, Caused, Raise, data
<1>4. Aside
  BY <1>1 DEF Raise, Aside, data, works, SharedOK, HwRec, CountRec
<1>5. QED
  BY <1>2, <1>3, <1>4, AsideKeeps

\* Me5IrqEnter preserves the invariant.
LEMMA Me5IrqEnterKeeps ==
  ASSUME IInv, Me5IrqEnter
  PROVE  IInv'
<1>1. SharedOK
  BY DEF IInv, TypeOK
<1>2. SharedOK'
  BY <1>1 DEF Me5IrqEnter, SharedOK, data, works, HwRec, IsrRec
<1>3. Caused'
  BY DEF IInv, Caused, Me5IrqEnter, data
<1>4. Aside
  BY <1>1 DEF Me5IrqEnter, Aside, data, works, SharedOK, HwRec, IsrRec
<1>5. QED
  BY <1>2, <1>3, <1>4, AsideKeeps

\* Me5IrqMask preserves the invariant.
LEMMA Me5IrqMaskKeeps ==
  ASSUME IInv, Me5IrqMask
  PROVE  IInv'
<1>1. SharedOK
  BY DEF IInv, TypeOK
<1>2. SharedOK'
  BY <1>1 DEF Me5IrqMask, SharedOK, data, works, HwRec, IsrRec
<1>3. Caused'
  BY DEF IInv, Caused, Me5IrqMask, data
<1>4. Aside
  BY <1>1 DEF Me5IrqMask, Aside, data, works, SharedOK, HwRec, IsrRec
<1>5. QED
  BY <1>2, <1>3, <1>4, AsideKeeps

\* Me6IrqEnter preserves the invariant.
LEMMA Me6IrqEnterKeeps ==
  ASSUME IInv, Me6IrqEnter
  PROVE  IInv'
<1>1. SharedOK
  BY DEF IInv, TypeOK
<1>2. SharedOK'
  <2>1. PICK st \in SUBSET hw.pending :
          /\ hw' = [hw EXCEPT !.msg = FALSE, !.pending = st \ {"other"}]
          /\ isr' = IF st = {} THEN isr ELSE [pc |-> "record", st |-> st]
    BY DEF Me6IrqEnter
  <2>2. st \in SUBSET Alarms
    BY <1>1 DEF SharedOK, HwRec
  <2>3. hw' \in HwRec
    BY <1>1, <2>1, <2>2 DEF SharedOK, HwRec
  <2>4. isr' \in IsrRec
    BY <1>1, <2>1, <2>2 DEF SharedOK, IsrRec
  <2>5. QED
    BY <1>1, <2>3, <2>4 DEF Me6IrqEnter, SharedOK, data
<1>3. Caused'
  BY DEF IInv, Caused, Me6IrqEnter, data
<1>4. Aside
  BY <1>1 DEF Me6IrqEnter, Aside, data, works, SharedOK, HwRec, IsrRec
<1>5. QED
  BY <1>2, <1>3, <1>4, AsideKeeps

\* NotificationRead preserves the invariant.
LEMMA NotificationReadKeeps ==
  ASSUME IInv, NotificationRead
  PROVE  IInv'
<1>1. SharedOK
  BY DEF IInv, TypeOK
<1>2. SharedOK'
  BY <1>1 DEF NotificationRead, SharedOK, data, works, NoteRec
<1>3. Caused'
  BY DEF IInv, Caused, NotificationRead, data
<1>4. Aside
  BY <1>1 DEF NotificationRead, Aside, data, works, SharedOK, NoteRec
<1>5. QED
  BY <1>2, <1>3, <1>4, AsideKeeps

\* NotificationArm preserves the invariant.
LEMMA NotificationArmKeeps ==
  ASSUME IInv, NotificationArm
  PROVE  IInv'
<1>1. SharedOK
  BY DEF IInv, TypeOK
<1>2. SharedOK'
  BY <1>1 DEF NotificationArm, SharedOK, data, works, NoteRec, TempRec
<1>3. Caused'
  BY DEF IInv, Caused, NotificationArm, data
<1>4. Aside
  BY <1>1 DEF NotificationArm, Aside, data, works, SharedOK, NoteRec, TempRec
<1>5. QED
  BY <1>2, <1>3, <1>4, AsideKeeps

\* TemperatureWork preserves the invariant.
LEMMA TemperatureWorkKeeps ==
  ASSUME IInv, TemperatureWork
  PROVE  IInv'
<1>1. SharedOK
  BY DEF IInv, TypeOK
<1>2. SharedOK'
  BY <1>1 DEF TemperatureWork, SharedOK, data, works, TempRec, FirstAck, AckPlaces
<1>3. Caused'
  BY DEF IInv, Caused, TemperatureWork, data
<1>4. Aside
  BY <1>1 DEF TemperatureWork, Aside, data, works, SharedOK, TempRec, FirstAck, AckPlaces
<1>5. QED
  BY <1>2, <1>3, <1>4, AsideKeeps

\* StopCancel preserves the invariant.
LEMMA StopCancelKeeps ==
  ASSUME IInv, StopCancel
  PROVE  IInv'
<1>1. SharedOK
  BY DEF IInv, TypeOK
<1>2. SharedOK'
  <2>1. board' \in BoardRec
    BY <1>1 DEF StopCancel, SharedOK, BoardRec
  <2>2. temp' \in TempRec
    BY <1>1 DEF StopCancel, SharedOK, TempRec
  <2>3. count' \in CountRec
    BY <1>1 DEF StopCancel, SharedOK, CountRec
  <2>4. QED
    BY <1>1, <2>1, <2>2, <2>3 DEF StopCancel, SharedOK, data
<1>3. Caused'
  BY DEF IInv, Caused, StopCancel, data
<1>4. Aside
  BY <1>1 DEF StopCancel, Aside, data, works, SharedOK, TempRec, BoardRec, CountRec
<1>5. QED
  BY <1>2, <1>3, <1>4, AsideKeeps

\* StopFlush preserves the invariant.
LEMMA StopFlushKeeps ==
  ASSUME IInv, StopFlush
  PROVE  IInv'
<1>1. SharedOK
  BY DEF IInv, TypeOK
<1>2. SharedOK'
  BY <1>1 DEF StopFlush, SharedOK, data, works, BoardRec
<1>3. Caused'
  BY DEF IInv, Caused, StopFlush, data
<1>4. Aside
  BY <1>1 DEF StopFlush, Aside, data, works, SharedOK, BoardRec
<1>5. QED
  BY <1>2, <1>3, <1>4, AsideKeeps

\* StopMask preserves the invariant.
LEMMA StopMaskKeeps ==
  ASSUME IInv, StopMask
  PROVE  IInv'
<1>1. SharedOK
  BY DEF IInv, TypeOK
<1>2. SharedOK'
  BY <1>1 DEF StopMask, SharedOK, data, works, HwRec, BoardRec, Me5StopMask, Me6StopMask
<1>3. Caused'
  BY DEF IInv, Caused, StopMask, data
<1>4. Aside
  BY <1>1 DEF StopMask, Aside, data, works, SharedOK, HwRec, BoardRec, Me5StopMask, Me6StopMask
<1>5. QED
  BY <1>2, <1>3, <1>4, AsideKeeps

\* StopAgain preserves the invariant.
LEMMA StopAgainKeeps ==
  ASSUME IInv, StopAgain
  PROVE  IInv'
<1>1. SharedOK
  BY DEF IInv, TypeOK
<1>2. SharedOK'
  BY <1>1 DEF StopAgain, SharedOK, data, works, TempRec, BoardRec
<1>3. Caused'
  BY DEF IInv, Caused, StopAgain, data
<1>4. Aside
  BY <1>1 DEF StopAgain, Aside, data, works, SharedOK, TempRec, BoardRec
<1>5. QED
  BY <1>2, <1>3, <1>4, AsideKeeps

\* InitPeripherals preserves the invariant.
LEMMA InitPeripheralsKeeps ==
  ASSUME IInv, InitPeripherals
  PROVE  IInv'
<1>1. SharedOK
  BY DEF IInv, TypeOK
<1>2. SharedOK'
  BY <1>1 DEF InitPeripherals, SharedOK, data, works, HwRec, BoardRec, Alarms
<1>3. Caused'
  BY DEF IInv, Caused, InitPeripherals, data
<1>4. Aside
  BY <1>1 DEF InitPeripherals, Aside, data, works, SharedOK, HwRec, BoardRec, Alarms
<1>5. QED
  BY <1>2, <1>3, <1>4, AsideKeeps

\* StartIrq preserves the invariant.
LEMMA StartIrqKeeps ==
  ASSUME IInv, StartIrq
  PROVE  IInv'
<1>1. SharedOK
  BY DEF IInv, TypeOK
<1>2. SharedOK'
  <2>1. hw' \in HwRec
    BY <1>1 DEF StartIrq, SharedOK, HwRec, Me5StartIrq, Me6StartIrq
  <2>2. board' \in BoardRec
    BY <1>1 DEF StartIrq, SharedOK, BoardRec
  <2>3. QED
    BY <1>1, <2>1, <2>2 DEF StartIrq, SharedOK, data, works
<1>3. Caused'
  BY DEF IInv, Caused, StartIrq, data
<1>4. Aside
  BY <1>1 DEF StartIrq, Aside, data, works, SharedOK, HwRec, BoardRec, Alarms, Me5StartIrq, Me6StartIrq
<1>5. QED
  BY <1>2, <1>3, <1>4, AsideKeeps

\* NotifyRemoved preserves the invariant.
LEMMA NotifyRemovedKeeps ==
  ASSUME IInv, NotifyRemoved
  PROVE  IInv'
<1>1. SharedOK
  BY DEF IInv, TypeOK
<1>2. SharedOK'
  BY <1>1 DEF NotifyRemoved, SharedOK, data, works, BoardRec
<1>3. Caused'
  BY DEF IInv, Caused, NotifyRemoved, data
<1>4. Aside
  BY <1>1 DEF NotifyRemoved, Aside, data, works, SharedOK, BoardRec
<1>5. QED
  BY <1>2, <1>3, <1>4, AsideKeeps

\* RecordAlarms keeps the notification in step with the status; when the time stamp moves
\* the notification work is queued.
LEMMA Recorded ==
  ASSUME SharedOK, Caused, NEW st \in SUBSET Alarms, RecordAlarms(st)
  PROVE  /\ status' \in SUBSET Alarms /\ notif' \in SUBSET {"ALARM", "REMOVED"}
         /\ stamp' \in Nat /\ note' \in NoteRec /\ Caused'
         /\ \/ stamp' = stamp /\ notif' = notif /\ note' = note
            \/ stamp' = stamp + 1 /\ note'.queued
<1>1. status' = status \cup st /\ status' \in SUBSET Alarms
  BY DEF RecordAlarms, SharedOK
<1>2. CASE status' = {}
  BY <1>1, <1>2 DEF RecordAlarms, SharedOK, Caused
<1>3. CASE status' # {}
  <2>1. note' = [note EXCEPT !.queued = TRUE] /\ notif' = notif \cup {"ALARM"} /\ stamp' = stamp + 1
    BY <1>3 DEF RecordAlarms
  <2>2. note' \in NoteRec /\ note'.queued
    BY <2>1 DEF SharedOK, NoteRec
  <2>3. QED
    BY <1>1, <1>3, <2>1, <2>2 DEF SharedOK, Caused
<1>4. QED
  BY <1>2, <1>3

\* Me5IrqRecord preserves the invariant.
LEMMA Me5IrqRecordKeeps ==
  ASSUME IInv, Me5IrqRecord
  PROVE  IInv'
<1>1. SharedOK /\ Caused
  BY DEF IInv, TypeOK
<1>2. isr.st \cap mask \in SUBSET Alarms /\ RecordAlarms(isr.st \cap mask)
  BY <1>1 DEF SharedOK, IsrRec, Me5IrqRecord
<1>3. /\ status' \in SUBSET Alarms /\ notif' \in SUBSET {"ALARM", "REMOVED"}
      /\ stamp' \in Nat /\ note' \in NoteRec /\ Caused'
      /\ \/ stamp' = stamp /\ notif' = notif /\ note' = note
         \/ stamp' = stamp + 1 /\ note'.queued
  BY <1>1, <1>2, Recorded
<1>4. isr' \in IsrRec
  BY <1>3 DEF Me5IrqRecord, IsrRec
<1>5. SharedOK'
  BY <1>1, <1>3, <1>4 DEF Me5IrqRecord, SharedOK
<1>6. Aside
  BY <1>3 DEF Me5IrqRecord, Aside
<1>7. QED
  BY <1>3, <1>5, <1>6, AsideKeeps

\* Me6IrqRecord preserves the invariant.
LEMMA Me6IrqRecordKeeps ==
  ASSUME IInv, Me6IrqRecord
  PROVE  IInv'
<1>1. SharedOK /\ Caused
  BY DEF IInv, TypeOK
<1>2. isr.st \in SUBSET Alarms /\ RecordAlarms(isr.st)
  BY <1>1 DEF SharedOK, IsrRec, Me6IrqRecord
<1>3. /\ status' \in SUBSET Alarms /\ notif' \in SUBSET {"ALARM", "REMOVED"}
      /\ stamp' \in Nat /\ note' \in NoteRec /\ Caused'
      /\ \/ stamp' = stamp /\ notif' = notif /\ note' = note
         \/ stamp' = stamp + 1 /\ note'.queued
  BY <1>1, <1>2, Recorded
<1>4. isr' \in IsrRec /\ mask' \in SUBSET Alarms
  BY <1>1 DEF Me6IrqRecord, IsrRec, SharedOK
<1>5. SharedOK'
  BY <1>1, <1>3, <1>4 DEF Me6IrqRecord, SharedOK
<1>6. Aside
  BY <1>3 DEF Me6IrqRecord, Aside
<1>7. QED
  BY <1>3, <1>5, <1>6, AsideKeeps

\* An acknowledgement takes notifications away, and only with the last alarm.
LEMMA Acked ==
  ASSUME SharedOK, Caused, NEW pc \in AckPlaces, NEW acked \in SUBSET Alarms, Ack(pc, acked)
  PROVE  /\ hw' \in HwRec /\ mask' \in SUBSET Alarms /\ status' \in SUBSET Alarms
         /\ notif' \subseteq notif /\ stamp' = stamp /\ Caused'
<1>1. stamp' = stamp
  BY DEF Ack
<1>2. /\ status' \in SUBSET Alarms /\ notif' \subseteq notif /\ Caused'
  BY DEF Ack, ClearStatus, SharedOK, Caused
<1>3. mask' \in SUBSET Alarms
  BY DEF Ack, SharedOK
<1>4. hw' \in HwRec
  BY <1>3 DEF Ack, SharedOK, HwRec
<1>5. QED
  BY <1>1, <1>2, <1>3, <1>4

\* TemperatureAck preserves the invariant.
LEMMA TemperatureAckKeeps ==
  ASSUME IInv, TemperatureAck
  PROVE  IInv'
<1>1. SharedOK /\ Caused
  BY DEF IInv, TypeOK
<1>2. temp.pc \in AckPlaces /\ {"temp"} \in SUBSET Alarms
  BY <1>1 DEF TemperatureAck, SharedOK, TempRec, Alarms
<1>3. /\ hw' \in HwRec /\ mask' \in SUBSET Alarms /\ status' \in SUBSET Alarms
      /\ notif' \subseteq notif /\ stamp' = stamp /\ Caused'
  BY <1>1, <1>2, Acked DEF TemperatureAck
<1>4. AfterAck[temp.pc] \in {"idle"} \cup AckPlaces
  BY <1>2 DEF AckPlaces, AfterAck
<1>5. temp' \in TempRec
  BY <1>1, <1>4 DEF TemperatureAck, SharedOK, TempRec
<1>6. SharedOK'
  BY <1>1, <1>3, <1>5 DEF TemperatureAck, SharedOK
<1>7. Aside
  BY <1>3 DEF TemperatureAck, Aside
<1>8. QED
  BY <1>3, <1>6, <1>7, AsideKeeps

\* complete() for every handler in the list.
LEMMA Completed ==
  ASSUME TypeOK, Complete, NEW c \in Clients
  PROVE  /\ handlers' \in [Clients -> HandlerRec]
         /\ handlers'[c].listed = handlers[c].listed /\ handlers'[c].stamp = handlers[c].stamp
         /\ handlers'[c].quit = handlers[c].quit /\ handlers'[c].done >= handlers[c].done
         /\ handlers[c].listed => handlers'[c].done > 0
<1>1. \A d \in Clients : handlers[d] \in HandlerRec
  BY DEF TypeOK
<1>2. \A d \in Clients :
        handlers'[d] = IF handlers[d].listed THEN [handlers[d] EXCEPT !.done = @ + 1] ELSE handlers[d]
  BY DEF Complete
<1>3. \A d \in Clients : handlers'[d] \in HandlerRec
  <2>1. TAKE d \in Clients
  <2>2. handlers[d] \in HandlerRec
    BY <1>1
  <2>3. [handlers[d] EXCEPT !.done = @ + 1] \in HandlerRec
    BY <2>2 DEF HandlerRec
  <2>4. QED
    BY <1>2, <2>2, <2>3
<1>4. handlers' \in [Clients -> HandlerRec]
  BY <1>3 DEF Complete
<1>5. QED
  BY <1>1, <1>2, <1>4 DEF HandlerRec

\* NotificationWork preserves the invariant.
LEMMA NotificationWorkKeeps ==
  ASSUME IInv, NotificationWork
  PROVE  IInv'
<1>1. TypeOK'
  <2>1. handlers' \in [Clients -> HandlerRec]
    <3>1. CASE Clients = {}
      BY <3>1 DEF NotificationWork, Complete
    <3>2. CASE Clients # {}
      BY <3>2, Completed DEF IInv, NotificationWork
    <3>3. QED
      BY <3>1, <3>2
  <2>2. note' \in NoteRec
    BY DEF NotificationWork, NoteRec
  <2>3. QED
    BY <2>1, <2>2 DEF IInv, TypeOK, SharedOK, NotificationWork, data
<1>2. Caused'
  BY DEF IInv, Caused, NotificationWork, data
<1>3. ASSUME NEW c \in Clients PROVE Waking(c)' /\ Answer(c)'
  <2>1. Bystander(c)
    BY Completed DEF IInv, NotificationWork, Bystander, data
  <2>2. QED
    BY <1>1, <2>1, BystanderKeeps DEF IInv
<1>4. QED
  BY <1>1, <1>2, <1>3 DEF IInv

\* CompleteRemoved preserves the invariant.
LEMMA CompleteRemovedKeeps ==
  ASSUME IInv, CompleteRemoved
  PROVE  IInv'
<1>1. TypeOK'
  <2>1. handlers' \in [Clients -> HandlerRec]
    <3>1. CASE Clients = {}
      BY <3>1 DEF CompleteRemoved, Complete
    <3>2. CASE Clients # {}
      BY <3>2, Completed DEF IInv, CompleteRemoved
    <3>3. QED
      BY <3>1, <3>2
  <2>2. board' \in BoardRec
    BY DEF IInv, TypeOK, SharedOK, CompleteRemoved, BoardRec
  <2>3. QED
    BY <2>1, <2>2 DEF IInv, TypeOK, SharedOK, CompleteRemoved, data, works
<1>2. Caused'
  BY DEF IInv, Caused, CompleteRemoved, data
<1>3. ASSUME NEW c \in Clients PROVE Waking(c)' /\ Answer(c)'
  <2>1. Bystander(c)
    BY Completed DEF IInv, CompleteRemoved, Bystander, data
  <2>2. QED
    BY <1>1, <2>1, BystanderKeeps DEF IInv
<1>4. QED
  BY <1>1, <1>2, <1>3 DEF IInv
-----------------------------------------------------------------------------
(* Steps of a client.                                                      *)

\* Waking and Answer, of the client's own record and handler.
Fine(k, h) ==
  /\ k.pc \in {"check", "wait", "reread", "decide"} => h.listed
  /\ (k.pc \in {"check", "wait"} /\ ~k.fresh) =>
       /\ k.stamp <= stamp
       /\ stamp # k.stamp => h.done > 0 \/ note.queued \/ board.pc = "complete"
       /\ (stamp = k.stamp /\ ~k.any) => notif = {}
  /\ k.pc = "wait" => (h.stamp = k.stamp \/ ~k.any) /\ (h.quit => h.done > 0)
  /\ (k.pc = "decide" /\ k.any /\ ~k.removed) => k.alarms # {}

\* The client's own record and handler change; notifications may go.
Own(c, k, h) ==
  /\ clients' = [clients EXCEPT ![c] = k] /\ handlers' = [handlers EXCEPT ![c] = h]
  /\ notif' \subseteq notif /\ UNCHANGED <<stamp, note, board>>

\* Such a step preserves the invariant if the client is fine after it.
LEMMA OwnKeeps ==
  ASSUME IInv, NEW c \in Clients, NEW k \in ClientRec, NEW h \in HandlerRec,
         Own(c, k, h), Fine(k, h), SharedOK', Caused'
  PROVE  IInv'
<1>1. TypeOK'
  BY DEF IInv, TypeOK, Own
<1>2. clients'[c] = k /\ handlers'[c] = h /\ notif' \subseteq notif /\ UNCHANGED <<stamp, note, board>>
  BY DEF IInv, TypeOK, Own
<1>3. Waking(c)'
  BY <1>2 DEF Fine, Waking, NothingNew
<1>4. Answer(c)'
  BY <1>2 DEF Fine, Answer
<1>5. ASSUME NEW d \in Clients, d # c PROVE Waking(d)' /\ Answer(d)'
  <2>1. clients'[d] = clients[d] /\ handlers'[d] = handlers[d]
    BY <1>5 DEF IInv, TypeOK, Own
  <2>2. handlers[d] \in HandlerRec
    BY DEF IInv, TypeOK
  <2>3. handlers[d].done \in Nat
    BY <2>2 DEF HandlerRec
  <2>4. Bystander(d)
    BY <1>2, <2>1, <2>3 DEF Bystander
  <2>5. QED
    BY <1>1, <2>4, BystanderKeeps DEF IInv
<1>6. QED
  BY <1>1, <1>3, <1>4, <1>5 DEF IInv

\* What is known of a client before its step.
LEMMA Known ==
  ASSUME IInv, NEW c \in Clients
  PROVE  /\ SharedOK /\ Caused /\ clients[c] \in ClientRec /\ handlers[c] \in HandlerRec
         /\ handlers[c].done \in Nat /\ stamp \in Nat /\ Fine(clients[c], handlers[c])
         /\ IdleClient \in ClientRec /\ NoHandler \in HandlerRec
         /\ handlers = [handlers EXCEPT ![c] = handlers[c]]
         /\ clients = [clients EXCEPT ![c] = clients[c]]
<1>1. /\ SharedOK /\ Caused /\ clients[c] \in ClientRec /\ handlers[c] \in HandlerRec
      /\ Waking(c) /\ Answer(c)
  BY DEF IInv, TypeOK
<1>2. handlers[c].done \in Nat /\ stamp \in Nat
  BY <1>1 DEF HandlerRec, SharedOK
<1>3. Fine(clients[c], handlers[c])
  BY <1>1 DEF Fine, Waking, Answer, NothingNew
<1>4. IdleClient \in ClientRec /\ NoHandler \in HandlerRec
  BY DEF IdleClient, ClientRec, NoHandler, HandlerRec
<1>5. /\ handlers = [handlers EXCEPT ![c] = handlers[c]]
      /\ clients = [clients EXCEPT ![c] = clients[c]]
  BY DEF IInv, TypeOK
<1>6. QED
  BY <1>1, <1>2, <1>3, <1>4, <1>5

\* A client outside the part between its look and its answer needs nothing.
LEMMA Elsewhere ==
  ASSUME NEW k, NEW h, k.pc \notin {"check", "wait", "reread", "decide"}
  PROVE  Fine(k, h)
BY DEF Fine

\* CreateHandler preserves the invariant.
LEMMA CreateHandlerKeeps ==
  ASSUME IInv, NEW c \in Clients, CreateHandler(c)
  PROVE  IInv'
<1> DEFINE m == clients[c]
           g == handlers[c]
<1>1. /\ SharedOK /\ Caused /\ m \in ClientRec /\ g \in HandlerRec
      /\ g.done \in Nat /\ stamp \in Nat /\ Fine(m, g)
      /\ IdleClient \in ClientRec /\ NoHandler \in HandlerRec
      /\ handlers = [handlers EXCEPT ![c] = g]
      /\ clients = [clients EXCEPT ![c] = m]
  BY Known
<1>2. SharedOK'
  BY <1>1 DEF CreateHandler, SharedOK, CountRec, Unlocked, data, works
<1>3. Caused' /\ notif' \subseteq notif /\ UNCHANGED <<stamp, note, board>>
  BY <1>1 DEF CreateHandler, Caused, Unlocked, data, works
<1>4. ASSUME handlers' = [handlers EXCEPT ![c].stamp = stamp], Goes(c, "add") PROVE IInv'
  <2> DEFINE k == [m EXCEPT !.pc = "add"]
             h == [g EXCEPT !.stamp = stamp]
  <2>1. k \in ClientRec
    BY <1>1 DEF ClientRec
  <2>2. h \in HandlerRec
    BY <1>1 DEF HandlerRec
  <2>3. clients' = [clients EXCEPT ![c] = k] /\ handlers' = [handlers EXCEPT ![c] = h]
    BY <1>4, <1>1 DEF CreateHandler, Goes, Returns, FreeHandler
  <2>4. Fine(k, h)
    BY <1>1, Elsewhere DEF ClientRec
  <2> HIDE DEF k, h
  <2>5. Own(c, k, h)
    BY <1>3, <2>3 DEF Own
  <2>6. QED
    BY <1>2, <1>3, <2>1, <2>2, <2>4, <2>5, OwnKeeps
<1>5. ASSUME Returns(c), UNCHANGED handlers PROVE IInv'
  <2> DEFINE k == IdleClient
             h == g
  <2>1. k \in ClientRec
    BY <1>1
  <2>2. h \in HandlerRec
    BY <1>1
  <2>3. clients' = [clients EXCEPT ![c] = k] /\ handlers' = [handlers EXCEPT ![c] = h]
    BY <1>5, <1>1 DEF CreateHandler, Goes, Returns, FreeHandler
  <2>4. Fine(k, h)
    BY Elsewhere DEF IdleClient
  <2> HIDE DEF k, h
  <2>5. Own(c, k, h)
    BY <1>3, <2>3 DEF Own
  <2>6. QED
    BY <1>2, <1>3, <2>1, <2>2, <2>4, <2>5, OwnKeeps
<1>6. QED
  BY <1>4, <1>5 DEF CreateHandler, FreeHandler

\* AddHandler preserves the invariant.
LEMMA AddHandlerKeeps ==
  ASSUME IInv, NEW c \in Clients, AddHandler(c)
  PROVE  IInv'
<1> DEFINE m == clients[c]
           g == handlers[c]
<1>1. /\ SharedOK /\ Caused /\ m \in ClientRec /\ g \in HandlerRec
      /\ g.done \in Nat /\ stamp \in Nat /\ Fine(m, g)
      /\ IdleClient \in ClientRec /\ NoHandler \in HandlerRec
      /\ handlers = [handlers EXCEPT ![c] = g]
      /\ clients = [clients EXCEPT ![c] = m]
  BY Known
<1>2. SharedOK'
  BY <1>1 DEF AddHandler, SharedOK, CountRec, Unlocked, data, works
<1>3. Caused' /\ notif' \subseteq notif /\ UNCHANGED <<stamp, note, board>>
  BY <1>1 DEF AddHandler, Caused, Unlocked, data, works
<1> DEFINE k == [m EXCEPT !.pc = "check", !.fresh = TRUE]
           h == [g EXCEPT !.listed = TRUE]
<1>4. k \in ClientRec
  BY <1>1 DEF ClientRec
<1>5. h \in HandlerRec
  BY <1>1 DEF HandlerRec
<1>6. clients' = [clients EXCEPT ![c] = k] /\ handlers' = [handlers EXCEPT ![c] = h]
  BY <1>1 DEF AddHandler, Goes, Returns, FreeHandler
<1>7. Fine(k, h)
  BY <1>1 DEF Fine, ClientRec, HandlerRec
<1> HIDE DEF k, h
<1>8. Own(c, k, h)
  BY <1>3, <1>6 DEF Own
<1>9. QED
  BY <1>2, <1>3, <1>4, <1>5, <1>7, <1>8, OwnKeeps

\* CheckHandler preserves the invariant.
LEMMA CheckHandlerKeeps ==
  ASSUME IInv, NEW c \in Clients, CheckHandler(c)
  PROVE  IInv'
<1> DEFINE m == clients[c]
           g == handlers[c]
<1>1. /\ SharedOK /\ Caused /\ m \in ClientRec /\ g \in HandlerRec
      /\ g.done \in Nat /\ stamp \in Nat /\ Fine(m, g)
      /\ IdleClient \in ClientRec /\ NoHandler \in HandlerRec
      /\ handlers = [handlers EXCEPT ![c] = g]
      /\ clients = [clients EXCEPT ![c] = m]
  BY Known
<1>2. SharedOK'
  BY <1>1 DEF CheckHandler, SharedOK, CountRec, Unlocked, data, works
<1>3. Caused' /\ notif' \subseteq notif /\ UNCHANGED <<stamp, note, board>>
  BY <1>1 DEF CheckHandler, Caused, Unlocked, data, works
<1>4. ASSUME ~g.quit, NothingNew(c) PROVE IInv'
  <2> DEFINE k == [m EXCEPT !.pc = "wait"]
             h == g
  <2>1. k \in ClientRec
    BY <1>1 DEF ClientRec
  <2>2. h \in HandlerRec
    BY <1>1
  <2>3. clients' = [clients EXCEPT ![c] = k] /\ handlers' = [handlers EXCEPT ![c] = h]
    BY <1>4, <1>1 DEF CheckHandler, Goes, Returns, FreeHandler
  <2>4. Fine(k, h)
    BY <1>4, <1>1 DEF Fine, ClientRec, CheckHandler, At, NothingNew
  <2> HIDE DEF k, h
  <2>5. Own(c, k, h)
    BY <1>3, <2>3 DEF Own
  <2>6. QED
    BY <1>2, <1>3, <2>1, <2>2, <2>4, <2>5, OwnKeeps
<1>5. ASSUME ~(~g.quit /\ NothingNew(c)) PROVE IInv'
  <2> DEFINE k == [m EXCEPT !.pc = "reread"]
             h == g
  <2>1. k \in ClientRec
    BY <1>1 DEF ClientRec
  <2>2. h \in HandlerRec
    BY <1>1
  <2>3. clients' = [clients EXCEPT ![c] = k] /\ handlers' = [handlers EXCEPT ![c] = h]
    BY <1>5, <1>1 DEF CheckHandler, Goes, Returns, FreeHandler
  <2>4. Fine(k, h)
    BY <1>5, <1>1 DEF Fine, ClientRec, CheckHandler, At
  <2> HIDE DEF k, h
  <2>5. Own(c, k, h)
    BY <1>3, <2>3 DEF Own
  <2>6. QED
    BY <1>2, <1>3, <2>1, <2>2, <2>4, <2>5, OwnKeeps
<1>6. QED
  BY <1>4, <1>5 DEF CheckHandler, FreeHandler

\* Woken preserves the invariant.
LEMMA WokenKeeps ==
  ASSUME IInv, NEW c \in Clients, Woken(c)
  PROVE  IInv'
<1> DEFINE m == clients[c]
           g == handlers[c]
<1>1. /\ SharedOK /\ Caused /\ m \in ClientRec /\ g \in HandlerRec
      /\ g.done \in Nat /\ stamp \in Nat /\ Fine(m, g)
      /\ IdleClient \in ClientRec /\ NoHandler \in HandlerRec
      /\ handlers = [handlers EXCEPT ![c] = g]
      /\ clients = [clients EXCEPT ![c] = m]
  BY Known
<1>2. SharedOK'
  BY <1>1 DEF Woken, SharedOK, CountRec, Unlocked, data, works
<1>3. Caused' /\ notif' \subseteq notif /\ UNCHANGED <<stamp, note, board>>
  BY <1>1 DEF Woken, Caused, Unlocked, data, works
<1> DEFINE k == [m EXCEPT !.pc = "reread"]
           h == [g EXCEPT !.done = @ - 1]
<1>4. k \in ClientRec
  BY <1>1 DEF ClientRec
<1>5. h \in HandlerRec
  BY <1>1 DEF HandlerRec, Woken
<1>6. clients' = [clients EXCEPT ![c] = k] /\ handlers' = [handlers EXCEPT ![c] = h]
  BY <1>1 DEF Woken, Goes, Returns, FreeHandler
<1>7. Fine(k, h)
  BY <1>1 DEF Fine, ClientRec, HandlerRec, Woken, At
<1> HIDE DEF k, h
<1>8. Own(c, k, h)
  BY <1>3, <1>6 DEF Own
<1>9. QED
  BY <1>2, <1>3, <1>4, <1>5, <1>7, <1>8, OwnKeeps

\* TimesOut preserves the invariant.
LEMMA TimesOutKeeps ==
  ASSUME IInv, NEW c \in Clients, TimesOut(c)
  PROVE  IInv'
<1> DEFINE m == clients[c]
           g == handlers[c]
<1>1. /\ SharedOK /\ Caused /\ m \in ClientRec /\ g \in HandlerRec
      /\ g.done \in Nat /\ stamp \in Nat /\ Fine(m, g)
      /\ IdleClient \in ClientRec /\ NoHandler \in HandlerRec
      /\ handlers = [handlers EXCEPT ![c] = g]
      /\ clients = [clients EXCEPT ![c] = m]
  BY Known
<1>2. SharedOK'
  BY <1>1 DEF TimesOut, SharedOK, CountRec, Unlocked, data, works
<1>3. Caused' /\ notif' \subseteq notif /\ UNCHANGED <<stamp, note, board>>
  BY <1>1 DEF TimesOut, Caused, Unlocked, data, works
<1> DEFINE k == [m EXCEPT !.pc = "reread"]
           h == g
<1>4. k \in ClientRec
  BY <1>1 DEF ClientRec
<1>5. h \in HandlerRec
  BY <1>1
<1>6. clients' = [clients EXCEPT ![c] = k] /\ handlers' = [handlers EXCEPT ![c] = h]
  BY <1>1 DEF TimesOut, Goes, Returns, FreeHandler
<1>7. Fine(k, h)
  BY <1>1 DEF Fine, ClientRec, TimesOut, At
<1> HIDE DEF k, h
<1>8. Own(c, k, h)
  BY <1>3, <1>6 DEF Own
<1>9. QED
  BY <1>2, <1>3, <1>4, <1>5, <1>7, <1>8, OwnKeeps

\* Reread preserves the invariant.
LEMMA RereadKeeps ==
  ASSUME IInv, NEW c \in Clients, Reread(c)
  PROVE  IInv'
<1> DEFINE m == clients[c]
           g == handlers[c]
           any == (notif # {})
           removed == ("REMOVED" \in notif)
           k == [m EXCEPT !.pc = "decide", !.any = any, !.stamp = stamp, !.alarms = status,
                          !.removed = removed]
<1>1. /\ SharedOK /\ Caused /\ m \in ClientRec /\ g \in HandlerRec
      /\ stamp \in Nat /\ Fine(m, g) /\ handlers = [handlers EXCEPT ![c] = g]
  BY Known
<1>2. SharedOK'
  BY <1>1 DEF Reread, SharedOK, Unlocked, data, works
<1>3. Caused' /\ notif' \subseteq notif /\ UNCHANGED <<stamp, note, board>>
  BY <1>1 DEF Reread, Caused, Unlocked, data, works
<1>4. any \in BOOLEAN /\ removed \in BOOLEAN
  OBVIOUS
<1>5. clients' = [clients EXCEPT ![c] = k] /\ handlers' = [handlers EXCEPT ![c] = g]
  BY <1>1 DEF Reread
\* A notification that is not REMOVED is ALARM, and has its cause.
<1>6. any /\ ~removed => status # {}
  BY <1>1 DEF SharedOK, Caused
<1>7. status \in SUBSET Alarms
  BY <1>1 DEF SharedOK
<1> HIDE DEF any, removed
<1>8. k \in ClientRec
  BY <1>1, <1>4, <1>7 DEF ClientRec
<1>9. /\ k.pc = "decide" /\ k.any = any /\ k.removed = removed /\ k.alarms = status
  BY <1>1 DEF ClientRec
<1>10. g.listed
  BY <1>1 DEF Fine, Reread, At
<1>11. Fine(k, g)
  BY <1>6, <1>9, <1>10 DEF Fine
<1> HIDE DEF k
<1>12. Own(c, k, g)
  BY <1>3, <1>5 DEF Own
<1>13. QED
  BY <1>1, <1>2, <1>3, <1>8, <1>11, <1>12, OwnKeeps

\* DecideQuit preserves the invariant.
LEMMA DecideQuitKeeps ==
  ASSUME IInv, NEW c \in Clients, DecideQuit(c)
  PROVE  IInv'
<1> DEFINE m == clients[c]
           g == handlers[c]
<1>1. /\ SharedOK /\ Caused /\ m \in ClientRec /\ g \in HandlerRec
      /\ g.done \in Nat /\ stamp \in Nat /\ Fine(m, g)
      /\ IdleClient \in ClientRec /\ NoHandler \in HandlerRec
      /\ handlers = [handlers EXCEPT ![c] = g]
      /\ clients = [clients EXCEPT ![c] = m]
  BY Known
<1>2. SharedOK'
  BY <1>1 DEF DecideQuit, SharedOK, CountRec, Unlocked, data, works
<1>3. Caused' /\ notif' \subseteq notif /\ UNCHANGED <<stamp, note, board>>
  BY <1>1 DEF DecideQuit, Caused, Unlocked, data, works
<1>4. ASSUME FreeHandler(c) PROVE IInv'
  <2> DEFINE k == IdleClient
             h == NoHandler
  <2>1. k \in ClientRec
    BY <1>1
  <2>2. h \in HandlerRec
    BY <1>1
  <2>3. clients' = [clients EXCEPT ![c] = k] /\ handlers' = [handlers EXCEPT ![c] = h]
    BY <1>4, <1>1 DEF DecideQuit, Goes, Returns, FreeHandler
  <2>4. Fine(k, h)
    BY Elsewhere DEF IdleClient
  <2> HIDE DEF k, h
  <2>5. Own(c, k, h)
    BY <1>3, <2>3 DEF Own
  <2>6. QED
    BY <1>2, <1>3, <2>1, <2>2, <2>4, <2>5, OwnKeeps
<1>5. ASSUME UNCHANGED handlers PROVE IInv'
  <2> DEFINE k == IdleClient
             h == g
  <2>1. k \in ClientRec
    BY <1>1
  <2>2. h \in HandlerRec
    BY <1>1
  <2>3. clients' = [clients EXCEPT ![c] = k] /\ handlers' = [handlers EXCEPT ![c] = h]
    BY <1>5, <1>1 DEF DecideQuit, Goes, Returns, FreeHandler
  <2>4. Fine(k, h)
    BY Elsewhere DEF IdleClient
  <2> HIDE DEF k, h
  <2>5. Own(c, k, h)
    BY <1>3, <2>3 DEF Own
  <2>6. QED
    BY <1>2, <1>3, <2>1, <2>2, <2>4, <2>5, OwnKeeps
<1>6. QED
  BY <1>4, <1>5 DEF DecideQuit, FreeHandler

\* DecideNew preserves the invariant.
LEMMA DecideNewKeeps ==
  ASSUME IInv, NEW c \in Clients, DecideNew(c)
  PROVE  IInv'
<1> DEFINE m == clients[c]
           g == handlers[c]
<1>1. /\ SharedOK /\ Caused /\ m \in ClientRec /\ g \in HandlerRec
      /\ g.done \in Nat /\ stamp \in Nat /\ Fine(m, g)
      /\ IdleClient \in ClientRec /\ NoHandler \in HandlerRec
      /\ handlers = [handlers EXCEPT ![c] = g]
      /\ clients = [clients EXCEPT ![c] = m]
  BY Known
<1>2. SharedOK'
  BY <1>1 DEF DecideNew, SharedOK, CountRec, Unlocked, data, works
<1>3. Caused' /\ notif' \subseteq notif /\ UNCHANGED <<stamp, note, board>>
  BY <1>1 DEF DecideNew, Caused, Unlocked, data, works
<1>4. ASSUME clients[c].removed PROVE IInv'
  <2> DEFINE k == IdleClient
             h == NoHandler
  <2>1. k \in ClientRec
    BY <1>1
  <2>2. h \in HandlerRec
    BY <1>1
  <2>3. clients' = [clients EXCEPT ![c] = k] /\ handlers' = [handlers EXCEPT ![c] = h]
    BY <1>4, <1>1 DEF DecideNew, Goes, Returns, FreeHandler
  <2>4. Fine(k, h)
    BY Elsewhere DEF IdleClient
  <2> HIDE DEF k, h
  <2>5. Own(c, k, h)
    BY <1>3, <2>3 DEF Own
  <2>6. QED
    BY <1>2, <1>3, <2>1, <2>2, <2>4, <2>5, OwnKeeps
<1>5. ASSUME ~clients[c].removed PROVE IInv'
  <2> DEFINE k == IdleClient
             h == [g EXCEPT !.stamp = m.stamp, !.done = 0]
  <2>1. k \in ClientRec
    BY <1>1
  <2>2. h \in HandlerRec
    BY <1>1 DEF HandlerRec, ClientRec
  <2>3. clients' = [clients EXCEPT ![c] = k] /\ handlers' = [handlers EXCEPT ![c] = h]
    BY <1>5, <1>1 DEF DecideNew, Goes, Returns, FreeHandler
  <2>4. Fine(k, h)
    BY Elsewhere DEF IdleClient
  <2> HIDE DEF k, h
  <2>5. Own(c, k, h)
    BY <1>3, <2>3 DEF Own
  <2>6. QED
    BY <1>2, <1>3, <2>1, <2>2, <2>4, <2>5, OwnKeeps
<1>6. QED
  BY <1>4, <1>5 DEF DecideNew, FreeHandler

\* DecideOld preserves the invariant.
LEMMA DecideOldKeeps ==
  ASSUME IInv, NEW c \in Clients, DecideOld(c)
  PROVE  IInv'
<1> DEFINE m == clients[c]
           g == handlers[c]
<1>1. /\ SharedOK /\ Caused /\ m \in ClientRec /\ g \in HandlerRec
      /\ g.done \in Nat /\ stamp \in Nat /\ Fine(m, g)
      /\ IdleClient \in ClientRec /\ NoHandler \in HandlerRec
      /\ handlers = [handlers EXCEPT ![c] = g]
      /\ clients = [clients EXCEPT ![c] = m]
  BY Known
<1>2. SharedOK'
  BY <1>1 DEF DecideOld, SharedOK, CountRec, Unlocked, data, works
<1>3. Caused' /\ notif' \subseteq notif /\ UNCHANGED <<stamp, note, board>>
  BY <1>1 DEF DecideOld, Caused, Unlocked, data, works
<1> DEFINE k == IdleClient
           h == g
<1>4. k \in ClientRec
  BY <1>1
<1>5. h \in HandlerRec
  BY <1>1
<1>6. clients' = [clients EXCEPT ![c] = k] /\ handlers' = [handlers EXCEPT ![c] = h]
  BY <1>1 DEF DecideOld, Goes, Returns, FreeHandler
<1>7. Fine(k, h)
  BY Elsewhere DEF IdleClient
<1> HIDE DEF k, h
<1>8. Own(c, k, h)
  BY <1>3, <1>6 DEF Own
<1>9. QED
  BY <1>2, <1>3, <1>4, <1>5, <1>7, <1>8, OwnKeeps

\* Rearm preserves the invariant.
LEMMA RearmKeeps ==
  ASSUME IInv, NEW c \in Clients, Rearm(c)
  PROVE  IInv'
<1> DEFINE m == clients[c]
           g == handlers[c]
<1>1. /\ SharedOK /\ Caused /\ m \in ClientRec /\ g \in HandlerRec
      /\ g.done \in Nat /\ stamp \in Nat /\ Fine(m, g)
      /\ IdleClient \in ClientRec /\ NoHandler \in HandlerRec
      /\ handlers = [handlers EXCEPT ![c] = g]
      /\ clients = [clients EXCEPT ![c] = m]
  BY Known
<1>2. SharedOK'
  BY <1>1 DEF Rearm, SharedOK, CountRec, data, TempRec
<1>3. Caused' /\ notif' \subseteq notif /\ UNCHANGED <<stamp, note, board>>
  BY <1>1 DEF Rearm, Caused, data, TempRec
<1> DEFINE k == [m EXCEPT !.pc = "idle"]
           h == g
<1>4. k \in ClientRec
  BY <1>1 DEF ClientRec
<1>5. h \in HandlerRec
  BY <1>1
<1>6. clients' = [clients EXCEPT ![c] = k] /\ handlers' = [handlers EXCEPT ![c] = h]
  BY <1>1 DEF Rearm, Goes, Returns, FreeHandler
<1>7. Fine(k, h)
  BY <1>1, Elsewhere DEF ClientRec
<1> HIDE DEF k, h
<1>8. Own(c, k, h)
  BY <1>3, <1>6 DEF Own
<1>9. QED
  BY <1>2, <1>3, <1>4, <1>5, <1>7, <1>8, OwnKeeps

\* SetPeriod preserves the invariant.
LEMMA SetPeriodKeeps ==
  ASSUME IInv, NEW c \in Clients, SetPeriod(c)
  PROVE  IInv'
<1> DEFINE m == clients[c]
           g == handlers[c]
<1>1. /\ SharedOK /\ Caused /\ m \in ClientRec /\ g \in HandlerRec
      /\ g.done \in Nat /\ stamp \in Nat /\ Fine(m, g)
      /\ IdleClient \in ClientRec /\ NoHandler \in HandlerRec
      /\ handlers = [handlers EXCEPT ![c] = g]
      /\ clients = [clients EXCEPT ![c] = m]
  BY Known
<1>2. SharedOK'
  <2>1. temp' \in TempRec
    BY <1>1 DEF SetPeriod, SharedOK, TempRec
  <2>2. count' \in CountRec
    BY <1>1 DEF SetPeriod, Call, SharedOK, CountRec
  <2>3. QED
    BY <1>1, <2>1, <2>2 DEF SetPeriod, SharedOK, data
<1>3. Caused' /\ notif' \subseteq notif /\ UNCHANGED <<stamp, note, board>>
  BY <1>1 DEF SetPeriod, Caused, data, TempRec
<1>4. ASSUME temp.queued PROVE IInv'
  <2> DEFINE k == [m EXCEPT !.pc = "rearm"]
             h == g
  <2>1. k \in ClientRec
    BY <1>1 DEF ClientRec
  <2>2. h \in HandlerRec
    BY <1>1
  <2>3. clients' = [clients EXCEPT ![c] = k] /\ handlers' = [handlers EXCEPT ![c] = h]
    BY <1>4, <1>1 DEF SetPeriod, Goes, Returns, FreeHandler
  <2>4. Fine(k, h)
    BY <1>1, Elsewhere DEF ClientRec
  <2> HIDE DEF k, h
  <2>5. Own(c, k, h)
    BY <1>3, <2>3 DEF Own
  <2>6. QED
    BY <1>2, <1>3, <2>1, <2>2, <2>4, <2>5, OwnKeeps
<1>5. ASSUME ~temp.queued PROVE IInv'
  <2> DEFINE k == m
             h == g
  <2>1. k \in ClientRec
    BY <1>1
  <2>2. h \in HandlerRec
    BY <1>1
  <2>3. clients' = [clients EXCEPT ![c] = k] /\ handlers' = [handlers EXCEPT ![c] = h]
    BY <1>5, <1>1 DEF SetPeriod, Goes, Returns, FreeHandler
  <2>4. Fine(k, h)
    BY <1>1
  <2> HIDE DEF k, h
  <2>5. Own(c, k, h)
    BY <1>3, <2>3 DEF Own
  <2>6. QED
    BY <1>2, <1>3, <2>1, <2>2, <2>4, <2>5, OwnKeeps
<1>6. QED
  BY <1>4, <1>5 DEF SetPeriod, FreeHandler

\* ResetAlarm preserves the invariant.
LEMMA ResetAlarmKeeps ==
  ASSUME IInv, NEW c \in Clients, ResetAlarm(c)
  PROVE  IInv'
<1> DEFINE m == clients[c]
           g == handlers[c]
<1>1. /\ SharedOK /\ Caused /\ m \in ClientRec /\ g \in HandlerRec
      /\ g.done \in Nat /\ stamp \in Nat /\ Fine(m, g)
      /\ IdleClient \in ClientRec /\ NoHandler \in HandlerRec
      /\ handlers = [handlers EXCEPT ![c] = g]
      /\ clients = [clients EXCEPT ![c] = m]
  BY Known
<1>2. SharedOK'
  BY <1>1 DEF ResetAlarm, Call, SharedOK, CountRec, Unlocked, data, works
<1>3. Caused' /\ notif' \subseteq notif /\ UNCHANGED <<stamp, note, board>>
  BY <1>1 DEF ResetAlarm, Caused, Unlocked, data, works
<1> DEFINE k == [m EXCEPT !.pc = FirstAck]
           h == g
<1>4. k \in ClientRec
  BY <1>1 DEF ClientRec, FirstAck, AckPlaces
<1>5. h \in HandlerRec
  BY <1>1
<1>6. clients' = [clients EXCEPT ![c] = k] /\ handlers' = [handlers EXCEPT ![c] = h]
  BY <1>1 DEF ResetAlarm, Goes, Returns, FreeHandler
<1>7. Fine(k, h)
  BY <1>1, Elsewhere DEF ClientRec, FirstAck
<1> HIDE DEF k, h
<1>8. Own(c, k, h)
  BY <1>3, <1>6 DEF Own
<1>9. QED
  BY <1>2, <1>3, <1>4, <1>5, <1>7, <1>8, OwnKeeps

\* GetNotify preserves the invariant.
LEMMA GetNotifyKeeps ==
  ASSUME IInv, NEW c \in Clients, GetNotify(c)
  PROVE  IInv'
<1> DEFINE m == clients[c]
           g == handlers[c]
           any == (notif # {})
           pc == IF g.listed THEN "check" ELSE "create"
           k == [IdleClient EXCEPT !.pc = pc, !.any = any, !.stamp = stamp]
<1>1. /\ SharedOK /\ Caused /\ m \in ClientRec /\ g \in HandlerRec
      /\ stamp \in Nat /\ handlers = [handlers EXCEPT ![c] = g]
  BY Known
<1>2. SharedOK'
  BY <1>1 DEF GetNotify, Call, SharedOK, CountRec, Unlocked, data, works
<1>3. Caused' /\ notif' \subseteq notif /\ UNCHANGED <<stamp, note, board>>
  BY <1>1 DEF GetNotify, Caused, Unlocked, data, works
<1>4. any \in BOOLEAN /\ (~any => notif = {})
  OBVIOUS
<1>5. clients' = [clients EXCEPT ![c] = k] /\ handlers' = [handlers EXCEPT ![c] = g]
  BY <1>1 DEF GetNotify
<1>6. pc \in {"check", "create"} /\ (pc = "check" => g.listed)
  OBVIOUS
<1> HIDE DEF any, pc
<1>7. k \in ClientRec
  BY <1>1, <1>4, <1>6 DEF IdleClient, ClientRec
<1>8. k.pc = pc /\ k.any = any /\ k.stamp = stamp
  BY DEF IdleClient
<1> HIDE DEF k
<1>9. Fine(k, g)
  BY <1>1, <1>4, <1>6, <1>8 DEF Fine
<1>10. Own(c, k, g)
  BY <1>3, <1>5 DEF Own
<1>11. QED
  BY <1>1, <1>2, <1>3, <1>7, <1>9, <1>10, OwnKeeps

\* ClientAck preserves the invariant.
LEMMA ClientAckKeeps ==
  ASSUME IInv, NEW c \in Clients, ClientAck(c)
  PROVE  IInv'
<1> DEFINE m == clients[c]
           g == handlers[c]
           k == [m EXCEPT !.pc = AfterAck[m.pc]]
<1>1. /\ SharedOK /\ Caused /\ m \in ClientRec /\ g \in HandlerRec
      /\ handlers = [handlers EXCEPT ![c] = g]
  BY Known
<1>2. m.pc \in AckPlaces /\ {"other"} \in SUBSET Alarms
  BY DEF ClientAck, AfterAck, AckPlaces, Alarms
<1>3. /\ hw' \in HwRec /\ mask' \in SUBSET Alarms /\ status' \in SUBSET Alarms
      /\ notif' \subseteq notif /\ stamp' = stamp /\ Caused'
  BY <1>1, <1>2, Acked DEF ClientAck
<1>4. AfterAck[m.pc] \in {"idle"} \cup AckPlaces
  BY <1>2 DEF AckPlaces, AfterAck
<1>5. SharedOK'
  BY <1>1, <1>3 DEF ClientAck, SharedOK, works
<1>6. clients' = [clients EXCEPT ![c] = k] /\ handlers' = [handlers EXCEPT ![c] = g]
  BY <1>1 DEF ClientAck, Goes
<1>7. k \in ClientRec /\ k.pc \in {"idle"} \cup AckPlaces
  BY <1>1, <1>4 DEF ClientRec
<1> HIDE DEF k
<1>8. Fine(k, g)
  BY <1>7, Elsewhere DEF AckPlaces
<1>9. Own(c, k, g)
  BY <1>3, <1>6 DEF Own, ClientAck, works
<1>10. QED
  BY <1>1, <1>3, <1>5, <1>7, <1>8, <1>9, OwnKeeps

\* QuitHandlers preserves the invariant: who is asked to quit is woken.
LEMMA QuitHandlersKeeps ==
  ASSUME IInv, NEW c \in Clients, QuitHandlers(c)
  PROVE  IInv'
<1>1. SharedOK /\ Caused /\ (\A d \in Clients : handlers[d] \in HandlerRec)
  BY DEF IInv, TypeOK
<1>2. SharedOK'
  <2>1. count' \in CountRec
    <3>1. Call(c)
      BY DEF QuitHandlers
    <3>2. QED
      BY <1>1, <3>1 DEF Call, SharedOK, CountRec
  <2>2. QED
    BY <1>1, <2>1 DEF QuitHandlers, SharedOK, Unlocked, data, works
<1>3. Caused' /\ UNCHANGED <<stamp, notif, note, board, clients>>
  BY <1>1 DEF QuitHandlers, Caused, Unlocked, data, works
<1>4. \A d \in Clients :
        handlers'[d] = IF handlers[d].listed /\ Parent[d] = Parent[c]
                       THEN [handlers[d] EXCEPT !.quit = TRUE, !.done = @ + 1] ELSE handlers[d]
  BY DEF QuitHandlers
<1>5. ASSUME NEW d \in Clients
      PROVE  handlers'[d] \in HandlerRec /\ Bystander(d)
  <2> DEFINE u == [handlers[d] EXCEPT !.quit = TRUE, !.done = @ + 1]
  <2>1. handlers[d] \in HandlerRec /\ handlers[d].done \in Nat
    BY <1>1 DEF HandlerRec
  <2>2. u \in HandlerRec /\ u.listed = handlers[d].listed /\ u.stamp = handlers[d].stamp
        /\ u.done = handlers[d].done + 1
    <3>1. handlers[d].done + 1 \in Nat
      BY <2>1
    <3>2. QED
      BY <2>1, <3>1 DEF HandlerRec
  <2>3. handlers'[d] \in {handlers[d], u}
    BY <1>4
  <2> HIDE DEF u
  <2>4. CASE handlers'[d] = handlers[d]
    BY <1>3, <2>1, <2>4 DEF Bystander
  <2>5. CASE handlers'[d] = u
    BY <1>3, <2>1, <2>2, <2>5 DEF Bystander
  <2>6. QED
    BY <2>1, <2>2, <2>3, <2>4, <2>5
<1>6. TypeOK'
  <2>1. handlers' \in [Clients -> HandlerRec]
    BY <1>5 DEF QuitHandlers
  <2>2. QED
    BY <1>2, <1>3, <2>1 DEF IInv, TypeOK
<1>7. QED
  BY <1>3, <1>5, <1>6, BystanderKeeps DEF IInv
-----------------------------------------------------------------------------
(* The theorems.                                                           *)

\* The invariant holds when the driver is loaded.
LEMMA InitIInv == Init => IInv
<1> SUFFICES ASSUME Init PROVE IInv
  OBVIOUS
<1>1. SharedOK
  BY DEF Init, SharedOK, HwRec, IsrRec, NoteRec, TempRec, BoardRec, CountRec
<1>2. IdleClient \in ClientRec /\ NoHandler \in HandlerRec
  BY DEF IdleClient, ClientRec, NoHandler, HandlerRec
<1>3. TypeOK
  BY <1>1, <1>2 DEF Init, TypeOK
<1>4. Caused
  BY DEF Init, Caused
<1>5. \A c \in Clients : Waking(c) /\ Answer(c)
  BY DEF Init, Waking, Answer, IdleClient
<1>6. QED
  BY <1>3, <1>4, <1>5 DEF IInv

\* Every step preserves the invariant.
LEMMA NextKeepsIInv == IInv /\ [Next]_vars => IInv'
<1> SUFFICES ASSUME IInv, [Next]_vars PROVE IInv'
  OBVIOUS
<1>1. CASE UNCHANGED vars
  <2>1. /\ SharedOK' /\ Caused' /\ Aside
    BY <1>1 DEF vars, data, IInv, TypeOK, SharedOK, Caused, Aside
  <2>2. QED
    BY <2>1, AsideKeeps
<1>2. ASSUME NEW a \in Alarms, Raise(a) PROVE IInv'
  BY <1>2, RaiseKeeps
<1>3. CASE Interrupt
  BY <1>3, Me5IrqEnterKeeps, Me5IrqRecordKeeps, Me5IrqMaskKeeps, Me6IrqEnterKeeps,
     Me6IrqRecordKeeps DEF Interrupt
<1>4. CASE Notification \/ Temperature
  BY <1>4, NotificationWorkKeeps, NotificationReadKeeps, NotificationArmKeeps,
     TemperatureWorkKeeps, TemperatureAckKeeps DEF Notification, Temperature
<1>5. CASE Board
  BY <1>5, StopCancelKeeps, StopFlushKeeps, StopMaskKeeps, StopAgainKeeps, NotifyRemovedKeeps,
     CompleteRemovedKeeps, InitPeripheralsKeeps, StartIrqKeeps DEF Board
<1>6. ASSUME NEW c \in Clients, Client(c) PROVE IInv'
  BY <1>6, CreateHandlerKeeps, AddHandlerKeeps, CheckHandlerKeeps, WokenKeeps, TimesOutKeeps,
     RereadKeeps, DecideQuitKeeps, DecideNewKeeps, DecideOldKeeps, RearmKeeps, ClientAckKeeps
     DEF Client
<1>7. ASSUME NEW c \in Waiters, GetNotify(c) PROVE IInv'
  BY <1>7, GetNotifyKeeps DEF Clients
<1>8. ASSUME NEW c \in Resetters, Reset(c) PROVE IInv'
  BY <1>8, QuitHandlersKeeps, SetPeriodKeeps, ResetAlarmKeeps DEF Clients, Reset
<1>9. QED
  BY <1>1, <1>2, <1>3, <1>4, <1>5, <1>6, <1>7, <1>8 DEF Next

\* The invariant holds in every reachable state.
LEMMA SpecIInv == Spec => []IInv
BY InitIInv, NextKeepsIInv, PTL DEF Spec

\* The state of the driver stays in the sets of its records.
THEOREM AlarmsTypeCorrect == Spec => []TypeOK
<1>1. IInv => TypeOK
  BY DEF IInv
<1>2. QED
  BY <1>1, SpecIInv, PTL

\* No client sleeps through a notification of irq_notification_work, me5_device_removed or
\* DEVCTRL_RESET_ASYNC_NOTIFY, for any number of clients and in any order of interrupt
\* handler, works, stopirq and ioctls.
THEOREM NotifiersAreWoken == Spec => []NotifierWoken
BY SpecIInv, IInvWoken, PTL

\* A client that is told DEVICE_ALARM is told which: interrupt handler, temperature work
\* and resetting clients, all of which change notification and status, keep them in step.
THEOREM AlarmsHaveCause == Spec => []AlarmHasCause
<1>1. IInv => AlarmHasCause
  BY DEF IInv, Answer, AlarmHasCause, At
<1>2. QED
  BY <1>1, SpecIInv, PTL
=============================================================================
