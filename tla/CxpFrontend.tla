----------------------------- MODULE CxpFrontend -----------------------------
(***************************************************************************)
(* The CoaXPress frontend (lib/frontends/cxp_frontend.c) behind the ioctl  *)
(* do_camera_control.  Every setting is cached and a register is written   *)
(* only if the cached value changes; most registers hold the fields of all *)
(* ports.  Some fields belong to the physical port (connector), others to  *)
(* the logical port the port map assigns to it, so a new port map has to   *)
(* move settings.  camera_frontend_lock makes each command atomic.         *)
(***************************************************************************)
EXTENDS Integers, FiniteSets

CONSTANTS
  NumPorts,         \* 1, 2, 4 or 5
  Board, Firmware,  \* board type and <<version, revision>> of the firmware
  Commands,         \* the commands a client sends
  MaxCommands,      \* bound on their number
  MaxProbes,        \* bound on the number of times the driver is loaded
  MaxTimeouts       \* bound on the speed changes that time out

ASSUME CxpAssumption ==
  /\ NumPorts \in {1, 2, 4, 5}
  /\ \A c \in Commands :
       /\ c = [cmd |-> c.cmd, port |-> c.port, param |-> c.param, ret |-> "OK"]
       /\ c.cmd # "PROBE"

VARIABLES
  fe,       \* struct cxp_frontend: the caches, or NoFrontend
  hw,       \* the registers of the FPGA, which outlive the driver
  late,     \* the physical ports whose last speed change timed out
  last,     \* the last command and its result
  count     \* commands, probes and timeouts so far

vars == <<fe, hw, late, last, count>>

Ports == 0..(NumPorts - 1)
NoFrontend == [loaded |-> FALSE]
NoMap == [p \in {} |-> 0]     \* CXP_PORT_MAP_INVALID

\* The tables hold every permutation of the ports, as a pair of inverse maps; here
\* a port map takes a physical to a logical port.
PortMaps == {f \in [Ports -> Ports] : \A p, q \in Ports : f[p] = f[q] => p = q}
Identity == [p \in Ports |-> p]
PhysicalPort(map, l) == CHOOSE p \in Ports : map[p] = l

PowerStates == {"OFF", "ON", "TEST_MODE"}
DataPathStates == {"FULL_RESET", "INACTIVE", "SENDING_IDLES", "MONITORING", "ACTIVE"}
Speeds == {1250, 2500, 3125, 5000, 6250, 10000, 12500}
Versions == {"1.0", "1.1", "2.0"}
LedStates == {"BOOTING", "POWERED", "DISCOVERY", "CONNECTED", "WAITING_FOR_EVENT",
              "INCOMPATIBLE_DEVICE", "SYSTEM_ERROR"}
AcquisitionStates == {"STOPPED", "STARTED"}

\* cxp_port_init
All(v) == [p \in Ports |-> v]
FreshCaches ==
  [loaded |-> TRUE, map |-> NoMap, power |-> All("UNKNOWN"), state |-> All("UNKNOWN"),
   lstate |-> All("UNKNOWN"), speed |-> All(0), up |-> All("UNKNOWN"),
   version |-> All("UNKNOWN"), led |-> All("UNKNOWN"), acq |-> All("UNKNOWN"),
   links |-> All(1), stream |-> All(-1)]

\* The registers after the board is configured.
FreshRegisters ==
  [map |-> Identity, power |-> All("UNKNOWN"), host |-> All("UNKNOWN"), link |-> All("UNKNOWN"),
   speed |-> All(0), up |-> All("UNKNOWN"), version |-> All("UNKNOWN"),
   led |-> All("UNKNOWN"), acq |-> All("UNKNOWN"), links |-> All(1), stream |-> All(-1)]
-----------------------------------------------------------------------------
(* The setters.  x is the frontend with its registers and the ports that    *)
(* are late; the result is the set of outcomes.                             *)

Result(x, ret) == [x |-> x, ret |-> ret]

Checked(x, p, legal, outcomes) ==
  CASE p \notin Ports           -> {Result(x, "INVALID_PORT")}
    [] p \in Ports /\ ~legal    -> {Result(x, "INVALID_PARAMETER")}
    [] OTHER                    -> outcomes

LogicalPort(x, p) == x.fe.map[p]

\* The fields of the registers that hold every port.
PowerCtrl(v) ==
  CASE v = "OFF" -> {} [] v = "TEST_MODE" -> {"ENABLE", "TEST"} [] OTHER -> {"ENABLE"}
HostReset(v) ==
  CASE v = "SENDING_IDLES" -> {"MONITOR", "RX"}
    [] v = "MONITORING"    -> {"RX"}
    [] v = "ACTIVE"        -> {}
    [] OTHER               -> {"MONITOR", "RX", "TX"}
LinkReset(v) ==
  CASE v = "FULL_RESET"                 -> {"TRANSCEIVER", "MONITOR"}
    [] v \in {"MONITORING", "ACTIVE"}   -> {}
    [] OTHER                            -> {"MONITOR"}
UpBitrate(v) == IF v = "HIGH" THEN 42 ELSE 21
VersionCtrl(v) == IF v \in {"1.0", "2.0"} THEN v ELSE "1.1"

SetPortPowerState(x, p, v) ==
  LET y == [x EXCEPT !.fe.power[p] = v]
      z == [y EXCEPT !.hw.power = [q \in Ports |-> PowerCtrl(y.fe.power[q])]]
  IN  Checked(x, p, v \in PowerStates,
              {Result(IF v = x.fe.power[p] THEN x ELSE z, "OK")})

\* Mutant of StateOfLogical: the port map is not applied.
StateOfLogicalUnmapped(f, l) == f.state[l]

StateOfLogical(f, l) == f.state[PhysicalPort(f.map, l)]

SetPortDataPathState(x, p, v) ==
  LET l == LogicalPort(x, p)
      y == [x EXCEPT !.fe = [@ EXCEPT !.state[p] = v, !.lstate[l] = v]]
      z == [y EXCEPT !.hw = [@ EXCEPT !.host = [k \in Ports |-> HostReset(StateOfLogical(y.fe, k))],
                                      !.link = [q \in Ports |-> LinkReset(y.fe.state[q])]]]
  IN  Checked(x, p, v \in DataPathStates,
              {Result(IF v = x.fe.state[p] /\ v = x.fe.lstate[l] THEN x ELSE z, "OK")})

\* cxp_update_standard_ctrl_register
UpdateStandardCtrl(x) ==
  [x EXCEPT !.hw = [@ EXCEPT !.up = [l \in Ports |-> UpBitrate(x.fe.up[l])],
                             !.version = [l \in Ports |-> VersionCtrl(x.fe.version[l])]]]

\* cxp_set_port_data_path_speed: the data path must be ready before the change and
\* again after it; each wait may time out, and after the second one the uplink is
\* still set.
UpOf(v) == IF v >= 10000 THEN "HIGH" ELSE "LOW"
SetDownlink(x, p, v) ==
  IF v = x.fe.speed[p] THEN x ELSE [x EXCEPT !.fe.speed[p] = v, !.hw.speed[p] = v]
SetUplink(x, l, up) ==
  IF x.fe.up[l] = up THEN x ELSE UpdateStandardCtrl([x EXCEPT !.fe.up[l] = up])
InTime(x, p) == [x EXCEPT !.late = @ \ {p}]
TimedOut(x, p) == [x EXCEPT !.late = @ \cup {p}, !.timeouts = @ + 1]

SetPortDataPathSpeed(x, p, v) ==
  LET l == LogicalPort(x, p)
      full == SetUplink(SetDownlink(x, p, v), l, UpOf(v))
      failures == {x} \cup (IF v = x.fe.speed[p] THEN {} ELSE {full})
  IN  Checked(x, p, v \in Speeds,
        IF v = x.fe.speed[p] /\ UpOf(v) = x.fe.up[l] THEN {Result(x, "OK")}
        ELSE {Result(InTime(full, p), "OK")}
             \cup (IF x.timeouts < MaxTimeouts
                   THEN {Result(TimedOut(y, p), "TIMEOUT") : y \in failures} ELSE {}))

SetPortStandardVersion(x, p, v) ==
  LET l == LogicalPort(x, p)
  IN  Checked(x, p, v \in Versions,
        {Result(IF v = x.fe.version[l] THEN x
                ELSE UpdateStandardCtrl([x EXCEPT !.fe.version[l] = v]), "OK")})

SetPortLedState(x, p, v) ==
  Checked(x, p, v \in LedStates,
    {Result(IF v = x.fe.led[p] THEN x
            ELSE [x EXCEPT !.fe.led[p] = v, !.hw.led[p] = v], "OK")})

SetPortAcquisitionState(x, p, v) ==
  LET l == LogicalPort(x, p)
      y == [x EXCEPT !.fe.acq[l] = v]
  IN  Checked(x, p, v \in AcquisitionStates,
        {Result(IF v = x.fe.acq[l] THEN x
                ELSE [y EXCEPT !.hw.acq = [k \in Ports |-> y.fe.acq[k] = "STARTED"]], "OK")})

\* The register value is 8 bits wide, 2 for each logical port; the mask of a fifth one
\* is a shift by a negative count, which leaves nothing of it.  Boards with one port do
\* not have the register.
Downscale(links) == [l \in Ports |-> IF l < 4 THEN links[l] ELSE 1]
SetPortCameraDownscaling(x, p, n) ==
  LET l == LogicalPort(x, p)
      y == [x EXCEPT !.fe.links[l] = n]
  IN  Checked(x, p, n \in 1..4,
        {Result(IF NumPorts = 1 \/ n = x.fe.links[l] THEN x
                ELSE [y EXCEPT !.hw.links = Downscale(y.fe.links)], "OK")})

\* does_board_applet_support_tgs
MinFirmware ==
  [IC_1C |-> <<3, 2>>, IC_2C |-> <<1, 1>>, IC_4C |-> <<1, 1>>, IMAWORX_QUAD |-> <<1, 1>>]
SupportsTgs ==
  Board \in DOMAIN MinFirmware =>
    LET min == MinFirmware[Board]
    IN  Firmware[1] > min[1] \/ (Firmware[1] = min[1] /\ Firmware[2] >= min[2])

\* -1 resets the cache and leaves the register alone.
SetPortImageStreamId(x, p, id) ==
  LET l == LogicalPort(x, p)
      y == [x EXCEPT !.fe.stream[l] = id]
  IN  Checked(x, p, id \in -1..255,
        CASE id = -1 -> {Result(y, "OK")}
          [] id # -1 /\ ~SupportsTgs -> {Result(x, "NO_TGS")}
          [] OTHER -> {Result(IF id = x.fe.stream[l] THEN x
                              ELSE [y EXCEPT !.hw.stream[l] = id], "OK")})
-----------------------------------------------------------------------------
(* sequences of setters; their results are not looked at *)

SetLink(x, p, state, speed, version) ==
  LET a == SetPortDataPathState(x, p, state)
      b == UNION {SetPortDataPathSpeed(r.x, p, speed) : r \in a}
  IN  {r.x : r \in UNION {SetPortStandardVersion(r.x, p, version) : r \in b}}

SetCamera(x, p, acq, links) ==
  LET a == SetPortAcquisitionState(x, p, acq)
  IN  {r.x : r \in UNION {SetPortCameraDownscaling(r.x, p, links) : r \in a}}

\* Mutant of RestorePort: the values are looked up at the new logical port.
RestorePortByNew(y, x, p) ==
  LET new == y.fe.map[p]
  IN  IF x.fe.map[p] = new THEN {y}
      ELSE UNION {SetCamera(z, p, x.fe.acq[new], x.fe.links[new])
                  : z \in SetLink(y, p, x.fe.state[p], x.fe.speed[p], x.fe.version[new])}

\* cxp_set_port_map: the settings of the logical ports move with the physical ports;
\* x holds the values that are restored.
RestorePort(y, x, p) ==
  LET old == x.fe.map[p]
  IN  IF old = y.fe.map[p] THEN {y}
      ELSE UNION {SetCamera(z, p, x.fe.acq[old], x.fe.links[old])
                  : z \in SetLink(y, p, x.fe.state[p], x.fe.speed[p], x.fe.version[old])}

SetPortMap(x, map) ==
  LET y == [x EXCEPT !.fe.map = map, !.hw.map = map]
      restored[n \in 0..NumPorts] ==
        IF n = 0 THEN {y} ELSE UNION {RestorePort(z, x, n - 1) : z \in restored[n - 1]}
  IN  CASE map = x.fe.map -> {Result(x, "OK")}
        [] map # x.fe.map /\ map \notin PortMaps -> {Result(x, "INVALID_PARAMETER")}
        [] OTHER -> {Result(z, "OK") : z \in IF x.fe.map = NoMap THEN {y} ELSE restored[NumPorts]}

\* cxp_reset_port and cxp_reset
ResetPort(x, p) ==
  LET link == SetLink(x, p, "INACTIVE", 3125, "1.1")
      led == UNION {SetPortLedState(y, p, "POWERED") : y \in link}
      camera == UNION {SetCamera(r.x, p, "STOPPED", 1) : r \in led}
  IN  {r.x : r \in UNION {SetPortImageStreamId(y, p, -1) : y \in camera}}

ResetFrontend(x) ==
  LET reset[n \in 0..NumPorts] ==
        IF n = 0 THEN {r.x : r \in SetPortMap(x, Identity)}
        ELSE UNION {ResetPort(y, n - 1) : y \in reset[n - 1]}
  IN  reset[NumPorts]

\* cxp_execute_command
ExecuteCommand(x, c) ==
  CASE c.cmd = "RESET" -> {Result(y, "OK") : y \in ResetFrontend(x)}
    [] c.cmd = "SET_PORT_MAP" -> SetPortMap(x, c.param)
    [] c.cmd = "SET_PORT_POWER_STATE" -> SetPortPowerState(x, c.port, c.param)
    [] c.cmd = "SET_PORT_DATA_PATH_STATE" -> SetPortDataPathState(x, c.port, c.param)
    [] c.cmd = "SET_PORT_DATA_PATH_SPEED" -> SetPortDataPathSpeed(x, c.port, c.param)
    [] c.cmd = "SET_PORT_CXP_STANDARD_VERSION" -> SetPortStandardVersion(x, c.port, c.param)
    [] c.cmd = "SET_PORT_CXP_LED_STATE" -> SetPortLedState(x, c.port, c.param)
    [] c.cmd = "SET_PORT_ACQUISITION_STATE" -> SetPortAcquisitionState(x, c.port, c.param)
    [] c.cmd = "SET_PORT_CXP_CAMERA_DOWNSCALING" -> SetPortCameraDownscaling(x, c.port, c.param)
    [] c.cmd = "SET_STREAM_ID" -> SetPortImageStreamId(x, c.port, c.param)
    [] OTHER -> {Result(x, "INVALID_OPERATION")}
-----------------------------------------------------------------------------
Init ==
  /\ fe = NoFrontend
  /\ hw = FreshRegisters
  /\ late = {}
  /\ last = [cmd |-> "NONE", ret |-> "OK"]
  /\ count = [commands |-> 0, probes |-> 0, timeouts |-> 0]

Device == [fe |-> fe, hw |-> hw, late |-> late, timeouts |-> count.timeouts]
Becomes(x) == hw' = x.hw /\ late' = x.late

\* camera_frontend_factory, the reset at the end of init_peripherals and the one in
\* me6_probe.
Probe ==
  /\ ~fe.loaded /\ count.probes < MaxProbes
  /\ \E y \in ResetFrontend([Device EXCEPT !.fe = FreshCaches]) : \E z \in ResetFrontend(y) :
       /\ Becomes(z) /\ fe' = z.fe
       /\ count' = [count EXCEPT !.probes = @ + 1, !.timeouts = z.timeouts]
  /\ last' = [cmd |-> "PROBE", ret |-> "OK"]

\* do_camera_control.
CameraControl ==
  /\ fe.loaded /\ count.commands < MaxCommands
  /\ \E c \in Commands : \E r \in ExecuteCommand(Device, c) :
       /\ Becomes(r.x) /\ fe' = r.x.fe
       /\ count' = [count EXCEPT !.commands = @ + 1, !.timeouts = r.x.timeouts]
       /\ last' = [c EXCEPT !.ret = CASE r.ret = "OK" -> "OK"
                                      [] r.ret \in {"INVALID_OPERATION", "NO_TGS"} -> "EFAULT"
                                      [] OTHER -> "ENODEV"]

\* Mutant of Remove: the frontend goes without a reset.
RemoveUnreset ==
  /\ fe.loaded
  /\ fe' = NoFrontend
  /\ UNCHANGED <<hw, late, count>>
  /\ last' = [cmd |-> "REMOVE", ret |-> "OK"]

\* cxp_frontend_destroy; a command finds no frontend (-EFAULT) from now on.
Remove ==
  /\ fe.loaded
  /\ \E y \in ResetFrontend(Device) :
       Becomes(y) /\ count' = [count EXCEPT !.timeouts = y.timeouts]
  /\ fe' = NoFrontend
  /\ last' = [cmd |-> "REMOVE", ret |-> "OK"]

Next == Probe \/ CameraControl \/ Remove

Spec == Init /\ [][Next]_vars
-----------------------------------------------------------------------------
(* properties *)

\* What the board does for a physical port: its own fields, and those of the logical
\* port it is mapped to.
Connector(h, p) == <<h.link[p], h.speed[p], h.led[p]>>
Core(h, p) == LET l == h.map[p] IN <<h.host[l], h.version[l], h.acq[l], h.links[l]>>
Uplink(h, p) == h.up[h.map[p]]

\* A new port map changes neither what a connector nor what the core behind it is set
\* to, although the values live at the logical ports: each is restored from the caches
\* by a loop that overwrites them.  The uplink of a port whose speed change timed out
\* may be that of another port.
RemapKeepsSettings ==
  [][(count'.commands # count.commands /\ last'.cmd = "SET_PORT_MAP") =>
       \A p \in Ports : /\ Connector(hw', p) = Connector(hw, p)
                        /\ Core(hw', p) = Core(hw, p)
                        /\ p \notin late \cup late' => Uplink(hw', p) = Uplink(hw, p)]_vars

\* A command for one port leaves the others alone, although it writes the fields of
\* every port (power is known once it has been set).
CommandTouchesOnePort ==
  [][(count'.commands # count.commands /\ last'.cmd \notin {"RESET", "SET_PORT_MAP"}) =>
       \A p \in Ports \ {last'.port} :
         /\ Connector(hw', p) = Connector(hw, p)
         /\ Core(hw', p) = Core(hw, p)
         /\ Uplink(hw', p) = Uplink(hw, p)
         /\ fe.power[p] # "UNKNOWN" => hw'.power[p] = hw.power[p]]_vars

\* After a reset, and after the driver is loaded again, every port is inactive with the
\* default settings, whatever the registers and the caches held before.
ResetIsClean ==
  last.cmd \in {"RESET", "PROBE"} =>
    /\ hw.map = Identity
    /\ \A p \in Ports :
         /\ Core(hw, p) = <<HostReset("INACTIVE"), "1.1", FALSE, 1>>
         /\ p \notin late => (hw.speed[p] = 3125 /\ Uplink(hw, p) = 21)
=============================================================================
