-------------------------- MODULE CxpFrontendProofs --------------------------
(***************************************************************************)
(* The CoaXPress frontend, for boards with any number of ports, every set  *)
(* of commands and every number of commands, probes and timeouts.          *)
(***************************************************************************)
EXTENDS CxpFrontend, FiniteSetTheorems, FunctionTheorems, TLAPS

Unset == {"UNKNOWN"}

Caches ==
  [loaded : {TRUE}, map : PortMaps, power : [Ports -> Unset \cup PowerStates],
   state : [Ports -> Unset \cup DataPathStates], lstate : [Ports -> Unset \cup DataPathStates],
   speed : [Ports -> {0} \cup Speeds], up : [Ports -> Unset \cup {"LOW", "HIGH"}],
   version : [Ports -> Unset \cup Versions], led : [Ports -> Unset \cup LedStates],
   acq : [Ports -> Unset \cup AcquisitionStates], links : [Ports -> 1 .. 4],
   stream : [Ports -> -1 .. 255]]

\* The registers that hold one port are written one by one.
RegistersOK(h) ==
  h \in [map : PortMaps, power : {h.power}, host : {h.host}, link : {h.link},
         speed : [Ports -> {0} \cup Speeds], up : {h.up}, version : {h.version},
         led : [Ports -> Unset \cup LedStates], acq : {h.acq}, links : {h.links},
         stream : [Ports -> -1 .. 255]]

DeviceOK(x) ==
  /\ x \in [fe : Caches, hw : {x.hw}, late : SUBSET Ports, timeouts : Nat]
  /\ RegistersOK(x.hw)

\* What is cached is what the registers hold, for every port that has been set.
Synced(x) ==
  /\ x.hw.map = x.fe.map
  /\ \A p \in Ports : x.fe.power[p] # "UNKNOWN" => x.hw.power[p] = PowerCtrl(x.fe.power[p])
  /\ \A p \in Ports : x.fe.state[p] # "UNKNOWN" => x.hw.link[p] = LinkReset(x.fe.state[p])
  /\ \A l \in Ports : x.fe.lstate[l] # "UNKNOWN" =>
       x.hw.host[l] \in {HostReset(x.fe.lstate[l]), HostReset(StateOfLogical(x.fe, l))}
  /\ \A p \in Ports : x.fe.speed[p] # 0 => x.hw.speed[p] = x.fe.speed[p]
  /\ \A l \in Ports : x.fe.version[l] # "UNKNOWN" =>
       /\ x.hw.version[l] = VersionCtrl(x.fe.version[l])
       /\ x.hw.up[l] = UpBitrate(x.fe.up[l])
  /\ \A l \in Ports : x.fe.acq[l] # "UNKNOWN" => x.hw.acq[l] = (x.fe.acq[l] = "STARTED")
  /\ x.hw.links = Downscale(x.fe.links)
  /\ NumPorts = 1 => x.fe.links[0] = 1

\* A port all of whose settings are known, and agree between its two sides.
Settled(x, p) ==
  LET l == x.fe.map[p]
  IN  /\ x.fe.state[p] # "UNKNOWN" /\ x.fe.lstate[l] = x.fe.state[p]
      /\ x.fe.version[l] # "UNKNOWN" /\ x.fe.acq[l] # "UNKNOWN"
      /\ p \notin x.late => x.fe.speed[p] \in Speeds /\ x.fe.up[l] = UpOf(x.fe.speed[p])

\* The settings of a port, of the caches and of the registers that hold one port.
SameConnector(x, y, p) ==
  /\ y.fe.power[p] = x.fe.power[p] /\ y.fe.state[p] = x.fe.state[p]
  /\ y.fe.speed[p] = x.fe.speed[p] /\ y.hw.speed[p] = x.hw.speed[p]
  /\ y.hw.led[p] = x.hw.led[p]
SameCamera(x, y, p) ==
  LET l == x.fe.map[p] IN y.fe.acq[l] = x.fe.acq[l] /\ y.fe.links[l] = x.fe.links[l]
SameLink(x, y, p) ==
  LET l == x.fe.map[p]
  IN  y.fe.lstate[l] = x.fe.lstate[l] /\ y.fe.up[l] = x.fe.up[l] /\ y.fe.version[l] = x.fe.version[l]
SameLate(x, y, p) == p \in y.late <=> p \in x.late
SamePort(x, y, p) ==
  SameConnector(x, y, p) /\ SameCamera(x, y, p) /\ SameLink(x, y, p) /\ SameLate(x, y, p)

\* What every setter of port p keeps.
Keeps(x, y, p) ==
  /\ DeviceOK(y) /\ Synced(y) /\ y.fe.map = x.fe.map
  /\ \A q \in Ports \ {p} : SamePort(x, y, q)

LEMMA Port == Ports # {} /\ 0 \in Ports /\ Ports \subseteq Int
  BY CxpAssumption DEF Ports

LEMMA Phys ==
  ASSUME NEW f \in PortMaps, NEW p \in Ports
  PROVE  f[p] \in Ports /\ PhysicalPort(f, f[p]) = p
  BY DEF PortMaps, PhysicalPort

LEMMA OnePort ==
  ASSUME NEW f \in PortMaps, NEW p \in Ports, NEW q \in Ports \ {p}
  PROVE  f[q] \in Ports \ {f[p]}
  BY DEF PortMaps

LEMMA KeepsAll ==
  ASSUME NEW x, DeviceOK(x), Synced(x), NEW p
  PROVE  Keeps(x, x, p)
  BY DEF Keeps, SamePort, SameConnector, SameCamera, SameLink, SameLate

LEMMA KeepsBoth ==
  ASSUME NEW x, NEW y, NEW z, NEW p, Keeps(x, y, p), Keeps(y, z, p)
  PROVE  Keeps(x, z, p)
  BY DEF Keeps, SamePort, SameConnector, SameCamera, SameLink, SameLate

-----------------------------------------------------------------------------
(* the setters *)

CacheNames == {"loaded", "map", "power", "state", "lstate", "speed", "up", "version", "led",
               "acq", "links", "stream"}
RegisterNames == {"map", "power", "host", "link", "speed", "up", "version", "led", "acq",
                  "links", "stream"}

LEMMA CheckedOutcome ==
  ASSUME NEW x, NEW p, NEW legal, NEW outcomes, NEW r \in Checked(x, p, legal, outcomes)
  PROVE  \/ ~(p \in Ports /\ legal) /\ r.x = x
         \/ p \in Ports /\ legal /\ r \in outcomes
<1>1. CASE p \notin Ports
  BY <1>1 DEF Checked, Result
<1>2. CASE p \in Ports /\ ~legal
  BY <1>2 DEF Checked, Result
<1>3. CASE p \in Ports /\ legal
  BY <1>3 DEF Checked
<1> QED BY <1>1, <1>2, <1>3

\* A device is put together from its caches and registers.
Device4(f, h, a, t) == [fe |-> f, hw |-> h, late |-> a, timeouts |-> t]

LEMMA DeviceFields ==
  ASSUME NEW f, NEW h, NEW a, NEW t, NEW x, x = Device4(f, h, a, t)
  PROVE  x.fe = f /\ x.hw = h /\ x.late = a /\ x.timeouts = t
BY DEF Device4

LEMMA DeviceParts ==
  ASSUME NEW x, DeviceOK(x)
  PROVE  /\ x.fe \in Caches /\ RegistersOK(x.hw) /\ x.late \subseteq Ports /\ x.timeouts \in Nat
         /\ x = Device4(x.fe, x.hw, x.late, x.timeouts)
BY DEF DeviceOK, Device4

LEMMA DeviceMap ==
  ASSUME NEW x, DeviceOK(x)
  PROVE  x.fe.map \in PortMaps /\ \A p \in Ports : x.fe.map[p] \in Ports
<1>1. x.fe \in Caches
  BY DeviceParts
<1> QED BY <1>1 DEF Caches, PortMaps

LEMMA DeviceMade ==
  ASSUME NEW f \in Caches, NEW h, RegistersOK(h), NEW a \in SUBSET Ports, NEW t \in Nat
  PROVE  DeviceOK(Device4(f, h, a, t))
BY DEF DeviceOK, Device4

LEMMA PowerKeeps ==
  ASSUME NEW x, DeviceOK(x), Synced(x), NEW p, NEW v, NEW r \in SetPortPowerState(x, p, v)
  PROVE  /\ Keeps(x, r.x, p) /\ r.x.late = x.late
         /\ \A k \in CacheNames \ {"power"} : r.x.fe[k] = x.fe[k]
<1> DEFINE f == [x.fe EXCEPT !.power = [@ EXCEPT ![p] = v]]
           h == [x.hw EXCEPT !.power = [q \in Ports |-> PowerCtrl(f.power[q])]]
           z == Device4(f, h, x.late, x.timeouts)
<1>1. r.x = x \/ (p \in Ports /\ v \in PowerStates /\ r.x = z)
  <2> DEFINE y == [x EXCEPT !.fe.power[p] = v]
             w == [y EXCEPT !.hw.power = [q \in Ports |-> PowerCtrl(y.fe.power[q])]]
             outcomes == {Result(IF v = x.fe.power[p] THEN x ELSE w, "OK")}
  <2>1. r \in Checked(x, p, v \in PowerStates, outcomes)
    BY DEF SetPortPowerState
  <2>2. y = Device4(f, x.hw, x.late, x.timeouts)
    BY DeviceParts DEF Device4
  <2>3. w = z
    <3> HIDE DEF y, f
    <3> QED BY <2>2 DEF Device4
  <2>4. \A s \in outcomes : s.x = x \/ s.x = w
    <3> HIDE DEF w
    <3> QED BY DEF Result
  <2> HIDE DEF outcomes, w, z
  <2>5. r.x = x \/ (p \in Ports /\ v \in PowerStates /\ r \in outcomes)
    BY <2>1, CheckedOutcome
  <2> QED BY <2>3, <2>4, <2>5
<1>2. CASE r.x = x
  BY <1>2, KeepsAll
<1>3. CASE p \in Ports /\ v \in PowerStates /\ r.x = z
  <2>0. x.fe \in Caches /\ RegistersOK(x.hw)
    BY DeviceParts
  <2>1. f \in Caches
    BY <1>3, <2>0 DEF Caches
  <2>2. /\ RegistersOK(h)
        /\ h.power = [q \in Ports |-> PowerCtrl(f.power[q])]
        /\ \A k \in RegisterNames \ {"power"} : h[k] = x.hw[k]
    BY <2>0 DEF RegistersOK, RegisterNames
  <2>3. /\ \A q \in Ports \ {p} : f.power[q] = x.fe.power[q]
        /\ \A k \in CacheNames \ {"power"} : f[k] = x.fe[k]
    BY <1>3, <2>0 DEF Caches, CacheNames
  <2> HIDE DEF f, h
  <2>4. DeviceOK(z)
    BY DeviceParts, DeviceMade, <2>1, <2>2
  <2>5. Synced(z)
    BY <2>2, <2>3 DEF Synced, Device4, StateOfLogical, CacheNames, RegisterNames
  <2>6. \A q \in Ports \ {p} : SamePort(x, z, q)
    BY <2>2, <2>3 DEF SamePort, SameConnector, SameCamera, SameLink, SameLate, Device4, CacheNames, RegisterNames
  <2> QED BY <1>3, <2>2, <2>3, <2>4, <2>5, <2>6 DEF Keeps, Device4, CacheNames
<1> QED BY <1>1, <1>2, <1>3

LEMMA DataPathKeeps ==
  ASSUME NEW x, DeviceOK(x), Synced(x), NEW p, NEW v, NEW r \in SetPortDataPathState(x, p, v)
  PROVE  /\ Keeps(x, r.x, p)
         /\ r.x.late = x.late /\ r.x.hw.led = x.hw.led /\ r.x.hw.speed = x.hw.speed
         /\ \A k \in {"power", "speed", "up", "version", "acq", "links"} : r.x.fe[k] = x.fe[k]
         /\ ~(p \in Ports /\ v \in DataPathStates) => r.x = x
         /\ p \in Ports /\ v \in DataPathStates =>
              r.x.fe.state[p] = v /\ r.x.fe.lstate[x.fe.map[p]] = v
<1> DEFINE l == LogicalPort(x, p)
           f == [x.fe EXCEPT !.state = [@ EXCEPT ![p] = v], !.lstate = [@ EXCEPT ![l] = v]]
           h == [x.hw EXCEPT !.host = [k \in Ports |-> HostReset(StateOfLogical(f, k))],
                             !.link = [q \in Ports |-> LinkReset(f.state[q])]]
           z == Device4(f, h, x.late, x.timeouts)
<1>1. \/ r.x = x /\ (p \in Ports /\ v \in DataPathStates => v = x.fe.state[p] /\ v = x.fe.lstate[l])
      \/ p \in Ports /\ v \in DataPathStates /\ r.x = z
  <2> DEFINE y == [x EXCEPT !.fe = [@ EXCEPT !.state[p] = v, !.lstate[l] = v]]
             w == [y EXCEPT !.hw = [@ EXCEPT !.host = [k \in Ports |-> HostReset(StateOfLogical(y.fe, k))],
                                             !.link = [q \in Ports |-> LinkReset(y.fe.state[q])]]]
             outcomes == {Result(IF v = x.fe.state[p] /\ v = x.fe.lstate[l] THEN x ELSE w, "OK")}
  <2>1. r \in Checked(x, p, v \in DataPathStates, outcomes)
    BY DEF SetPortDataPathState
  <2>2. y = Device4(f, x.hw, x.late, x.timeouts)
    BY DeviceParts DEF Device4
  <2>3. w = z
    <3> HIDE DEF y, f
    <3> QED BY <2>2 DEF Device4
  <2>4. \A s \in outcomes : \/ s.x = x /\ v = x.fe.state[p] /\ v = x.fe.lstate[l]
                            \/ s.x = w
    <3> HIDE DEF w, l
    <3> QED BY DEF Result
  <2> HIDE DEF outcomes, w, z, l
  <2>5. \/ r.x = x /\ ~(p \in Ports /\ v \in DataPathStates)
        \/ p \in Ports /\ v \in DataPathStates /\ r \in outcomes
    BY <2>1, CheckedOutcome
  <2> QED BY <2>3, <2>4, <2>5
<1>2. CASE r.x = x /\ (p \in Ports /\ v \in DataPathStates => v = x.fe.state[p] /\ v = x.fe.lstate[l])
  BY <1>2, KeepsAll DEF LogicalPort
<1>3. CASE p \in Ports /\ v \in DataPathStates /\ r.x = z
  <2>0. x.fe \in Caches /\ RegistersOK(x.hw) /\ x.fe.map \in PortMaps /\ l = x.fe.map[p] /\ l \in Ports
    BY <1>3, DeviceParts, Phys DEF Caches, LogicalPort
  <2>1. f \in Caches
    <3>1. /\ [x.fe.state EXCEPT ![p] = v] \in [Ports -> Unset \cup DataPathStates]
          /\ [x.fe.lstate EXCEPT ![l] = v] \in [Ports -> Unset \cup DataPathStates]
      <4> HIDE DEF l
      <4> QED BY <1>3, <2>0 DEF Caches
    <3> DEFINE s == [x.fe.state EXCEPT ![p] = v]
               m == [x.fe.lstate EXCEPT ![l] = v]
    <3> HIDE DEF s, m
    <3>2. [x.fe EXCEPT !.state = s, !.lstate = m] \in Caches
      BY <2>0, <3>1 DEF Caches, s, m
    <3> QED BY <3>2 DEF s, m
  <2>2. /\ RegistersOK(h)
        /\ h.host = [k \in Ports |-> HostReset(StateOfLogical(f, k))]
        /\ h.link = [q \in Ports |-> LinkReset(f.state[q])]
        /\ \A k \in RegisterNames \ {"host", "link"} : h[k] = x.hw[k]
    <3> HIDE DEF f
    <3> QED BY <2>0 DEF RegistersOK, RegisterNames
  <2>3. /\ f.state[p] = v /\ f.lstate[l] = v
        /\ \A q \in Ports \ {p} : f.state[q] = x.fe.state[q]
        /\ \A k \in Ports \ {l} : f.lstate[k] = x.fe.lstate[k]
        /\ \A k \in CacheNames \ {"state", "lstate"} : f[k] = x.fe[k]
    <3> HIDE DEF l
    <3> QED BY <1>3, <2>0 DEF Caches, CacheNames
  <2> HIDE DEF f, h, l
  <2>4. DeviceOK(z)
    BY DeviceParts, DeviceMade, <2>1, <2>2
  <2>5. Synced(z)
    BY <2>2, <2>3 DEF Synced, Device4, CacheNames, RegisterNames
  <2>6. \A q \in Ports \ {p} : x.fe.map[q] \in Ports \ {l}
    BY <1>3, <2>0, OnePort
  <2>7. \A q \in Ports \ {p} : SamePort(x, z, q)
    BY <2>2, <2>3, <2>6
    DEF SamePort, SameConnector, SameCamera, SameLink, SameLate, Device4, CacheNames, RegisterNames
  <2> QED BY <1>3, <2>0, <2>2, <2>3, <2>4, <2>5, <2>7 DEF Keeps, Device4, CacheNames, RegisterNames
<1> QED BY <1>1, <1>2, <1>3

\* The uplink and the version of one port, and the register they share.
LEMMA StandardKeeps ==
  ASSUME NEW x, DeviceOK(x), Synced(x), NEW p \in Ports, NEW f \in Caches,
         \A k \in CacheNames \ {"up", "version"} : f[k] = x.fe[k],
         \A k \in Ports \ {x.fe.map[p]} : f.up[k] = x.fe.up[k] /\ f.version[k] = x.fe.version[k],
         NEW z, z = UpdateStandardCtrl(Device4(f, x.hw, x.late, x.timeouts))
  PROVE  /\ Keeps(x, z, p) /\ z.fe = f /\ z.late = x.late /\ z.timeouts = x.timeouts
         /\ z.hw.led = x.hw.led /\ z.hw.speed = x.hw.speed
<1> DEFINE h == [x.hw EXCEPT !.up = [l \in Ports |-> UpBitrate(f.up[l])],
                             !.version = [l \in Ports |-> VersionCtrl(f.version[l])]]
<1>0. RegistersOK(x.hw)
  BY DeviceParts
<1>1. z = Device4(f, h, x.late, x.timeouts)
  BY DEF UpdateStandardCtrl, Device4
<1>2. /\ RegistersOK(h)
      /\ h.up = [l \in Ports |-> UpBitrate(f.up[l])]
      /\ h.version = [l \in Ports |-> VersionCtrl(f.version[l])]
      /\ \A k \in RegisterNames \ {"up", "version"} : h[k] = x.hw[k]
  BY <1>0 DEF RegistersOK, RegisterNames
<1> HIDE DEF h
<1>3. DeviceOK(z)
  BY DeviceParts, DeviceMade, <1>1, <1>2
<1>4. Synced(z)
  <2> DEFINE g == x.fe
  <2>1. /\ z.fe = f /\ z.hw = h
        /\ \A k \in {"map", "power", "state", "lstate", "speed", "acq", "links"} : f[k] = g[k]
        /\ \A k \in {"map", "power", "link", "host", "speed", "acq", "links"} : h[k] = x.hw[k]
    BY <1>1, <1>2 DEF Device4, CacheNames, RegisterNames
  <2>2. \A l \in Ports : StateOfLogical(f, l) = StateOfLogical(g, l)
    BY <2>1 DEF StateOfLogical
  <2>3. \A l \in Ports : h.up[l] = UpBitrate(f.up[l]) /\ h.version[l] = VersionCtrl(f.version[l])
    BY <1>2
  <2> QED BY <2>1, <2>2, <2>3 DEF Synced
<1>5. \A q \in Ports \ {p} : x.fe.map[q] \in Ports \ {x.fe.map[p]}
  BY DeviceParts, OnePort DEF Caches
<1>6. \A q \in Ports \ {p} : SamePort(x, z, q)
  BY <1>1, <1>2, <1>5
  DEF SamePort, SameConnector, SameCamera, SameLink, SameLate, Device4, CacheNames, RegisterNames
<1> QED BY <1>1, <1>2, <1>3, <1>4, <1>6 DEF Keeps, Device4, CacheNames, RegisterNames

LEMMA VersionKeeps ==
  ASSUME NEW x, DeviceOK(x), Synced(x), NEW p, NEW v, NEW r \in SetPortStandardVersion(x, p, v)
  PROVE  /\ Keeps(x, r.x, p)
         /\ r.x.late = x.late /\ r.x.hw.led = x.hw.led /\ r.x.hw.speed = x.hw.speed
         /\ \A k \in CacheNames \ {"version"} : r.x.fe[k] = x.fe[k]
         /\ ~(p \in Ports /\ v \in Versions) => r.x = x
         /\ p \in Ports /\ v \in Versions => r.x.fe.version[x.fe.map[p]] = v
<1> DEFINE l == LogicalPort(x, p)
           f == [x.fe EXCEPT !.version = [@ EXCEPT ![l] = v]]
           z == UpdateStandardCtrl(Device4(f, x.hw, x.late, x.timeouts))
<1>1. \/ r.x = x /\ (p \in Ports /\ v \in Versions => v = x.fe.version[l])
      \/ p \in Ports /\ v \in Versions /\ r.x = z
  <2> DEFINE w == UpdateStandardCtrl([x EXCEPT !.fe.version[l] = v])
             outcomes == {Result(IF v = x.fe.version[l] THEN x ELSE w, "OK")}
  <2>1. r \in Checked(x, p, v \in Versions, outcomes)
    BY DEF SetPortStandardVersion
  <2>2. [x EXCEPT !.fe.version[l] = v] = Device4(f, x.hw, x.late, x.timeouts)
    BY DeviceParts DEF Device4
  <2>3. w = z
    BY <2>2
  <2>4. \A s \in outcomes : (s.x = x /\ v = x.fe.version[l]) \/ s.x = w
    <3> HIDE DEF w, l
    <3> QED BY DEF Result
  <2> HIDE DEF outcomes, w, z, l
  <2>5. \/ r.x = x /\ ~(p \in Ports /\ v \in Versions)
        \/ p \in Ports /\ v \in Versions /\ r \in outcomes
    BY <2>1, CheckedOutcome
  <2> QED BY <2>3, <2>4, <2>5
<1>2. CASE r.x = x /\ (p \in Ports /\ v \in Versions => v = x.fe.version[l])
  BY <1>2, KeepsAll DEF LogicalPort
<1>3. CASE p \in Ports /\ v \in Versions /\ r.x = z
  <2>0. x.fe \in Caches /\ x.fe.map \in PortMaps /\ l = x.fe.map[p] /\ l \in Ports
    BY <1>3, DeviceParts, Phys DEF Caches, LogicalPort
  <2> HIDE DEF l
  <2>1. f \in Caches
    <3> DEFINE m == [x.fe.version EXCEPT ![l] = v]
    <3>1. m \in [Ports -> Unset \cup Versions]
      BY <1>3, <2>0 DEF Caches
    <3> HIDE DEF m
    <3>2. [x.fe EXCEPT !.version = m] \in Caches
      BY <2>0, <3>1 DEF Caches
    <3> QED BY <3>2 DEF m
  <2>2. /\ f.version[l] = v
        /\ \A k \in Ports \ {l} : f.version[k] = x.fe.version[k]
        /\ \A k \in CacheNames \ {"version"} : f[k] = x.fe[k]
    BY <1>3, <2>0 DEF Caches, CacheNames
  <2> HIDE DEF f
  <2>3. /\ \A k \in CacheNames \ {"up", "version"} : f[k] = x.fe[k]
        /\ \A k \in Ports \ {x.fe.map[p]} : f.up[k] = x.fe.up[k] /\ f.version[k] = x.fe.version[k]
    BY <2>0, <2>2 DEF CacheNames
  <2>4. Keeps(x, z, p) /\ z.fe = f /\ z.late = x.late /\ z.hw.led = x.hw.led /\ z.hw.speed = x.hw.speed
    <3> HIDE DEF z
    <3>1. z = UpdateStandardCtrl(Device4(f, x.hw, x.late, x.timeouts))
      BY DEF z
    <3> QED BY <1>3, <2>1, <2>3, <3>1, StandardKeeps
  <2> QED BY <1>3, <2>0, <2>2, <2>4
<1> QED BY <1>1, <1>2, <1>3

LEMMA LedKeeps ==
  ASSUME NEW x, DeviceOK(x), Synced(x), NEW p, NEW v, NEW r \in SetPortLedState(x, p, v)
  PROVE  /\ Keeps(x, r.x, p)
         /\ r.x.late = x.late /\ r.x.hw.speed = x.hw.speed
         /\ \A k \in CacheNames \ {"led"} : r.x.fe[k] = x.fe[k]
<1> DEFINE f == [x.fe EXCEPT !.led = [@ EXCEPT ![p] = v]]
           h == [x.hw EXCEPT !.led = [@ EXCEPT ![p] = v]]
           z == Device4(f, h, x.late, x.timeouts)
<1>1. r.x = x \/ (p \in Ports /\ v \in LedStates /\ r.x = z)
  <2> DEFINE w == [x EXCEPT !.fe.led[p] = v, !.hw.led[p] = v]
             outcomes == {Result(IF v = x.fe.led[p] THEN x ELSE w, "OK")}
  <2>1. r \in Checked(x, p, v \in LedStates, outcomes)
    BY DEF SetPortLedState
  <2>2. w = z
    <3>1. w = [x EXCEPT !.fe = f, !.hw = h]
      OBVIOUS
    <3>2. x = Device4(x.fe, x.hw, x.late, x.timeouts)
      BY DeviceParts
    <3> HIDE DEF w, f, h
    <3> QED BY <3>1, <3>2 DEF Device4
  <2>3. \A s \in outcomes : s.x = x \/ s.x = w
    <3> HIDE DEF w
    <3> QED BY DEF Result
  <2> HIDE DEF outcomes, w, z
  <2>4. r.x = x \/ (p \in Ports /\ v \in LedStates /\ r \in outcomes)
    BY <2>1, CheckedOutcome
  <2> QED BY <2>2, <2>3, <2>4
<1>2. CASE r.x = x
  BY <1>2, KeepsAll
<1>3. CASE p \in Ports /\ v \in LedStates /\ r.x = z
  <2>0. x.fe \in Caches /\ RegistersOK(x.hw)
    BY DeviceParts
  <2>1. f \in Caches
    BY <1>3, <2>0 DEF Caches
  <2>2. /\ RegistersOK(h)
        /\ \A q \in Ports \ {p} : h.led[q] = x.hw.led[q]
        /\ \A k \in RegisterNames \ {"led"} : h[k] = x.hw[k]
    BY <1>3, <2>0 DEF RegistersOK, RegisterNames
  <2>3. \A k \in CacheNames \ {"led"} : f[k] = x.fe[k]
    BY <1>3, <2>0 DEF Caches, CacheNames
  <2> HIDE DEF f, h
  <2>4. DeviceOK(z)
    BY DeviceParts, DeviceMade, <2>1, <2>2
  <2>5. Synced(z)
    BY <2>2, <2>3 DEF Synced, Device4, StateOfLogical, CacheNames, RegisterNames
  <2>6. \A q \in Ports \ {p} : SamePort(x, z, q)
    BY <2>2, <2>3
    DEF SamePort, SameConnector, SameCamera, SameLink, SameLate, Device4, CacheNames, RegisterNames
  <2> QED BY <1>3, <2>2, <2>3, <2>4, <2>5, <2>6 DEF Keeps, Device4, CacheNames, RegisterNames
<1> QED BY <1>1, <1>2, <1>3

LEMMA AcquisitionKeeps ==
  ASSUME NEW x, DeviceOK(x), Synced(x), NEW p, NEW v, NEW r \in SetPortAcquisitionState(x, p, v)
  PROVE  /\ Keeps(x, r.x, p)
         /\ r.x.late = x.late /\ r.x.hw.led = x.hw.led /\ r.x.hw.speed = x.hw.speed
         /\ \A k \in CacheNames \ {"acq"} : r.x.fe[k] = x.fe[k]
         /\ ~(p \in Ports /\ v \in AcquisitionStates) => r.x = x
         /\ p \in Ports /\ v \in AcquisitionStates => r.x.fe.acq[x.fe.map[p]] = v
<1> DEFINE l == LogicalPort(x, p)
           f == [x.fe EXCEPT !.acq = [@ EXCEPT ![l] = v]]
           h == [x.hw EXCEPT !.acq = [k \in Ports |-> f.acq[k] = "STARTED"]]
           z == Device4(f, h, x.late, x.timeouts)
<1>1. \/ r.x = x /\ (p \in Ports /\ v \in AcquisitionStates => v = x.fe.acq[l])
      \/ p \in Ports /\ v \in AcquisitionStates /\ r.x = z
  <2> DEFINE y == [x EXCEPT !.fe.acq[l] = v]
             w == [y EXCEPT !.hw.acq = [k \in Ports |-> y.fe.acq[k] = "STARTED"]]
             outcomes == {Result(IF v = x.fe.acq[l] THEN x ELSE w, "OK")}
  <2>1. r \in Checked(x, p, v \in AcquisitionStates, outcomes)
    BY DEF SetPortAcquisitionState
  <2>2. y = Device4(f, x.hw, x.late, x.timeouts)
    BY DeviceParts DEF Device4
  <2>3. w = z
    <3> HIDE DEF y, f
    <3> QED BY <2>2 DEF Device4
  <2>4. \A s \in outcomes : (s.x = x /\ v = x.fe.acq[l]) \/ s.x = w
    <3> HIDE DEF w, l
    <3> QED BY DEF Result
  <2> HIDE DEF outcomes, w, z, l
  <2>5. \/ r.x = x /\ ~(p \in Ports /\ v \in AcquisitionStates)
        \/ p \in Ports /\ v \in AcquisitionStates /\ r \in outcomes
    BY <2>1, CheckedOutcome
  <2> QED BY <2>3, <2>4, <2>5
<1>2. CASE r.x = x /\ (p \in Ports /\ v \in AcquisitionStates => v = x.fe.acq[l])
  BY <1>2, KeepsAll DEF LogicalPort
<1>3. CASE p \in Ports /\ v \in AcquisitionStates /\ r.x = z
  <2>0. x.fe \in Caches /\ RegistersOK(x.hw) /\ x.fe.map \in PortMaps /\ l = x.fe.map[p] /\ l \in Ports
    BY <1>3, DeviceParts, Phys DEF Caches, LogicalPort
  <2> HIDE DEF l
  <2>1. f \in Caches
    <3> DEFINE m == [x.fe.acq EXCEPT ![l] = v]
    <3>1. m \in [Ports -> Unset \cup AcquisitionStates]
      BY <1>3, <2>0 DEF Caches
    <3> HIDE DEF m
    <3>2. [x.fe EXCEPT !.acq = m] \in Caches
      BY <2>0, <3>1 DEF Caches
    <3> QED BY <3>2 DEF m
  <2>2. /\ f.acq[l] = v
        /\ \A k \in Ports \ {l} : f.acq[k] = x.fe.acq[k]
        /\ \A k \in CacheNames \ {"acq"} : f[k] = x.fe[k]
    BY <1>3, <2>0 DEF Caches, CacheNames
  <2> HIDE DEF f
  <2>3. /\ RegistersOK(h)
        /\ h.acq = [k \in Ports |-> f.acq[k] = "STARTED"]
        /\ \A k \in RegisterNames \ {"acq"} : h[k] = x.hw[k]
    BY <2>0 DEF RegistersOK, RegisterNames
  <2> HIDE DEF h
  <2>4. DeviceOK(z)
    BY DeviceParts, DeviceMade, <2>1, <2>3
  <2>5. Synced(z)
    BY <2>2, <2>3 DEF Synced, Device4, StateOfLogical, CacheNames, RegisterNames
  <2>6. \A q \in Ports \ {p} : x.fe.map[q] \in Ports \ {l}
    BY <1>3, <2>0, OnePort
  <2>7. \A q \in Ports \ {p} : SamePort(x, z, q)
    BY <2>2, <2>3, <2>6
    DEF SamePort, SameConnector, SameCamera, SameLink, SameLate, Device4, CacheNames, RegisterNames
  <2> QED BY <1>3, <2>0, <2>2, <2>3, <2>4, <2>5, <2>7 DEF Keeps, Device4, CacheNames, RegisterNames
<1> QED BY <1>1, <1>2, <1>3

LEMMA DownscalingKeeps ==
  ASSUME NEW x, DeviceOK(x), Synced(x), NEW p, NEW n, NEW r \in SetPortCameraDownscaling(x, p, n)
  PROVE  /\ Keeps(x, r.x, p)
         /\ r.x.late = x.late /\ r.x.hw.led = x.hw.led /\ r.x.hw.speed = x.hw.speed
         /\ \A k \in CacheNames \ {"links"} : r.x.fe[k] = x.fe[k]
         /\ p \in Ports /\ n \in 1 .. 4 /\ NumPorts # 1 => r.x.fe.links[x.fe.map[p]] = n
<1> DEFINE l == LogicalPort(x, p)
           f == [x.fe EXCEPT !.links = [@ EXCEPT ![l] = n]]
           h == [x.hw EXCEPT !.links = Downscale(f.links)]
           z == Device4(f, h, x.late, x.timeouts)
<1>1. \/ r.x = x /\ (p \in Ports /\ n \in 1 .. 4 => NumPorts = 1 \/ n = x.fe.links[l])
      \/ p \in Ports /\ n \in 1 .. 4 /\ NumPorts # 1 /\ r.x = z
  <2> DEFINE y == [x EXCEPT !.fe.links[l] = n]
             w == [y EXCEPT !.hw.links = Downscale(y.fe.links)]
             legal == n \in 1 .. 4
             outcomes == {Result(IF NumPorts = 1 \/ n = x.fe.links[l] THEN x ELSE w, "OK")}
  <2>1. r \in Checked(x, p, legal, outcomes)
    BY DEF SetPortCameraDownscaling
  <2>2. y = Device4(f, x.hw, x.late, x.timeouts)
    BY DeviceParts DEF Device4
  <2>3. w = z
    <3> HIDE DEF y, f
    <3> QED BY <2>2 DEF Device4
  <2>4. \A s \in outcomes : \/ s.x = x /\ (NumPorts = 1 \/ n = x.fe.links[l])
                            \/ NumPorts # 1 /\ s.x = w
    <3> HIDE DEF w, l
    <3> QED BY DEF Result
  <2> HIDE DEF outcomes, w, z, l, legal
  <2>5. \/ r.x = x /\ ~(p \in Ports /\ legal)
        \/ p \in Ports /\ legal /\ r \in outcomes
    BY <2>1, CheckedOutcome
  <2> QED BY <2>3, <2>4, <2>5 DEF legal
<1>2. CASE r.x = x /\ (p \in Ports /\ n \in 1 .. 4 => NumPorts = 1 \/ n = x.fe.links[l])
  BY <1>2, KeepsAll DEF LogicalPort
<1>3. CASE p \in Ports /\ n \in 1 .. 4 /\ NumPorts # 1 /\ r.x = z
  <2>0. x.fe \in Caches /\ RegistersOK(x.hw) /\ x.fe.map \in PortMaps /\ l = x.fe.map[p] /\ l \in Ports
    BY <1>3, DeviceParts, Phys DEF Caches, LogicalPort
  <2> HIDE DEF l
  <2>1. f \in Caches
    <3> DEFINE m == [x.fe.links EXCEPT ![l] = n]
    <3>1. m \in [Ports -> 1 .. 4]
      BY <1>3, <2>0 DEF Caches
    <3> HIDE DEF m
    <3>2. [x.fe EXCEPT !.links = m] \in Caches
      BY <2>0, <3>1 DEF Caches
    <3> QED BY <3>2 DEF m
  <2>2. /\ f.links[l] = n
        /\ \A k \in Ports \ {l} : f.links[k] = x.fe.links[k]
        /\ \A k \in CacheNames \ {"links"} : f[k] = x.fe[k]
    BY <1>3, <2>0 DEF Caches, CacheNames
  <2> HIDE DEF f
  <2>3. /\ RegistersOK(h)
        /\ h.links = Downscale(f.links)
        /\ \A k \in RegisterNames \ {"links"} : h[k] = x.hw[k]
    BY <2>0 DEF RegistersOK, RegisterNames
  <2> HIDE DEF h
  <2>4. DeviceOK(z)
    BY DeviceParts, DeviceMade, <2>1, <2>3
  <2>5. Synced(z)
    BY <1>3, <2>2, <2>3 DEF Synced, Device4, StateOfLogical, CacheNames, RegisterNames
  <2>6. \A q \in Ports \ {p} : x.fe.map[q] \in Ports \ {l}
    BY <1>3, <2>0, OnePort
  <2>7. \A q \in Ports \ {p} : SamePort(x, z, q)
    BY <2>2, <2>3, <2>6
    DEF SamePort, SameConnector, SameCamera, SameLink, SameLate, Device4, CacheNames, RegisterNames
  <2> QED BY <1>3, <2>0, <2>2, <2>3, <2>4, <2>5, <2>7 DEF Keeps, Device4, CacheNames, RegisterNames
<1> QED BY <1>1, <1>2, <1>3

LEMMA StreamKeeps ==
  ASSUME NEW x, DeviceOK(x), Synced(x), NEW p, NEW id, NEW r \in SetPortImageStreamId(x, p, id)
  PROVE  /\ Keeps(x, r.x, p)
         /\ r.x.late = x.late /\ r.x.hw.led = x.hw.led /\ r.x.hw.speed = x.hw.speed
         /\ \A k \in CacheNames \ {"stream"} : r.x.fe[k] = x.fe[k]
<1> DEFINE l == LogicalPort(x, p)
           f == [x.fe EXCEPT !.stream = [@ EXCEPT ![l] = id]]
           h == [x.hw EXCEPT !.stream = [@ EXCEPT ![l] = id]]
           y == Device4(f, x.hw, x.late, x.timeouts)
           z == Device4(f, h, x.late, x.timeouts)
<1>1. r.x = x \/ (p \in Ports /\ id \in -1 .. 255 /\ r.x \in {y, z})
  <2> DEFINE v == [x EXCEPT !.fe.stream[l] = id]
             w == [v EXCEPT !.hw.stream[l] = id]
             legal == id \in -1 .. 255
             outcomes ==
               CASE id = -1 -> {Result(v, "OK")}
                 [] id # -1 /\ ~SupportsTgs -> {Result(x, "NO_TGS")}
                 [] OTHER -> {Result(IF id = x.fe.stream[l] THEN x ELSE w, "OK")}
  <2>1. r \in Checked(x, p, legal, outcomes)
    BY DEF SetPortImageStreamId
  <2>2. v = y
    BY DeviceParts DEF Device4
  <2>3. w = z
    <3> HIDE DEF v, f
    <3> QED BY <2>2 DEF Device4
  <2>4. \A s \in outcomes : s.x = x \/ s.x = v \/ s.x = w
    <3> HIDE DEF v, w, l
    <3>1. CASE id = -1
      BY <3>1 DEF Result
    <3>2. CASE id # -1 /\ ~SupportsTgs
      BY <3>2 DEF Result
    <3>3. CASE id # -1 /\ SupportsTgs
      BY <3>3 DEF Result
    <3> QED BY <3>1, <3>2, <3>3
  <2> HIDE DEF outcomes, v, w, y, z, legal
  <2>5. r.x = x \/ (p \in Ports /\ legal /\ r \in outcomes)
    BY <2>1, CheckedOutcome
  <2> QED BY <2>2, <2>3, <2>4, <2>5 DEF legal
<1>2. CASE r.x = x
  BY <1>2, KeepsAll
<1>3. CASE p \in Ports /\ id \in -1 .. 255 /\ r.x \in {y, z}
  <2>0. x.fe \in Caches /\ RegistersOK(x.hw) /\ x.fe.map \in PortMaps /\ l = x.fe.map[p] /\ l \in Ports
    BY <1>3, DeviceParts, Phys DEF Caches, LogicalPort
  <2> HIDE DEF l
  <2>1. f \in Caches
    <3> DEFINE m == [x.fe.stream EXCEPT ![l] = id]
    <3>1. m \in [Ports -> -1 .. 255]
      BY <1>3, <2>0 DEF Caches
    <3> HIDE DEF m
    <3>2. [x.fe EXCEPT !.stream = m] \in Caches
      BY <2>0, <3>1 DEF Caches
    <3> QED BY <3>2 DEF m
  <2>2. /\ RegistersOK(h)
        /\ \A k \in RegisterNames \ {"stream"} : h[k] = x.hw[k]
    <3> DEFINE m == [x.hw.stream EXCEPT ![l] = id]
    <3>1. m \in [Ports -> -1 .. 255]
      BY <1>3, <2>0 DEF RegistersOK
    <3> HIDE DEF m
    <3> DEFINE g == [x.hw EXCEPT !.stream = m]
    <3>2. RegistersOK(g) /\ \A k \in RegisterNames \ {"stream"} : g[k] = x.hw[k]
      BY <2>0, <3>1 DEF RegistersOK, RegisterNames
    <3> QED BY <3>2 DEF m
  <2>3. \A k \in CacheNames \ {"stream"} : f[k] = x.fe[k]
    BY <1>3, <2>0 DEF Caches, CacheNames
  <2> HIDE DEF f, h
  <2>4. DeviceOK(y) /\ DeviceOK(z)
    BY DeviceParts, DeviceMade, <2>1, <2>2
  <2>5. /\ r.x.fe = f /\ r.x.late = x.late
        /\ \A k \in RegisterNames \ {"stream"} : r.x.hw[k] = x.hw[k]
    BY <1>3, <2>2 DEF Device4
  <2>6. Synced(r.x)
    <3> DEFINE g == x.fe
               w == r.x.hw
    <3>1. /\ \A k \in {"map", "power", "state", "lstate", "speed", "up", "version", "acq", "links"} : f[k] = g[k]
          /\ \A k \in RegisterNames \ {"stream"} : w[k] = x.hw[k]
      BY <2>3, <2>5 DEF CacheNames
    <3>2. \A k \in Ports : StateOfLogical(f, k) = StateOfLogical(g, k)
      BY <3>1 DEF StateOfLogical
    <3> QED BY <2>5, <3>1, <3>2 DEF Synced, RegisterNames
  <2>7. \A q \in Ports \ {p} : SamePort(x, r.x, q)
    BY <2>3, <2>5
    DEF SamePort, SameConnector, SameCamera, SameLink, SameLate, CacheNames, RegisterNames
  <2> QED BY <1>3, <2>3, <2>4, <2>5, <2>6, <2>7 DEF Keeps, CacheNames, RegisterNames
<1> QED BY <1>1, <1>2, <1>3

\* A speed change is made of the downlink, the uplink and the answer.
LEMMA DownKeeps ==
  ASSUME NEW x, DeviceOK(x), Synced(x), NEW p \in Ports, NEW v \in Speeds,
         NEW y, v # x.fe.speed[p], y = SetDownlink(x, p, v)
  PROVE  /\ Keeps(x, y, p)
         /\ y.late = x.late /\ y.hw.led = x.hw.led /\ y.timeouts = x.timeouts
         /\ \A k \in CacheNames \ {"speed"} : y.fe[k] = x.fe[k]
         /\ y.fe.speed[p] = v /\ y.hw.speed[p] = v
<1> DEFINE f == [x.fe EXCEPT !.speed = [@ EXCEPT ![p] = v]]
           h == [x.hw EXCEPT !.speed = [@ EXCEPT ![p] = v]]
<1>0. x.fe \in Caches /\ RegistersOK(x.hw)
  BY DeviceParts
<1>1. y = Device4(f, h, x.late, x.timeouts)
  <2>1. y = [x EXCEPT !.fe = f, !.hw = h]
    BY DEF SetDownlink
  <2>2. x = Device4(x.fe, x.hw, x.late, x.timeouts)
    BY DeviceParts
  <2> HIDE DEF f, h
  <2> QED BY <2>1, <2>2 DEF Device4
<1>2. f \in Caches
  <2> DEFINE m == [x.fe.speed EXCEPT ![p] = v]
  <2>1. m \in [Ports -> {0} \cup Speeds]
    BY <1>0 DEF Caches
  <2> HIDE DEF m
  <2>2. [x.fe EXCEPT !.speed = m] \in Caches
    BY <1>0, <2>1 DEF Caches
  <2> QED BY <2>2 DEF m
<1>3. /\ f.speed[p] = v
      /\ \A q \in Ports \ {p} : f.speed[q] = x.fe.speed[q]
      /\ \A k \in CacheNames \ {"speed"} : f[k] = x.fe[k]
  BY <1>0 DEF Caches, CacheNames
<1>4. /\ h.speed[p] = v
      /\ \A q \in Ports \ {p} : h.speed[q] = x.hw.speed[q]
      /\ \A k \in RegisterNames \ {"speed"} : h[k] = x.hw[k]
  BY <1>0 DEF RegistersOK, RegisterNames
<1>5. RegistersOK(h)
  <2> DEFINE m == [x.hw.speed EXCEPT ![p] = v]
  <2>1. m \in [Ports -> {0} \cup Speeds]
    BY <1>0 DEF RegistersOK
  <2> HIDE DEF m
  <2> DEFINE g == [x.hw EXCEPT !.speed = m]
  <2>2. RegistersOK(g)
    BY <1>0, <2>1 DEF RegistersOK
  <2> QED BY <2>2 DEF m
<1> HIDE DEF f, h
<1>6. DeviceOK(y)
  BY DeviceParts, DeviceMade, <1>1, <1>2, <1>5
<1>7. y.fe = f /\ y.hw = h /\ y.late = x.late /\ y.timeouts = x.timeouts
  BY <1>1, DeviceFields
<1>8. Synced(y)
  <2> DEFINE g == x.fe
  <2>1. /\ \A k \in {"map", "power", "state", "lstate", "up", "version", "acq", "links"} : f[k] = g[k]
        /\ \A k \in RegisterNames \ {"speed"} : h[k] = x.hw[k]
    BY <1>3, <1>4 DEF CacheNames
  <2>2. \A l \in Ports : StateOfLogical(f, l) = StateOfLogical(g, l)
    BY <2>1 DEF StateOfLogical
  <2>3. \A q \in Ports : f.speed[q] # 0 => h.speed[q] = f.speed[q]
    BY <1>3, <1>4 DEF Synced
  <2>4. Synced([fe |-> f, hw |-> h])
    BY <2>1, <2>2, <2>3 DEF Synced, RegisterNames
  <2> QED BY <1>7, <2>4 DEF Synced
<1>9. \A q \in Ports \ {p} : SamePort(x, y, q)
  BY <1>3, <1>4, <1>7
  DEF SamePort, SameConnector, SameCamera, SameLink, SameLate, CacheNames, RegisterNames
<1> QED BY <1>3, <1>4, <1>6, <1>7, <1>8, <1>9 DEF Keeps, CacheNames, RegisterNames

LEMMA UpKeeps ==
  ASSUME NEW x, DeviceOK(x), Synced(x), NEW p \in Ports, NEW u \in {"LOW", "HIGH"}, NEW y,
         y = SetUplink(x, x.fe.map[p], u)
  PROVE  /\ Keeps(x, y, p)
         /\ y.late = x.late /\ y.hw.led = x.hw.led /\ y.hw.speed = x.hw.speed
         /\ y.timeouts = x.timeouts
         /\ \A k \in CacheNames \ {"up"} : y.fe[k] = x.fe[k]
         /\ y.fe.up[x.fe.map[p]] = u
<1> DEFINE l == x.fe.map[p]
           f == [x.fe EXCEPT !.up = [@ EXCEPT ![l] = u]]
<1>1. CASE x.fe.up[l] = u
  BY <1>1, KeepsAll DEF SetUplink
<1>2. CASE x.fe.up[l] # u
  <2>1. x.fe \in Caches /\ l \in Ports
    BY DeviceParts, Phys DEF Caches
  <2>2. [x EXCEPT !.fe.up[l] = u] = Device4(f, x.hw, x.late, x.timeouts)
    BY DeviceParts DEF Device4
  <2>3. y = UpdateStandardCtrl(Device4(f, x.hw, x.late, x.timeouts))
    BY <1>2, <2>2 DEF SetUplink
  <2>4. f \in Caches
    <3> DEFINE m == [x.fe.up EXCEPT ![l] = u]
    <3>1. m \in [Ports -> Unset \cup {"LOW", "HIGH"}]
      BY <2>1 DEF Caches
    <3> HIDE DEF m
    <3>2. [x.fe EXCEPT !.up = m] \in Caches
      BY <2>1, <3>1 DEF Caches
    <3> QED BY <3>2 DEF m
  <2>5. /\ f.up[l] = u
        /\ \A k \in Ports \ {l} : f.up[k] = x.fe.up[k]
        /\ \A k \in CacheNames \ {"up"} : f[k] = x.fe[k]
    BY <2>1 DEF Caches, CacheNames
  <2> HIDE DEF f
  <2>6. /\ \A k \in CacheNames \ {"up", "version"} : f[k] = x.fe[k]
        /\ \A k \in Ports \ {x.fe.map[p]} : f.up[k] = x.fe.up[k] /\ f.version[k] = x.fe.version[k]
    BY <2>5 DEF CacheNames
  <2>7. /\ Keeps(x, y, p) /\ y.fe = f /\ y.late = x.late /\ y.timeouts = x.timeouts
        /\ y.hw.led = x.hw.led /\ y.hw.speed = x.hw.speed
    BY <2>3, <2>4, <2>6, StandardKeeps
  <2> QED BY <2>5, <2>7
<1> QED BY <1>1, <1>2

LEMMA AnswerKeeps ==
  ASSUME NEW x, NEW p \in Ports, NEW y, Keeps(x, y, p), y.late = x.late, NEW z,
         z.fe = y.fe, z.hw = y.hw, z = Device4(z.fe, z.hw, z.late, z.timeouts),
         z.late \in {y.late \cup {p}, y.late \ {p}}, z.timeouts \in Nat
  PROVE  Keeps(x, z, p)
<1>1. DeviceOK(z)
  <2>1. y.fe \in Caches /\ RegistersOK(y.hw) /\ y.late \subseteq Ports
    BY DeviceParts DEF Keeps
  <2>2. DeviceOK(Device4(z.fe, z.hw, z.late, z.timeouts))
    BY <2>1, DeviceMade
  <2> QED BY <2>2
<1>2. Synced(z)
  BY DEF Keeps, Synced
<1> QED BY <1>1, <1>2 DEF Keeps, SamePort, SameConnector, SameCamera, SameLink, SameLate

LEMMA AnswerFields ==
  ASSUME NEW f, NEW h, NEW a, NEW t \in Nat, NEW p
  PROVE  /\ InTime(Device4(f, h, a, t), p) = Device4(f, h, a \ {p}, t)
         /\ TimedOut(Device4(f, h, a, t), p) = Device4(f, h, a \cup {p}, t + 1)
<1>1. InTime(Device4(f, h, a, t), p) = Device4(f, h, a \ {p}, t)
  BY DEF InTime, Device4
<1>2. TimedOut(Device4(f, h, a, t), p) = Device4(f, h, a \cup {p}, t + 1)
  <2> DEFINE y == Device4(f, h, a, t)
             b == a \cup {p}
             s == t + 1
  <2>1. y.late = a /\ y.timeouts = t
    BY DEF Device4
  <2>2. [y EXCEPT !.late = b] = Device4(f, h, b, t)
    <3> HIDE DEF b
    <3> QED BY DEF Device4
  <2>3. [Device4(f, h, b, t) EXCEPT !.timeouts = s] = Device4(f, h, b, s)
    <3> HIDE DEF b, s
    <3> QED BY DEF Device4
  <2>4. TimedOut(y, p) = [[y EXCEPT !.late = b] EXCEPT !.timeouts = s]
    <3> HIDE DEF y
    <3> QED BY <2>1 DEF TimedOut
  <2> QED BY <2>2, <2>3, <2>4
<1> QED BY <1>1, <1>2

LEMMA SpeedKeeps ==
  ASSUME NEW x, DeviceOK(x), Synced(x), NEW p, NEW v, NEW r \in SetPortDataPathSpeed(x, p, v)
  PROVE  /\ Keeps(x, r.x, p)
         /\ r.x.hw.led = x.hw.led
         /\ \A k \in CacheNames \ {"speed", "up"} : r.x.fe[k] = x.fe[k]
         /\ v \notin Speeds \/ v = x.fe.speed[p] =>
              r.x.fe.speed = x.fe.speed /\ r.x.hw.speed = x.hw.speed
         /\ ~(p \in Ports /\ v \in Speeds) => r.x = x
         /\ p \in Ports /\ v \in Speeds /\ p \notin r.x.late =>
              r.x.fe.speed[p] = v /\ r.x.fe.up[x.fe.map[p]] = UpOf(v)
<1> DEFINE l == LogicalPort(x, p)
           u == UpOf(v)
           noop == v = x.fe.speed[p] /\ u = x.fe.up[l]
           down == SetDownlink(x, p, v)
           full == SetUplink(down, l, u)
           legal == v \in Speeds
<1>1. \/ r.x = x /\ ~(p \in Ports /\ legal)
      \/ /\ p \in Ports /\ legal
         /\ (r.x = x /\ noop) \/ r.x \in {InTime(full, p), TimedOut(x, p), TimedOut(full, p)}
  <2> DEFINE failures == {x} \cup (IF v = x.fe.speed[p] THEN {} ELSE {full})
             failed == {Result(TimedOut(y, p), "TIMEOUT") : y \in failures}
             outcomes == IF noop THEN {Result(x, "OK")}
                         ELSE {Result(InTime(full, p), "OK")}
                              \cup (IF x.timeouts < MaxTimeouts THEN failed ELSE {})
  <2>1. r \in Checked(x, p, legal, outcomes)
    BY DEF SetPortDataPathSpeed
  <2> HIDE DEF noop, full, legal
  <2>2. \A s \in failed : s.x \in {TimedOut(x, p), TimedOut(full, p)}
    BY DEF Result
  <2> HIDE DEF failed
  <2>3. \A s \in outcomes : (s.x = x /\ noop) \/ s.x \in {InTime(full, p), TimedOut(x, p), TimedOut(full, p)}
    <3>1. CASE noop
      BY <3>1 DEF Result
    <3>2. CASE ~noop
      BY <2>2, <3>2 DEF Result
    <3> QED BY <3>1, <3>2
  <2> HIDE DEF outcomes
  <2>4. \/ r.x = x /\ ~(p \in Ports /\ legal)
        \/ p \in Ports /\ legal /\ r \in outcomes
    BY <2>1, CheckedOutcome
  <2> QED BY <2>3, <2>4
<1>2. CASE r.x = x /\ ~(p \in Ports /\ legal)
  BY <1>2, KeepsAll
<1>3. CASE p \in Ports /\ legal /\ r.x = x /\ noop
  BY <1>3, KeepsAll DEF LogicalPort
<1>4. ASSUME p \in Ports, legal, r.x \in {InTime(full, p), TimedOut(x, p), TimedOut(full, p)}
      PROVE  /\ Keeps(x, r.x, p)
             /\ r.x.hw.led = x.hw.led
             /\ \A k \in CacheNames \ {"speed", "up"} : r.x.fe[k] = x.fe[k]
             /\ v = x.fe.speed[p] => r.x.fe.speed = x.fe.speed /\ r.x.hw.speed = x.hw.speed
             /\ p \notin r.x.late => r.x.fe.speed[p] = v /\ r.x.fe.up[l] = u
  <2>0. l = x.fe.map[p] /\ v # 0 /\ u \in {"LOW", "HIGH"}
    BY <1>4 DEF LogicalPort, UpOf, Speeds
  <2>1. /\ Keeps(x, down, p)
        /\ down.late = x.late /\ down.hw.led = x.hw.led /\ down.timeouts = x.timeouts
        /\ \A k \in CacheNames \ {"speed"} : down.fe[k] = x.fe[k]
        /\ v = x.fe.speed[p] => down = x
        /\ down.fe.speed[p] = v
    <3>1. CASE v = x.fe.speed[p]
      BY <3>1, KeepsAll DEF SetDownlink
    <3>2. CASE v # x.fe.speed[p]
      <4> HIDE DEF down
      <4>1. down = SetDownlink(x, p, v)
        BY DEF down
      <4> QED BY <1>4, <3>2, <4>1, DownKeeps
    <3> QED BY <3>1, <3>2
  <2> HIDE DEF down, l, u
  <2>2. down.fe.map = x.fe.map
    BY <2>1 DEF CacheNames
  <2>3. /\ Keeps(down, full, p)
        /\ full.late = down.late /\ full.hw.led = down.hw.led /\ full.hw.speed = down.hw.speed
        /\ full.timeouts = down.timeouts
        /\ \A k \in CacheNames \ {"up"} : full.fe[k] = down.fe[k]
        /\ full.fe.up[l] = u
    <3>1. DeviceOK(down) /\ Synced(down)
      BY <2>1 DEF Keeps
    <3>2. full = SetUplink(down, down.fe.map[p], u)
      BY <2>0, <2>2
    <3> HIDE DEF full
    <3>3. /\ Keeps(down, full, p)
          /\ full.late = down.late /\ full.hw.led = down.hw.led /\ full.hw.speed = down.hw.speed
          /\ full.timeouts = down.timeouts
          /\ \A k \in CacheNames \ {"up"} : full.fe[k] = down.fe[k]
          /\ full.fe.up[down.fe.map[p]] = u
      BY <1>4, <2>0, <3>1, <3>2, UpKeeps
    <3> QED BY <2>0, <2>2, <3>3
  <2> HIDE DEF full
  <2>4. Keeps(x, full, p)
    BY <2>1, <2>3, KeepsBoth
  <2>5. ASSUME NEW y, Keeps(x, y, p), y.late = x.late
        PROVE  /\ Keeps(x, InTime(y, p), p) /\ InTime(y, p).fe = y.fe /\ InTime(y, p).hw = y.hw
               /\ Keeps(x, TimedOut(y, p), p) /\ TimedOut(y, p).fe = y.fe /\ TimedOut(y, p).hw = y.hw
               /\ p \in TimedOut(y, p).late
    <3>1. y = Device4(y.fe, y.hw, y.late, y.timeouts) /\ y.timeouts \in Nat
      BY <2>5, DeviceParts DEF Keeps
    <3>2. /\ InTime(y, p) = Device4(y.fe, y.hw, y.late \ {p}, y.timeouts)
          /\ TimedOut(y, p) = Device4(y.fe, y.hw, y.late \cup {p}, y.timeouts + 1)
      BY <3>1, AnswerFields
    <3>3. /\ InTime(y, p).fe = y.fe /\ InTime(y, p).hw = y.hw /\ InTime(y, p).late = y.late \ {p}
          /\ InTime(y, p).timeouts = y.timeouts
          /\ TimedOut(y, p).fe = y.fe /\ TimedOut(y, p).hw = y.hw /\ TimedOut(y, p).late = y.late \cup {p}
          /\ TimedOut(y, p).timeouts = y.timeouts + 1
      BY <3>2, DeviceFields
    <3>4. Keeps(x, InTime(y, p), p)
      BY <1>4, <2>5, <3>1, <3>2, <3>3, AnswerKeeps
    <3>9. y.timeouts + 1 \in Nat
      BY <3>1
    <3>5. Keeps(x, TimedOut(y, p), p)
      BY <1>4, <2>5, <3>1, <3>2, <3>3, <3>9, AnswerKeeps
    <3> QED BY <3>3, <3>4, <3>5
  <2>6. CASE r.x = InTime(full, p)
    BY <2>1, <2>3, <2>4, <2>5, <2>6 DEF CacheNames
  <2>7. CASE r.x = TimedOut(full, p)
    BY <2>1, <2>3, <2>4, <2>5, <2>7 DEF CacheNames
  <2>8. CASE r.x = TimedOut(x, p)
    BY <2>5, <2>8, KeepsAll
  <2> QED BY <1>4, <2>6, <2>7, <2>8
<1> HIDE DEF full, noop
<1> QED BY <1>1, <1>2, <1>3, <1>4 DEF LogicalPort

-----------------------------------------------------------------------------
(* sequences of setters *)

LEMMA LinkKeeps ==
  ASSUME NEW x, DeviceOK(x), Synced(x), NEW p \in Ports, NEW state \in DataPathStates,
         NEW speed, NEW version \in Versions, NEW y \in SetLink(x, p, state, speed, version)
  PROVE  /\ Keeps(x, y, p)
         /\ y.hw.led = x.hw.led
         /\ \A k \in {"power", "acq", "links"} : y.fe[k] = x.fe[k]
         /\ y.fe.state[p] = state /\ y.fe.lstate[x.fe.map[p]] = state
         /\ y.fe.version[x.fe.map[p]] = version
         /\ speed \notin Speeds \/ speed = x.fe.speed[p] =>
              y.fe.speed[p] = x.fe.speed[p] /\ y.hw.speed[p] = x.hw.speed[p]
         /\ speed \notin Speeds => y.late = x.late
         /\ speed \in Speeds /\ p \notin y.late =>
              y.fe.speed[p] = speed /\ y.fe.up[x.fe.map[p]] = UpOf(speed)
<1> DEFINE a == SetPortDataPathState(x, p, state)
           b == UNION {SetPortDataPathSpeed(r.x, p, speed) : r \in a}
<1>1. PICK r \in a : \E s \in SetPortDataPathSpeed(r.x, p, speed) :
               \E t \in SetPortStandardVersion(s.x, p, version) : y = t.x
  <2> DEFINE State == SetPortDataPathState(x, p, state)
  <2>1. y \in {r.x : r \in UNION {SetPortStandardVersion(r.x, p, version) : r \in b}}
    BY DEF SetLink
  <2> HIDE DEF a
  <2> QED BY <2>1
<1>2. PICK s \in SetPortDataPathSpeed(r.x, p, speed) :
        \E t \in SetPortStandardVersion(s.x, p, version) : y = t.x
  BY <1>1
<1>3. PICK t \in SetPortStandardVersion(s.x, p, version) : y = t.x
  BY <1>2
<1>4. /\ Keeps(x, r.x, p)
      /\ r.x.late = x.late /\ r.x.hw.led = x.hw.led /\ r.x.hw.speed = x.hw.speed
      /\ \A k \in {"power", "speed", "up", "version", "acq", "links"} : r.x.fe[k] = x.fe[k]
      /\ r.x.fe.state[p] = state /\ r.x.fe.lstate[x.fe.map[p]] = state
  BY DataPathKeeps
<1>5. DeviceOK(r.x) /\ Synced(r.x) /\ r.x.fe.map = x.fe.map
  BY <1>4 DEF Keeps
<1>6. /\ Keeps(r.x, s.x, p)
      /\ s.x.hw.led = r.x.hw.led
      /\ \A k \in CacheNames \ {"speed", "up"} : s.x.fe[k] = r.x.fe[k]
      /\ speed \notin Speeds \/ speed = r.x.fe.speed[p] =>
           s.x.fe.speed = r.x.fe.speed /\ s.x.hw.speed = r.x.hw.speed
      /\ speed \notin Speeds => s.x = r.x
      /\ speed \in Speeds /\ p \notin s.x.late =>
           s.x.fe.speed[p] = speed /\ s.x.fe.up[x.fe.map[p]] = UpOf(speed)
  BY <1>5, SpeedKeeps
<1>7. DeviceOK(s.x) /\ Synced(s.x) /\ s.x.fe.map = x.fe.map
  BY <1>5, <1>6 DEF Keeps
<1>8. /\ Keeps(s.x, y, p)
      /\ y.late = s.x.late /\ y.hw.led = s.x.hw.led /\ y.hw.speed = s.x.hw.speed
      /\ \A k \in CacheNames \ {"version"} : y.fe[k] = s.x.fe[k]
      /\ y.fe.version[x.fe.map[p]] = version
  BY <1>3, <1>7, VersionKeeps
<1>9. Keeps(x, y, p)
  BY <1>4, <1>6, <1>8, KeepsBoth
<1> QED BY <1>4, <1>6, <1>8, <1>9 DEF CacheNames

LEMMA CameraKeeps ==
  ASSUME NEW x, DeviceOK(x), Synced(x), NEW p \in Ports, NEW acq \in AcquisitionStates,
         NEW links, links \in 1 .. 4, NEW y \in SetCamera(x, p, acq, links)
  PROVE  /\ Keeps(x, y, p)
         /\ y.late = x.late /\ y.hw.led = x.hw.led /\ y.hw.speed = x.hw.speed
         /\ \A k \in CacheNames \ {"acq", "links"} : y.fe[k] = x.fe[k]
         /\ y.fe.acq[x.fe.map[p]] = acq
         /\ NumPorts # 1 => y.fe.links[x.fe.map[p]] = links
<1>1. PICK r \in SetPortAcquisitionState(x, p, acq) :
        \E s \in SetPortCameraDownscaling(r.x, p, links) : y = s.x
  BY DEF SetCamera
<1>2. PICK s \in SetPortCameraDownscaling(r.x, p, links) : y = s.x
  BY <1>1
<1>3. /\ Keeps(x, r.x, p)
      /\ r.x.late = x.late /\ r.x.hw.led = x.hw.led /\ r.x.hw.speed = x.hw.speed
      /\ \A k \in CacheNames \ {"acq"} : r.x.fe[k] = x.fe[k]
      /\ r.x.fe.acq[x.fe.map[p]] = acq
  BY AcquisitionKeeps
<1>4. DeviceOK(r.x) /\ Synced(r.x) /\ r.x.fe.map = x.fe.map
  BY <1>3 DEF Keeps
<1>5. /\ Keeps(r.x, y, p)
      /\ y.late = r.x.late /\ y.hw.led = r.x.hw.led /\ y.hw.speed = r.x.hw.speed
      /\ \A k \in CacheNames \ {"links"} : y.fe[k] = r.x.fe[k]
      /\ NumPorts # 1 => y.fe.links[x.fe.map[p]] = links
  BY <1>2, <1>4, DownscalingKeeps
<1>6. Keeps(x, y, p)
  BY <1>3, <1>5, KeepsBoth
<1> QED BY <1>3, <1>5, <1>6 DEF CacheNames

\* A port as cxp_reset_port leaves it.
Clean(x, p) ==
  LET l == x.fe.map[p]
  IN  /\ x.fe.state[p] = "INACTIVE" /\ x.fe.lstate[l] = "INACTIVE"
      /\ x.fe.version[l] = "1.1" /\ x.fe.acq[l] = "STOPPED" /\ x.fe.links[l] = 1
      /\ p \notin x.late => x.fe.speed[p] = 3125 /\ x.fe.up[l] = "LOW"

LEMMA CleanStays ==
  ASSUME NEW x, NEW y, NEW p, y.fe.map = x.fe.map, SamePort(x, y, p), Clean(x, p)
  PROVE  Clean(y, p)
BY DEF SamePort, SameConnector, SameCamera, SameLink, SameLate, Clean

LEMMA SettledStays ==
  ASSUME NEW x, NEW y, NEW p, y.fe.map = x.fe.map, SamePort(x, y, p), Settled(x, p)
  PROVE  Settled(y, p)
BY DEF SamePort, SameConnector, SameCamera, SameLink, SameLate, Settled

LEMMA CleanSettles ==
  ASSUME NEW x, NEW p, Clean(x, p)
  PROVE  Settled(x, p)
BY DEF Clean, Settled, UpOf, Speeds

LEMMA ResetPortCleans ==
  ASSUME NEW x, DeviceOK(x), Synced(x), NEW p \in Ports, NEW y \in ResetPort(x, p)
  PROVE  Keeps(x, y, p) /\ Clean(y, p)
<1> DEFINE l == x.fe.map[p]
<1>1. PICK a \in SetLink(x, p, "INACTIVE", 3125, "1.1") :
        \E b \in SetPortLedState(a, p, "POWERED") :
        \E c \in SetCamera(b.x, p, "STOPPED", 1) :
        \E d \in SetPortImageStreamId(c, p, -1) : y = d.x
  BY DEF ResetPort
<1>2. PICK b \in SetPortLedState(a, p, "POWERED") :
        \E c \in SetCamera(b.x, p, "STOPPED", 1) :
        \E d \in SetPortImageStreamId(c, p, -1) : y = d.x
  BY <1>1
<1>3. PICK c \in SetCamera(b.x, p, "STOPPED", 1) :
        \E d \in SetPortImageStreamId(c, p, -1) : y = d.x
  BY <1>2
<1>4. PICK d \in SetPortImageStreamId(c, p, -1) : y = d.x
  BY <1>3
<1>5. /\ Keeps(x, a, p)
      /\ a.fe.state[p] = "INACTIVE" /\ a.fe.lstate[l] = "INACTIVE" /\ a.fe.version[l] = "1.1"
      /\ p \notin a.late => a.fe.speed[p] = 3125 /\ a.fe.up[l] = "LOW"
  <2>1. /\ "INACTIVE" \in DataPathStates /\ "1.1" \in Versions /\ 3125 \in Speeds
        /\ UpOf(3125) = "LOW"
    BY DEF DataPathStates, Versions, Speeds, UpOf
  <2> QED BY <1>1, <2>1, LinkKeeps
<1>6. DeviceOK(a) /\ Synced(a) /\ a.fe.map = x.fe.map
  BY <1>5 DEF Keeps
<1>7. /\ Keeps(a, b.x, p) /\ b.x.late = a.late
      /\ \A k \in CacheNames \ {"led"} : b.x.fe[k] = a.fe[k]
  BY <1>6, LedKeeps
<1>8. DeviceOK(b.x) /\ Synced(b.x) /\ b.x.fe.map = x.fe.map
  BY <1>6, <1>7 DEF Keeps
<1>9. /\ Keeps(b.x, c, p) /\ c.late = b.x.late
      /\ \A k \in CacheNames \ {"acq", "links"} : c.fe[k] = b.x.fe[k]
      /\ c.fe.acq[l] = "STOPPED" /\ (NumPorts # 1 => c.fe.links[l] = 1)
  <2>1. "STOPPED" \in AcquisitionStates /\ 1 \in 1 .. 4
    BY DEF AcquisitionStates
  <2>2. /\ Keeps(b.x, c, p) /\ c.late = b.x.late
        /\ \A k \in CacheNames \ {"acq", "links"} : c.fe[k] = b.x.fe[k]
        /\ c.fe.acq[b.x.fe.map[p]] = "STOPPED"
        /\ NumPorts # 1 => c.fe.links[b.x.fe.map[p]] = 1
    BY <1>3, <1>8, <2>1, CameraKeeps
  <2> QED BY <1>8, <2>2
<1>10. DeviceOK(c) /\ Synced(c) /\ c.fe.map = x.fe.map
  BY <1>8, <1>9 DEF Keeps
<1>11. /\ Keeps(c, y, p) /\ y.late = c.late
       /\ \A k \in CacheNames \ {"stream"} : y.fe[k] = c.fe[k]
  BY <1>4, <1>10, StreamKeeps
<1>12. Keeps(x, y, p)
  BY <1>5, <1>7, <1>9, <1>11, KeepsBoth
<1>13. y.fe.links[l] = 1
  <2>1. CASE NumPorts # 1
    BY <1>9, <1>11, <2>1 DEF CacheNames
  <2>2. CASE NumPorts = 1
    <3>1. Ports = {0}
      BY <2>2 DEF Ports
    <3>2. l = 0
      <4>1. l \in Ports
        BY DeviceMap
      <4> QED BY <3>1, <4>1
    <3> QED BY <1>12, <2>2, <3>2 DEF Keeps, Synced
  <2> QED BY <2>1, <2>2
<1> QED BY <1>5, <1>7, <1>9, <1>11, <1>12, <1>13 DEF Clean, Keeps, CacheNames

-----------------------------------------------------------------------------
(* The loops over the ports.  A recursive function is the choice of one that *)
(* satisfies its equation: there is one, as a board has at most five ports.  *)

TableOf(h, a, b, c, d, e, f) ==
  /\ h = [n \in 0 .. NumPorts |-> h[n]]
  /\ h[0] = a /\ h[1] = b /\ (NumPorts >= 2 => h[2] = c)
  /\ NumPorts >= 3 => h[3] = d
  /\ NumPorts >= 4 => h[4] = e
  /\ NumPorts >= 5 => h[5] = f

LEMMA Table ==
  ASSUME NEW a, NEW b, NEW c, NEW d, NEW e, NEW f
  PROVE  \E h : TableOf(h, a, b, c, d, e, f)
<1> DEFINE h == [n \in 0 .. NumPorts |->
                   IF n = 0 THEN a ELSE IF n = 1 THEN b ELSE IF n = 2 THEN c
                   ELSE IF n = 3 THEN d ELSE IF n = 4 THEN e ELSE f]
<1>1. TableOf(h, a, b, c, d, e, f)
  BY CxpAssumption DEF TableOf
<1> QED BY <1>1

\* The loop of cxp_set_port_map, and that of cxp_reset.
RestoreAll(s, x, p) == UNION {RestorePort(z, x, p) : z \in s}
RestoreLoop(h, x, s) ==
  h = [n \in 0 .. NumPorts |-> IF n = 0 THEN s ELSE RestoreAll(h[n - 1], x, n - 1)]
ResetAll(s, p) == UNION {ResetPort(z, p) : z \in s}
ResetLoop(h, s) ==
  h = [n \in 0 .. NumPorts |-> IF n = 0 THEN s ELSE ResetAll(h[n - 1], n - 1)]
Remapped(x, map) == [x EXCEPT !.fe.map = map, !.hw.map = map]

LEMMA RestoreLoopExists ==
  ASSUME NEW x, NEW a
  PROVE  \E h : RestoreLoop(h, x, a)
<1> DEFINE b == RestoreAll(a, x, 0)
           c == RestoreAll(b, x, 1)
           d == RestoreAll(c, x, 2)
           e == RestoreAll(d, x, 3)
           f == RestoreAll(e, x, 4)
<1> HIDE DEF b, c, d, e, f
<1>1. PICK h : TableOf(h, a, b, c, d, e, f)
  BY Table
<1>2. ASSUME NEW n \in 1 .. NumPorts
      PROVE  h[n] = RestoreAll(h[n - 1], x, n - 1)
  <2> n \in 1 .. 5
    BY CxpAssumption
  <2>1. CASE n = 1
    <3>1. n - 1 = 0 /\ h[n] = b /\ h[n - 1] = a
      BY <2>1, <1>1 DEF TableOf
    <3> QED BY <3>1 DEF b
  <2>2. CASE n = 2
    BY <2>2, <1>1, CxpAssumption DEF c, TableOf
  <2>3. CASE n = 3
    BY <2>3, <1>1, CxpAssumption DEF d, TableOf
  <2>4. CASE n = 4
    BY <2>4, <1>1, CxpAssumption DEF e, TableOf
  <2>5. CASE n = 5
    BY <2>5, <1>1, CxpAssumption DEF f, TableOf
  <2> QED BY <2>1, <2>2, <2>3, <2>4, <2>5
<1>3. h = [n \in 0 .. NumPorts |-> h[n]] /\ h[0] = a
  BY <1>1 DEF TableOf
<1>4. RestoreLoop(h, x, a)
  <2> DEFINE F(n) == IF n = 0 THEN a ELSE RestoreAll(h[n - 1], x, n - 1)
  <2>1. ASSUME NEW n \in 0 .. NumPorts PROVE h[n] = F(n)
    <3>1. CASE n = 0
      BY <1>3, <3>1
    <3>2. CASE n # 0
      <4>1. n \in 1 .. NumPorts
        BY <3>2, CxpAssumption
      <4> QED BY <1>2, <3>2, <4>1
    <3> QED BY <3>1, <3>2
  <2> HIDE DEF F
  <2>2. h = [n \in 0 .. NumPorts |-> F(n)]
    BY <1>3, <2>1
  <2> QED BY <2>2 DEF F, RestoreLoop
<1> QED BY <1>4

LEMMA RemapUnfolds ==
  ASSUME NEW x, NEW map, map # x.fe.map, map \in PortMaps, x.fe.map # NoMap
  PROVE  \E g : /\ SetPortMap(x, map) = {Result(z, "OK") : z \in g[NumPorts]}
                /\ g[0] = {Remapped(x, map)}
                /\ \A n \in 1 .. NumPorts : g[n] = RestoreAll(g[n - 1], x, n - 1)
<1> DEFINE a == {Remapped(x, map)}
           g == CHOOSE h : RestoreLoop(h, x, a)
<1>1. SetPortMap(x, map) = {Result(z, "OK") : z \in g[NumPorts]}
  BY DEF SetPortMap, RestoreAll, RestoreLoop, Remapped
<1> HIDE DEF a
<1>2. RestoreLoop(g, x, a)
  BY RestoreLoopExists
<1> HIDE DEF g
<1>3. g[0] = a /\ \A n \in 1 .. NumPorts : g[n] = RestoreAll(g[n - 1], x, n - 1)
  BY <1>2, CxpAssumption DEF RestoreLoop
<1> QED BY <1>1, <1>3 DEF a

LEMMA ResetLoopExists ==
  ASSUME NEW a
  PROVE  \E h : ResetLoop(h, a)
<1> DEFINE b == ResetAll(a, 0)
           c == ResetAll(b, 1)
           d == ResetAll(c, 2)
           e == ResetAll(d, 3)
           f == ResetAll(e, 4)
<1> HIDE DEF b, c, d, e, f
<1>1. PICK h : TableOf(h, a, b, c, d, e, f)
  BY Table
<1>2. ASSUME NEW n \in 1 .. NumPorts
      PROVE  h[n] = ResetAll(h[n - 1], n - 1)
  <2> n \in 1 .. 5
    BY CxpAssumption
  <2>1. CASE n = 1
    <3>1. n - 1 = 0 /\ h[n] = b /\ h[n - 1] = a
      BY <2>1, <1>1 DEF TableOf
    <3> QED BY <3>1 DEF b
  <2>2. CASE n = 2
    BY <2>2, <1>1, CxpAssumption DEF c, TableOf
  <2>3. CASE n = 3
    BY <2>3, <1>1, CxpAssumption DEF d, TableOf
  <2>4. CASE n = 4
    BY <2>4, <1>1, CxpAssumption DEF e, TableOf
  <2>5. CASE n = 5
    BY <2>5, <1>1, CxpAssumption DEF f, TableOf
  <2> QED BY <2>1, <2>2, <2>3, <2>4, <2>5
<1>3. h = [n \in 0 .. NumPorts |-> h[n]] /\ h[0] = a
  BY <1>1 DEF TableOf
<1>4. ResetLoop(h, a)
  BY <1>2, <1>3 DEF ResetLoop
<1> QED BY <1>4

LEMMA ResetUnfolds ==
  ASSUME NEW x
  PROVE  \E g : /\ ResetFrontend(x) = g[NumPorts]
                /\ g[0] = {r.x : r \in SetPortMap(x, Identity)}
                /\ \A n \in 1 .. NumPorts : g[n] = ResetAll(g[n - 1], n - 1)
<1> DEFINE a == {r.x : r \in SetPortMap(x, Identity)}
           g == CHOOSE h : ResetLoop(h, a)
<1>1. ResetFrontend(x) = g[NumPorts]
  BY DEF ResetFrontend, ResetAll, ResetLoop
<1> HIDE DEF a
<1>2. ResetLoop(g, a)
  BY ResetLoopExists
<1> HIDE DEF g
<1>3. g[0] = a /\ \A n \in 1 .. NumPorts : g[n] = ResetAll(g[n - 1], n - 1)
  BY <1>2, CxpAssumption DEF ResetLoop
<1> QED BY <1>1, <1>3 DEF a

-----------------------------------------------------------------------------
(* A new port map.  x is the device before, z the one after the ports below *)
(* some n have been restored: these have moved, the others wait.            *)

LEMMA EveryLogicalPort ==
  ASSUME NEW f \in PortMaps, NEW l \in Ports
  PROVE  \E p \in Ports : f[p] = l
<1>1. IsFiniteSet(Ports)
  <2>1. 0 \in Int /\ NumPorts - 1 \in Int
    BY CxpAssumption
  <2> QED BY <2>1, FS_Interval DEF Ports
<1>2. f \in Injection(Ports, Ports)
  BY Fun_IsInj DEF PortMaps
<1>3. f \in Surjection(Ports, Ports)
  BY <1>1, <1>2, FS_Injection
<1> QED BY <1>3 DEF Surjection

Waits(x, z, p) ==
  /\ SameConnector(x, z, p) /\ SameLate(x, z, p)
  /\ x.fe.map[p] = z.fe.map[p] => SameCamera(x, z, p) /\ SameLink(x, z, p)

Moved(x, z, p) ==
  LET old == x.fe.map[p] new == z.fe.map[p]
  IN  /\ SameConnector(x, z, p)
      /\ z.fe.lstate[new] = x.fe.state[p] /\ z.fe.version[new] = x.fe.version[old]
      /\ z.fe.acq[new] = x.fe.acq[old] /\ z.fe.links[new] = x.fe.links[old]
      /\ p \notin z.late =>
           x.fe.speed[p] \in Speeds /\ z.fe.up[new] = UpOf(x.fe.speed[p])

LEMMA WaitsOn ==
  ASSUME NEW x, NEW z, NEW w, NEW p, w.fe.map = z.fe.map, SamePort(z, w, p), Waits(x, z, p)
  PROVE  Waits(x, w, p)
BY DEF Waits, SamePort, SameConnector, SameCamera, SameLink, SameLate

LEMMA MovedStays ==
  ASSUME NEW x, NEW z, NEW w, NEW p, w.fe.map = z.fe.map, SamePort(z, w, p), Moved(x, z, p)
  PROVE  Moved(x, w, p)
BY DEF Moved, SamePort, SameConnector, SameCamera, SameLink, SameLate

LEMMA MovedSettles ==
  ASSUME NEW x, NEW z, NEW p, Settled(x, p), Moved(x, z, p)
  PROVE  Settled(z, p)
BY DEF Moved, Settled, SameConnector

LEMMA UnmovedMoves ==
  ASSUME NEW x, NEW z, NEW p, Settled(x, p), Waits(x, z, p), x.fe.map[p] = z.fe.map[p]
  PROVE  Moved(x, z, p)
BY DEF Moved, Waits, Settled, SameConnector, SameCamera, SameLink, SameLate

LEMMA RestoreMoves ==
  ASSUME NEW x, DeviceOK(x), NEW p \in Ports, Settled(x, p),
         NEW z, DeviceOK(z), Synced(z), Waits(x, z, p), NEW w \in RestorePort(z, x, p)
  PROVE  Keeps(z, w, p) /\ Moved(x, w, p)
<1> DEFINE old == x.fe.map[p]
           new == z.fe.map[p]
<1>1. CASE old = new
  <2>1. w = z
    BY <1>1 DEF RestorePort
  <2> QED BY <1>1, <2>1, KeepsAll, UnmovedMoves
<1>2. CASE old # new
  <2>0. old \in Ports /\ new \in Ports /\ NumPorts # 1
    <3>1. old \in Ports /\ new \in Ports
      BY DeviceMap
    <3>2. NumPorts = 1 => Ports = {0}
      BY DEF Ports
    <3> QED BY <1>2, <3>1, <3>2
  <2>1. /\ x.fe.state[p] \in DataPathStates /\ x.fe.version[old] \in Versions
        /\ x.fe.acq[old] \in AcquisitionStates /\ x.fe.links[old] \in 1 .. 4
    <3>1. x.fe \in Caches
      BY DeviceParts
    <3>2. /\ x.fe.state[p] \in Unset \cup DataPathStates /\ x.fe.version[old] \in Unset \cup Versions
          /\ x.fe.acq[old] \in Unset \cup AcquisitionStates /\ x.fe.links[old] \in 1 .. 4
      BY <2>0, <3>1 DEF Caches
    <3> QED BY <3>2 DEF Unset, Settled
  <2> DEFINE a == SetLink(z, p, x.fe.state[p], x.fe.speed[p], x.fe.version[old])
  <2>2. PICK y \in a : w \in SetCamera(y, p, x.fe.acq[old], x.fe.links[old])
    BY <1>2 DEF RestorePort
  <2> DEFINE speed == x.fe.speed[p]
  <2>3. /\ Keeps(z, y, p) /\ y.hw.led = z.hw.led
        /\ y.fe.power[p] = z.fe.power[p]
        /\ y.fe.state[p] = x.fe.state[p] /\ y.fe.lstate[new] = x.fe.state[p]
        /\ y.fe.version[new] = x.fe.version[old]
        /\ speed = z.fe.speed[p] => y.fe.speed[p] = z.fe.speed[p] /\ y.hw.speed[p] = z.hw.speed[p]
        /\ speed \notin Speeds => y.late = z.late
        /\ speed \in Speeds /\ p \notin y.late => y.fe.up[new] = UpOf(speed)
    <3> HIDE DEF speed
    <3>1. y \in SetLink(z, p, x.fe.state[p], speed, x.fe.version[old])
      BY DEF speed
    <3>2. /\ Keeps(z, y, p) /\ y.hw.led = z.hw.led
          /\ \A k \in {"power", "acq", "links"} : y.fe[k] = z.fe[k]
          /\ y.fe.state[p] = x.fe.state[p] /\ y.fe.lstate[new] = x.fe.state[p]
          /\ y.fe.version[new] = x.fe.version[old]
          /\ speed = z.fe.speed[p] => y.fe.speed[p] = z.fe.speed[p] /\ y.hw.speed[p] = z.hw.speed[p]
          /\ speed \notin Speeds => y.late = z.late
          /\ speed \in Speeds /\ p \notin y.late => y.fe.up[new] = UpOf(speed)
      BY <2>1, <3>1, LinkKeeps
    <3> QED BY <3>2
  <2>4. DeviceOK(y) /\ Synced(y) /\ y.fe.map = z.fe.map
    BY <2>3 DEF Keeps
  <2>5. /\ Keeps(y, w, p) /\ w.late = y.late /\ w.hw.led = y.hw.led /\ w.hw.speed = y.hw.speed
        /\ \A k \in CacheNames \ {"acq", "links"} : w.fe[k] = y.fe[k]
        /\ w.fe.acq[new] = x.fe.acq[old] /\ w.fe.links[new] = x.fe.links[old]
    <3> DEFINE acq == x.fe.acq[old]
               links == x.fe.links[old]
    <3>1. w \in SetCamera(y, p, acq, links) /\ acq \in AcquisitionStates /\ links \in 1 .. 4
      BY <2>1, <2>2
    <3> HIDE DEF acq, links
    <3>2. /\ Keeps(y, w, p) /\ w.late = y.late /\ w.hw.led = y.hw.led /\ w.hw.speed = y.hw.speed
          /\ \A k \in CacheNames \ {"acq", "links"} : w.fe[k] = y.fe[k]
          /\ w.fe.acq[y.fe.map[p]] = acq
          /\ NumPorts # 1 => w.fe.links[y.fe.map[p]] = links
      BY <2>4, <3>1, CameraKeeps
    <3> QED BY <2>0, <2>4, <3>2 DEF acq, links
  <2>6. Keeps(z, w, p) /\ w.fe.map = z.fe.map
    BY <2>3, <2>5, KeepsBoth DEF Keeps
  <2>7. SameConnector(x, w, p)
    BY <2>3, <2>5 DEF SameConnector, Waits, CacheNames
  <2>8. p \notin w.late => speed \in Speeds /\ w.fe.up[new] = UpOf(speed)
    <3>1. speed \notin Speeds => p \in x.late
      BY DEF Settled
    <3> QED BY <2>3, <2>5, <3>1 DEF Waits, SameLate, CacheNames
  <2> QED BY <2>3, <2>5, <2>6, <2>7, <2>8 DEF Moved, CacheNames
<1> QED BY <1>1, <1>2

LEMMA RemappedWaits ==
  ASSUME NEW x, DeviceOK(x), Synced(x), \A p \in Ports : Settled(x, p), NEW map \in PortMaps,
         NEW y, y = Remapped(x, map)
  PROVE  /\ DeviceOK(y) /\ Synced(y) /\ y.fe.map = map
         /\ \A p \in Ports : Waits(x, y, p)
<1> DEFINE f == [x.fe EXCEPT !.map = map]
           h == [x.hw EXCEPT !.map = map]
<1>0. x.fe \in Caches /\ RegistersOK(x.hw)
  BY DeviceParts
<1>1. y = Device4(f, h, x.late, x.timeouts)
  <2>1. y = [x EXCEPT !.fe = f, !.hw = h]
    BY DEF Remapped
  <2>2. x = Device4(x.fe, x.hw, x.late, x.timeouts)
    BY DeviceParts
  <2> HIDE DEF f, h
  <2> QED BY <2>1, <2>2 DEF Device4
<1>2. f \in Caches /\ f.map = map /\ \A k \in CacheNames \ {"map"} : f[k] = x.fe[k]
  BY <1>0 DEF Caches, CacheNames
<1>3. RegistersOK(h) /\ h.map = map /\ \A k \in RegisterNames \ {"map"} : h[k] = x.hw[k]
  BY <1>0 DEF RegistersOK, RegisterNames
<1> HIDE DEF f, h
<1>4. DeviceOK(y)
  BY <1>1, <1>2, <1>3, DeviceParts, DeviceMade
<1>5. y.fe = f /\ y.hw = h /\ y.late = x.late
  BY <1>1, DeviceFields
<1>6. \A l \in Ports : x.hw.host[l] = HostReset(x.fe.lstate[l])
  <2> SUFFICES ASSUME NEW l \in Ports PROVE x.hw.host[l] = HostReset(x.fe.lstate[l])
    OBVIOUS
  <2>1. PICK p \in Ports : x.fe.map[p] = l
    BY DeviceMap, EveryLogicalPort
  <2>2. PhysicalPort(x.fe.map, l) = p
    BY <2>1, DeviceMap, Phys
  <2> QED BY <2>1, <2>2 DEF Synced, Settled, StateOfLogical
<1>7. Synced(y)
  <2> DEFINE g == x.fe
  <2>1. /\ \A k \in {"power", "state", "lstate", "speed", "up", "version", "acq", "links"} : f[k] = g[k]
        /\ \A k \in RegisterNames \ {"map"} : h[k] = x.hw[k]
    BY <1>2, <1>3 DEF CacheNames
  <2>2. h.map = f.map /\ \A l \in Ports : h.host[l] = HostReset(f.lstate[l])
    BY <1>2, <1>3, <1>6, <2>1 DEF RegisterNames
  <2> QED BY <1>5, <2>1, <2>2 DEF Synced, RegisterNames
<1>8. \A p \in Ports : Waits(x, y, p)
  BY <1>2, <1>3, <1>5
  DEF Waits, SameConnector, SameCamera, SameLink, SameLate, CacheNames, RegisterNames
<1> QED BY <1>2, <1>4, <1>5, <1>7, <1>8

LEMMA RemapMoves ==
  ASSUME NEW x, DeviceOK(x), Synced(x), \A p \in Ports : Settled(x, p), NEW map,
         NEW r \in SetPortMap(x, map)
  PROVE  /\ DeviceOK(r.x) /\ Synced(r.x)
         /\ \A p \in Ports : Settled(r.x, p) /\ Moved(x, r.x, p)
         /\ map \in PortMaps => r.x.fe.map = map
<1>0. x.fe.map \in PortMaps
  BY DeviceMap
<1>1. CASE r.x = x /\ (map \in PortMaps => x.fe.map = map)
  <2>1. \A p \in Ports : Waits(x, x, p)
    BY DEF Waits, SameConnector, SameCamera, SameLink, SameLate
  <2> QED BY <1>1, <2>1, UnmovedMoves
<1>2. CASE map # x.fe.map /\ map \in PortMaps
  <2>1. x.fe.map # NoMap
    <3>1. DOMAIN x.fe.map = Ports /\ DOMAIN NoMap = {}
      BY <1>0 DEF PortMaps, NoMap
    <3> QED BY <3>1, Port
  <2>2. PICK g : /\ SetPortMap(x, map) = {Result(z, "OK") : z \in g[NumPorts]}
                 /\ g[0] = {Remapped(x, map)}
                 /\ \A n \in 1 .. NumPorts : g[n] = RestoreAll(g[n - 1], x, n - 1)
    BY <1>2, <2>1, RemapUnfolds
  <2> DEFINE Loop(n) == \A z \in g[n] :
               /\ DeviceOK(z) /\ Synced(z) /\ z.fe.map = map
               /\ \A p \in Ports : IF p < n THEN Moved(x, z, p) ELSE Waits(x, z, p)
  <2>3. Loop(0)
    <3> SUFFICES ASSUME NEW z \in g[0]
                 PROVE  /\ DeviceOK(z) /\ Synced(z) /\ z.fe.map = map
                        /\ \A p \in Ports : Waits(x, z, p)
      BY DEF Ports
    <3>1. z = Remapped(x, map)
      BY <2>2
    <3> QED BY <1>2, <3>1, RemappedWaits
  <2>4. ASSUME NEW n \in 1 .. NumPorts, Loop(n - 1)
        PROVE  Loop(n)
    <3> SUFFICES ASSUME NEW w \in g[n]
                 PROVE  /\ DeviceOK(w) /\ Synced(w) /\ w.fe.map = map
                        /\ \A p \in Ports : IF p < n THEN Moved(x, w, p) ELSE Waits(x, w, p)
      OBVIOUS
    <3> DEFINE q == n - 1
    <3>0. q \in Ports
      BY CxpAssumption DEF Ports
    <3>1. PICK z \in g[n - 1] : w \in RestorePort(z, x, q)
      BY <2>2 DEF RestoreAll
    <3>2. /\ DeviceOK(z) /\ Synced(z) /\ z.fe.map = map
          /\ \A p \in Ports : IF p < q THEN Moved(x, z, p) ELSE Waits(x, z, p)
      BY <2>4
    <3>3. Waits(x, z, q)
      BY <3>0, <3>2, Port
    <3> HIDE DEF q
    <3>4. Keeps(z, w, q) /\ Moved(x, w, q)
      BY <3>0, <3>1, <3>2, <3>3, RestoreMoves
    <3>5. DeviceOK(w) /\ Synced(w) /\ w.fe.map = z.fe.map /\ \A p \in Ports \ {q} : SamePort(z, w, p)
      BY <3>4 DEF Keeps
    <3>6. ASSUME NEW p \in Ports PROVE IF p < n THEN Moved(x, w, p) ELSE Waits(x, w, p)
      <4>1. CASE p = q
        BY <3>4, <4>1 DEF q
      <4>2. CASE p < q
        <5>1. Moved(x, w, p)
          BY <3>2, <3>5, <4>2, MovedStays, Port
        <5> QED BY <4>2, <5>1, Port DEF q
      <4>3. CASE p > q
        <5>1. Waits(x, w, p)
          BY <3>0, <3>2, <3>5, <4>3, WaitsOn, Port
        <5> QED BY <4>3, <5>1, Port DEF q
      <4> QED BY <3>0, <4>1, <4>2, <4>3, Port
    <3> QED BY <3>2, <3>5, <3>6
  <2> HIDE DEF Loop
  <2>5. Loop(NumPorts)
    <3>1. 1 <= NumPorts => Loop(1)
      <4>1. 1 - 1 = 0 /\ 1 \in 1 .. NumPorts
        BY CxpAssumption
      <4> QED BY <2>3, <2>4, <4>1
    <3>2. ASSUME 2 <= NumPorts PROVE Loop(2)
      <4>1. 2 - 1 = 1 /\ 2 \in 1 .. NumPorts
        BY <3>2, CxpAssumption
      <4> QED BY <2>4, <3>1, <4>1, CxpAssumption
    <3>3. ASSUME 3 <= NumPorts PROVE Loop(3)
      <4>1. 3 - 1 = 2 /\ 3 \in 1 .. NumPorts /\ 2 <= NumPorts
        BY <3>3, CxpAssumption
      <4> QED BY <2>4, <3>2, <4>1
    <3>4. ASSUME 4 <= NumPorts PROVE Loop(4)
      <4>1. 4 - 1 = 3 /\ 4 \in 1 .. NumPorts /\ 3 <= NumPorts
        BY <3>4, CxpAssumption
      <4> QED BY <2>4, <3>3, <4>1
    <3>5. ASSUME 5 <= NumPorts PROVE Loop(5)
      <4>1. 5 - 1 = 4 /\ 5 \in 1 .. NumPorts /\ 4 <= NumPorts
        BY <3>5, CxpAssumption
      <4> QED BY <2>4, <3>4, <4>1
    <3> QED BY <3>1, <3>2, <3>3, <3>4, <3>5, CxpAssumption
  <2>6. r.x \in g[NumPorts]
    BY <2>2 DEF Result
  <2>7. /\ DeviceOK(r.x) /\ Synced(r.x) /\ r.x.fe.map = map
        /\ \A p \in Ports : Moved(x, r.x, p)
    BY <2>5, <2>6, CxpAssumption DEF Loop, Ports
  <2> QED BY <2>7, MovedSettles
<1>3. (r.x = x /\ (map \in PortMaps => x.fe.map = map)) \/ (map # x.fe.map /\ map \in PortMaps)
  <2>1. CASE map = x.fe.map
    BY <2>1 DEF SetPortMap, Result
  <2>2. CASE map # x.fe.map /\ map \notin PortMaps
    BY <2>2 DEF SetPortMap, Result
  <2> QED BY <2>1, <2>2
<1> QED BY <1>1, <1>2, <1>3

-----------------------------------------------------------------------------
(* reset *)

LEMMA ResetCleans ==
  ASSUME NEW x,
         \A r \in SetPortMap(x, Identity) : DeviceOK(r.x) /\ Synced(r.x) /\ r.x.fe.map = Identity,
         NEW y \in ResetFrontend(x)
  PROVE  DeviceOK(y) /\ Synced(y) /\ y.fe.map = Identity /\ \A p \in Ports : Clean(y, p)
<1>1. PICK g : /\ ResetFrontend(x) = g[NumPorts]
               /\ g[0] = {r.x : r \in SetPortMap(x, Identity)}
               /\ \A n \in 1 .. NumPorts : g[n] = ResetAll(g[n - 1], n - 1)
  BY ResetUnfolds
<1> DEFINE Loop(n) == \A z \in g[n] :
             /\ DeviceOK(z) /\ Synced(z) /\ z.fe.map = Identity
             /\ \A p \in Ports : p < n => Clean(z, p)
<1>2. Loop(0)
  BY <1>1 DEF Ports
<1>3. ASSUME NEW n \in 1 .. NumPorts, Loop(n - 1)
      PROVE  Loop(n)
  <2> SUFFICES ASSUME NEW w \in g[n]
               PROVE  /\ DeviceOK(w) /\ Synced(w) /\ w.fe.map = Identity
                      /\ \A p \in Ports : p < n => Clean(w, p)
    OBVIOUS
  <2> DEFINE q == n - 1
  <2>0. q \in Ports
    BY CxpAssumption DEF Ports
  <2>1. PICK z \in g[n - 1] : w \in ResetPort(z, q)
    BY <1>1 DEF ResetAll
  <2>2. /\ DeviceOK(z) /\ Synced(z) /\ z.fe.map = Identity
        /\ \A p \in Ports : p < q => Clean(z, p)
    BY <1>3
  <2> HIDE DEF q
  <2>3. Keeps(z, w, q) /\ Clean(w, q)
    BY <2>0, <2>1, <2>2, ResetPortCleans
  <2>4. DeviceOK(w) /\ Synced(w) /\ w.fe.map = z.fe.map /\ \A p \in Ports \ {q} : SamePort(z, w, p)
    BY <2>3 DEF Keeps
  <2>5. ASSUME NEW p \in Ports, p < n PROVE Clean(w, p)
    <3>1. CASE p = q
      BY <2>3, <3>1
    <3>2. CASE p < q
      BY <2>2, <2>4, <3>2, CleanStays, Port
    <3>3. p = q \/ p < q
      BY <2>5, Port DEF q
    <3> QED BY <3>1, <3>2, <3>3
  <2> QED BY <2>2, <2>4, <2>5
<1> HIDE DEF Loop
<1>4. Loop(NumPorts)
  <2>1. Loop(1)
    <3>1. 1 - 1 = 0 /\ 1 \in 1 .. NumPorts
      BY CxpAssumption
    <3> QED BY <1>2, <1>3, <3>1
  <2>2. ASSUME 2 <= NumPorts PROVE Loop(2)
    <3>1. 2 - 1 = 1 /\ 2 \in 1 .. NumPorts
      BY <2>2, CxpAssumption
    <3> QED BY <1>3, <2>1, <3>1
  <2>3. ASSUME 3 <= NumPorts PROVE Loop(3)
    <3>1. 3 - 1 = 2 /\ 3 \in 1 .. NumPorts /\ 2 <= NumPorts
      BY <2>3, CxpAssumption
    <3> QED BY <1>3, <2>2, <3>1
  <2>4. ASSUME 4 <= NumPorts PROVE Loop(4)
    <3>1. 4 - 1 = 3 /\ 4 \in 1 .. NumPorts /\ 3 <= NumPorts
      BY <2>4, CxpAssumption
    <3> QED BY <1>3, <2>3, <3>1
  <2>5. ASSUME 5 <= NumPorts PROVE Loop(5)
    <3>1. 5 - 1 = 4 /\ 5 \in 1 .. NumPorts /\ 4 <= NumPorts
      BY <2>5, CxpAssumption
    <3> QED BY <1>3, <2>4, <3>1
  <2> QED BY <2>1, <2>2, <2>3, <2>4, <2>5, CxpAssumption
<1>5. y \in g[NumPorts] /\ \A p \in Ports : p < NumPorts
  BY <1>1, CxpAssumption DEF Ports
<1> QED BY <1>4, <1>5 DEF Loop

LEMMA IdentityIsMap == Identity \in PortMaps /\ Identity # NoMap /\ \A p \in Ports : Identity[p] = p
<1>1. Identity \in PortMaps /\ \A p \in Ports : Identity[p] = p
  BY DEF Identity, PortMaps
<1>2. DOMAIN Identity = Ports /\ DOMAIN NoMap = {}
  BY DEF Identity, NoMap
<1> QED BY <1>1, <1>2, Port

\* The first command of a driver that has just been loaded: nothing is cached, and the
\* registers hold whatever they were left with, but for the links.
FreshDevice(h, a, t) == Device4(FreshCaches, h, a, t)

LEMMA FreshRemap ==
  ASSUME NEW h, RegistersOK(h), h.links = All(1), NEW a \in SUBSET Ports, NEW t \in Nat,
         NEW x, x = FreshDevice(h, a, t), NEW r \in SetPortMap(x, Identity)
  PROVE  DeviceOK(r.x) /\ Synced(r.x) /\ r.x.fe.map = Identity
<1> DEFINE f == [FreshCaches EXCEPT !.map = Identity]
           g == [h EXCEPT !.map = Identity]
<1>0. x.fe = FreshCaches /\ x.hw = h /\ x.late = a /\ x.timeouts = t
  BY DeviceFields DEF FreshDevice
<1>1. x.fe.map = NoMap
  BY <1>0 DEF FreshCaches
<1>2. r.x = Remapped(x, Identity)
  <2>1. Identity # x.fe.map /\ Identity \in PortMaps
    BY <1>1, IdentityIsMap
  <2> DEFINE y == [x EXCEPT !.fe.map = Identity, !.hw.map = Identity]
  <2>2. SetPortMap(x, Identity) = {Result(z, "OK") : z \in {y}}
    <3> HIDE DEF y
    <3> QED BY <1>1, <2>1 DEF SetPortMap, y
  <2> HIDE DEF y
  <2>3. r.x = y
    BY <2>2 DEF Result
  <2> QED BY <2>3 DEF y, Remapped
<1>3. r.x = Device4(f, g, a, t)
  <2>1. Remapped(x, Identity) = [x EXCEPT !.fe = f, !.hw = g]
    BY <1>0 DEF Remapped
  <2>2. x = Device4(FreshCaches, h, a, t)
    BY DEF FreshDevice
  <2> HIDE DEF f, g
  <2>3. [x EXCEPT !.fe = f] = Device4(f, h, a, t)
    BY <2>2 DEF Device4
  <2>4. [Device4(f, h, a, t) EXCEPT !.hw = g] = Device4(f, g, a, t)
    BY DEF Device4
  <2>5. [x EXCEPT !.fe = f, !.hw = g] = [[x EXCEPT !.fe = f] EXCEPT !.hw = g]
    OBVIOUS
  <2> QED BY <1>2, <2>1, <2>3, <2>4, <2>5
<1>4. /\ f \in Caches /\ f.map = Identity
      /\ \A k \in CacheNames \ {"map"} : f[k] = FreshCaches[k]
  <2>1. /\ All("UNKNOWN") \in [Ports -> Unset \cup PowerStates]
        /\ All("UNKNOWN") \in [Ports -> Unset \cup DataPathStates]
        /\ All("UNKNOWN") \in [Ports -> Unset \cup {"LOW", "HIGH"}]
        /\ All("UNKNOWN") \in [Ports -> Unset \cup Versions]
        /\ All("UNKNOWN") \in [Ports -> Unset \cup LedStates]
        /\ All("UNKNOWN") \in [Ports -> Unset \cup AcquisitionStates]
        /\ All(0) \in [Ports -> {0} \cup Speeds]
        /\ All(1) \in [Ports -> 1 .. 4]
        /\ All(-1) \in [Ports -> -1 .. 255]
    BY DEF All, Unset
  <2>2. /\ FreshCaches.loaded = TRUE
        /\ \A k \in {"power", "state", "lstate", "up", "version", "led", "acq"} :
             FreshCaches[k] = All("UNKNOWN")
        /\ FreshCaches.speed = All(0) /\ FreshCaches.links = All(1) /\ FreshCaches.stream = All(-1)
    BY DEF FreshCaches
  <2>3. FreshCaches = [k \in CacheNames |-> FreshCaches[k]]
    BY DEF FreshCaches, CacheNames
  <2> HIDE DEF FreshCaches
  <2>4. /\ f = [k \in CacheNames |-> f[k]]
        /\ f.map = Identity
        /\ \A k \in CacheNames \ {"map"} : f[k] = FreshCaches[k]
    BY <2>3 DEF CacheNames
  <2> HIDE DEF f
  <2>5. f \in Caches
    <3>1. /\ f.loaded \in {TRUE} /\ f.map \in PortMaps
          /\ f.power \in [Ports -> Unset \cup PowerStates]
          /\ f.state \in [Ports -> Unset \cup DataPathStates]
          /\ f.lstate \in [Ports -> Unset \cup DataPathStates]
          /\ f.speed \in [Ports -> {0} \cup Speeds]
          /\ f.up \in [Ports -> Unset \cup {"LOW", "HIGH"}]
          /\ f.version \in [Ports -> Unset \cup Versions]
          /\ f.led \in [Ports -> Unset \cup LedStates]
          /\ f.acq \in [Ports -> Unset \cup AcquisitionStates]
          /\ f.links \in [Ports -> 1 .. 4] /\ f.stream \in [Ports -> -1 .. 255]
      <4>1. /\ f.loaded = TRUE /\ f.map \in PortMaps
            /\ f.power = All("UNKNOWN") /\ f.state = All("UNKNOWN") /\ f.lstate = All("UNKNOWN")
            /\ f.up = All("UNKNOWN") /\ f.version = All("UNKNOWN") /\ f.led = All("UNKNOWN")
            /\ f.acq = All("UNKNOWN") /\ f.speed = All(0) /\ f.links = All(1)
            /\ f.stream = All(-1)
        BY <2>2, <2>4, IdentityIsMap DEF CacheNames
      <4> QED BY <2>1, <4>1
    <3>2. f = [loaded |-> f.loaded, map |-> f.map, power |-> f.power, state |-> f.state,
               lstate |-> f.lstate, speed |-> f.speed, up |-> f.up, version |-> f.version,
               led |-> f.led, acq |-> f.acq, links |-> f.links, stream |-> f.stream]
      BY <2>4 DEF CacheNames
    <3> QED BY <3>1, <3>2 DEF Caches
  <2> QED BY <2>4, <2>5
<1>5. RegistersOK(g) /\ g.map = Identity /\ g.links = h.links
  BY IdentityIsMap DEF RegistersOK
<1> HIDE DEF f, g
<1>6. DeviceOK(r.x)
  BY <1>3, <1>4, <1>5, DeviceMade
<1>7. r.x.fe = f /\ r.x.hw = g
  BY <1>3, DeviceFields
<1>8. /\ \A p \in Ports : /\ f.power[p] = "UNKNOWN" /\ f.state[p] = "UNKNOWN"
                          /\ f.lstate[p] = "UNKNOWN" /\ f.speed[p] = 0
                          /\ f.version[p] = "UNKNOWN" /\ f.acq[p] = "UNKNOWN"
      /\ f.links = All(1)
  BY <1>4 DEF FreshCaches, CacheNames, All
<1>9. g.links = Downscale(f.links) /\ f.links[0] = 1
  BY <1>5, <1>8, Port DEF All, Downscale
<1>10. Synced(r.x)
  BY <1>4, <1>5, <1>7, <1>8, <1>9 DEF Synced
<1> QED BY <1>4, <1>6, <1>7, <1>10

-----------------------------------------------------------------------------
(* the commands *)

\* A device that has been reset, and its state after any number of commands.
Ready(x) == DeviceOK(x) /\ Synced(x) /\ \A p \in Ports : Settled(x, p)

LEMMA ReadyStays ==
  ASSUME NEW x, Ready(x), NEW y, NEW p, Keeps(x, y, p), p \in Ports => Settled(y, p)
  PROVE  Ready(y)
<1>1. DeviceOK(y) /\ Synced(y) /\ y.fe.map = x.fe.map /\ \A q \in Ports \ {p} : SamePort(x, y, q)
  BY DEF Keeps
<1>2. \A q \in Ports \ {p} : Settled(y, q)
  BY <1>1, SettledStays DEF Ready
<1> QED BY <1>1, <1>2 DEF Ready

LEMMA ReadyRemap ==
  ASSUME NEW x, Ready(x), NEW r \in SetPortMap(x, Identity)
  PROVE  DeviceOK(r.x) /\ Synced(r.x) /\ r.x.fe.map = Identity
BY RemapMoves, IdentityIsMap DEF Ready

LEMMA ReadyReset ==
  ASSUME NEW x, Ready(x), NEW y \in ResetFrontend(x)
  PROVE  Ready(y) /\ y.fe.map = Identity /\ \A p \in Ports : Clean(y, p)
<1>1. DeviceOK(y) /\ Synced(y) /\ y.fe.map = Identity /\ \A p \in Ports : Clean(y, p)
  BY ReadyRemap, ResetCleans
<1> QED BY <1>1, CleanSettles DEF Ready

\* A command for one port.
LEMMA PortCommand ==
  ASSUME NEW x, Ready(x), NEW p, NEW v,
         NEW r \in SetPortPowerState(x, p, v) \cup SetPortDataPathState(x, p, v)
                   \cup SetPortDataPathSpeed(x, p, v) \cup SetPortStandardVersion(x, p, v)
                   \cup SetPortLedState(x, p, v) \cup SetPortAcquisitionState(x, p, v)
                   \cup SetPortCameraDownscaling(x, p, v) \cup SetPortImageStreamId(x, p, v)
  PROVE  Ready(r.x) /\ Keeps(x, r.x, p)
<1>0. DeviceOK(x) /\ Synced(x) /\ (p \in Ports => Settled(x, p))
  BY DEF Ready
<1> USE DEF CacheNames
<1> DEFINE Goal == Keeps(x, r.x, p) /\ (p \in Ports => Settled(r.x, p))
<1>1. CASE r \in SetPortPowerState(x, p, v)
  <2>1. Keeps(x, r.x, p) /\ r.x.late = x.late /\ \A k \in CacheNames \ {"power"} : r.x.fe[k] = x.fe[k]
    BY <1>0, <1>1, PowerKeeps
  <2> QED BY <1>0, <2>1, ReadyStays DEF Settled
<1>2. CASE r \in SetPortDataPathState(x, p, v)
  <2>1. /\ Keeps(x, r.x, p) /\ r.x.late = x.late
        /\ \A k \in {"power", "speed", "up", "version", "acq", "links"} : r.x.fe[k] = x.fe[k]
        /\ ~(p \in Ports /\ v \in DataPathStates) => r.x = x
        /\ p \in Ports /\ v \in DataPathStates =>
             r.x.fe.state[p] = v /\ r.x.fe.lstate[x.fe.map[p]] = v
    BY <1>0, <1>2, DataPathKeeps
  <2>2. r.x.fe.map = x.fe.map /\ "UNKNOWN" \notin DataPathStates
    BY <2>1 DEF Keeps, DataPathStates
  <2>3. p \in Ports => Settled(r.x, p)
    BY <1>0, <2>1, <2>2 DEF Settled
  <2> QED BY <2>1, <2>3, ReadyStays
<1>3. CASE r \in SetPortDataPathSpeed(x, p, v)
  <2>1. /\ Keeps(x, r.x, p)
        /\ \A k \in CacheNames \ {"speed", "up"} : r.x.fe[k] = x.fe[k]
        /\ ~(p \in Ports /\ v \in Speeds) => r.x = x
        /\ p \in Ports /\ v \in Speeds /\ p \notin r.x.late =>
             r.x.fe.speed[p] = v /\ r.x.fe.up[x.fe.map[p]] = UpOf(v)
    BY <1>0, <1>3, SpeedKeeps
  <2>2. p \in Ports => Settled(r.x, p)
    BY <1>0, <2>1 DEF Settled
  <2> QED BY <2>1, <2>2, ReadyStays
<1>4. CASE r \in SetPortStandardVersion(x, p, v)
  <2>1. /\ Keeps(x, r.x, p) /\ r.x.late = x.late
        /\ \A k \in CacheNames \ {"version"} : r.x.fe[k] = x.fe[k]
        /\ ~(p \in Ports /\ v \in Versions) => r.x = x
        /\ p \in Ports /\ v \in Versions => r.x.fe.version[x.fe.map[p]] = v
    BY <1>0, <1>4, VersionKeeps
  <2>2. "UNKNOWN" \notin Versions
    BY DEF Versions
  <2>3. p \in Ports => Settled(r.x, p)
    BY <1>0, <2>1, <2>2 DEF Settled
  <2> QED BY <2>1, <2>3, ReadyStays
<1>5. CASE r \in SetPortLedState(x, p, v)
  <2>1. Keeps(x, r.x, p) /\ r.x.late = x.late /\ \A k \in CacheNames \ {"led"} : r.x.fe[k] = x.fe[k]
    BY <1>0, <1>5, LedKeeps
  <2> QED BY <1>0, <2>1, ReadyStays DEF Settled
<1>6. CASE r \in SetPortAcquisitionState(x, p, v)
  <2>1. /\ Keeps(x, r.x, p) /\ r.x.late = x.late
        /\ \A k \in CacheNames \ {"acq"} : r.x.fe[k] = x.fe[k]
        /\ ~(p \in Ports /\ v \in AcquisitionStates) => r.x = x
        /\ p \in Ports /\ v \in AcquisitionStates => r.x.fe.acq[x.fe.map[p]] = v
    BY <1>0, <1>6, AcquisitionKeeps
  <2>2. "UNKNOWN" \notin AcquisitionStates
    BY DEF AcquisitionStates
  <2>3. p \in Ports => Settled(r.x, p)
    BY <1>0, <2>1, <2>2 DEF Settled
  <2> QED BY <2>1, <2>3, ReadyStays
<1>7. CASE r \in SetPortCameraDownscaling(x, p, v)
  <2>1. Keeps(x, r.x, p) /\ r.x.late = x.late /\ \A k \in CacheNames \ {"links"} : r.x.fe[k] = x.fe[k]
    BY <1>0, <1>7, DownscalingKeeps
  <2> QED BY <1>0, <2>1, ReadyStays DEF Settled
<1>8. CASE r \in SetPortImageStreamId(x, p, v)
  <2>1. Keeps(x, r.x, p) /\ r.x.late = x.late /\ \A k \in CacheNames \ {"stream"} : r.x.fe[k] = x.fe[k]
    BY <1>0, <1>8, StreamKeeps
  <2> QED BY <1>0, <2>1, ReadyStays DEF Settled
<1> QED BY <1>1, <1>2, <1>3, <1>4, <1>5, <1>6, <1>7, <1>8

LEMMA CommandOutcome ==
  ASSUME NEW x, Ready(x), NEW c, NEW r \in ExecuteCommand(x, c)
  PROVE  /\ Ready(r.x)
         /\ c.cmd = "RESET" => r.x.fe.map = Identity /\ \A p \in Ports : Clean(r.x, p)
         /\ c.cmd = "SET_PORT_MAP" => \A p \in Ports : Moved(x, r.x, p)
         /\ c.cmd \notin {"RESET", "SET_PORT_MAP"} => Keeps(x, r.x, c.port)
<1>1. CASE c.cmd = "RESET"
  <2>1. r.x \in ResetFrontend(x)
    BY <1>1 DEF ExecuteCommand, Result
  <2> QED BY <1>1, <2>1, ReadyReset
<1>2. CASE c.cmd = "SET_PORT_MAP"
  <2>1. r \in SetPortMap(x, c.param)
    BY <1>2 DEF ExecuteCommand
  <2>2. /\ DeviceOK(r.x) /\ Synced(r.x)
        /\ \A p \in Ports : Settled(r.x, p) /\ Moved(x, r.x, p)
    <3> DEFINE map == c.param
    <3>1. r \in SetPortMap(x, map)
      BY <2>1
    <3> HIDE DEF map
    <3> QED BY <3>1, RemapMoves DEF Ready
  <2> QED BY <1>2, <2>2 DEF Ready
<1>3. CASE c.cmd \notin {"RESET", "SET_PORT_MAP"}
  <2> DEFINE p == c.port
             v == c.param
             outcomes == SetPortPowerState(x, p, v) \cup SetPortDataPathState(x, p, v)
                   \cup SetPortDataPathSpeed(x, p, v) \cup SetPortStandardVersion(x, p, v)
                   \cup SetPortLedState(x, p, v) \cup SetPortAcquisitionState(x, p, v)
                   \cup SetPortCameraDownscaling(x, p, v) \cup SetPortImageStreamId(x, p, v)
  <2>1. r \in outcomes \/ r.x = x
    BY <1>3 DEF ExecuteCommand, Result
  <2>2. CASE r \in outcomes
    <3>1. Ready(r.x) /\ Keeps(x, r.x, p)
      <4> HIDE DEF p, v
      <4> QED BY <2>2, PortCommand
    <3> QED BY <1>3, <3>1
  <2>3. CASE r.x = x
    <3>1. Keeps(x, r.x, p)
      BY <2>3, KeepsAll DEF Ready
    <3> QED BY <1>3, <2>3, <3>1
  <2> QED BY <2>1, <2>2, <2>3
<1> QED BY <1>1, <1>2, <1>3

-----------------------------------------------------------------------------
(* what the registers show *)

\* The registers follow from the caches of a port that has settled.
LEMMA Registers ==
  ASSUME NEW x, Ready(x), NEW p \in Ports, NEW l, l = x.fe.map[p]
  PROVE  /\ x.hw.map[p] = l /\ l \in Ports
         /\ x.hw.link[p] = LinkReset(x.fe.state[p])
         /\ x.hw.host[l] = HostReset(x.fe.lstate[l])
         /\ x.hw.version[l] = VersionCtrl(x.fe.version[l])
         /\ x.hw.up[l] = UpBitrate(x.fe.up[l])
         /\ x.hw.acq[l] = (x.fe.acq[l] = "STARTED")
         /\ x.hw.links[l] = IF l < 4 THEN x.fe.links[l] ELSE 1
         /\ x.fe.speed[p] # 0 => x.hw.speed[p] = x.fe.speed[p]
         /\ x.fe.power[p] # "UNKNOWN" => x.hw.power[p] = PowerCtrl(x.fe.power[p])
<1>1. DeviceOK(x) /\ Synced(x) /\ Settled(x, p)
  BY DEF Ready
<1>2. x.fe.map \in PortMaps /\ l \in Ports
  BY <1>1, DeviceMap
<1>3. StateOfLogical(x.fe, l) = x.fe.state[p]
  BY <1>2, Phys DEF StateOfLogical
<1>4. x.fe.lstate[l] = x.fe.state[p] /\ x.fe.state[p] # "UNKNOWN" /\ x.fe.version[l] # "UNKNOWN"
      /\ x.fe.acq[l] # "UNKNOWN"
  BY <1>1 DEF Settled
<1>5. x.hw.links[l] = IF l < 4 THEN x.fe.links[l] ELSE 1
  BY <1>1, <1>2 DEF Synced, Downscale
<1> QED BY <1>1, <1>2, <1>3, <1>4, <1>5 DEF Synced

LEMMA SameRegisters ==
  ASSUME NEW x, Ready(x), NEW y, Ready(y), NEW p \in Ports, y.fe.map = x.fe.map, SamePort(x, y, p)
  PROVE  /\ Connector(y.hw, p) = Connector(x.hw, p)
         /\ Core(y.hw, p) = Core(x.hw, p)
         /\ Uplink(y.hw, p) = Uplink(x.hw, p)
         /\ x.fe.power[p] # "UNKNOWN" => y.hw.power[p] = x.hw.power[p]
<1> DEFINE l == x.fe.map[p]
<1>1. /\ y.fe.power[p] = x.fe.power[p] /\ y.fe.state[p] = x.fe.state[p]
      /\ y.hw.speed[p] = x.hw.speed[p] /\ y.hw.led[p] = x.hw.led[p]
      /\ y.fe.lstate[l] = x.fe.lstate[l] /\ y.fe.up[l] = x.fe.up[l]
      /\ y.fe.version[l] = x.fe.version[l] /\ y.fe.acq[l] = x.fe.acq[l]
      /\ y.fe.links[l] = x.fe.links[l]
  BY DEF SamePort, SameConnector, SameCamera, SameLink
<1>2. l = y.fe.map[p] /\ l = x.fe.map[p]
  OBVIOUS
<1> HIDE DEF l
<1>3. /\ x.hw.map[p] = l
      /\ x.hw.link[p] = LinkReset(x.fe.state[p])
      /\ x.hw.host[l] = HostReset(x.fe.lstate[l])
      /\ x.hw.version[l] = VersionCtrl(x.fe.version[l])
      /\ x.hw.up[l] = UpBitrate(x.fe.up[l])
      /\ x.hw.acq[l] = (x.fe.acq[l] = "STARTED")
      /\ x.hw.links[l] = IF l < 4 THEN x.fe.links[l] ELSE 1
      /\ x.fe.power[p] # "UNKNOWN" => x.hw.power[p] = PowerCtrl(x.fe.power[p])
  BY <1>2, Registers
<1>4. /\ y.hw.map[p] = l
      /\ y.hw.link[p] = LinkReset(y.fe.state[p])
      /\ y.hw.host[l] = HostReset(y.fe.lstate[l])
      /\ y.hw.version[l] = VersionCtrl(y.fe.version[l])
      /\ y.hw.up[l] = UpBitrate(y.fe.up[l])
      /\ y.hw.acq[l] = (y.fe.acq[l] = "STARTED")
      /\ y.hw.links[l] = IF l < 4 THEN y.fe.links[l] ELSE 1
      /\ y.fe.power[p] # "UNKNOWN" => y.hw.power[p] = PowerCtrl(y.fe.power[p])
  BY <1>2, Registers
<1>5. /\ y.hw.link[p] = x.hw.link[p] /\ y.hw.host[l] = x.hw.host[l]
      /\ y.hw.version[l] = x.hw.version[l] /\ y.hw.up[l] = x.hw.up[l]
      /\ y.hw.acq[l] = x.hw.acq[l] /\ y.hw.links[l] = x.hw.links[l]
      /\ x.fe.power[p] # "UNKNOWN" => y.hw.power[p] = x.hw.power[p]
  BY <1>1, <1>3, <1>4
<1> QED BY <1>1, <1>3, <1>4, <1>5 DEF Connector, Core, Uplink

LEMMA MovedRegisters ==
  ASSUME NumPorts # 5, NEW x, Ready(x), NEW y, Ready(y), NEW p \in Ports, Moved(x, y, p)
  PROVE  /\ Connector(y.hw, p) = Connector(x.hw, p)
         /\ Core(y.hw, p) = Core(x.hw, p)
         /\ p \notin x.late \cup y.late => Uplink(y.hw, p) = Uplink(x.hw, p)
<1> DEFINE old == x.fe.map[p]
           new == y.fe.map[p]
<1>1. /\ y.fe.state[p] = x.fe.state[p]
      /\ y.hw.speed[p] = x.hw.speed[p] /\ y.hw.led[p] = x.hw.led[p]
      /\ y.fe.lstate[new] = x.fe.lstate[old]
      /\ y.fe.version[new] = x.fe.version[old] /\ y.fe.acq[new] = x.fe.acq[old]
      /\ y.fe.links[new] = x.fe.links[old]
      /\ p \notin x.late \cup y.late => y.fe.up[new] = x.fe.up[old]
  BY DEF Moved, SameConnector, Ready, Settled
<1>2. old = x.fe.map[p] /\ new = y.fe.map[p]
  OBVIOUS
<1> HIDE DEF old, new
<1>3. /\ x.hw.map[p] = old /\ old \in Ports
      /\ x.hw.link[p] = LinkReset(x.fe.state[p])
      /\ x.hw.host[old] = HostReset(x.fe.lstate[old])
      /\ x.hw.version[old] = VersionCtrl(x.fe.version[old])
      /\ x.hw.up[old] = UpBitrate(x.fe.up[old])
      /\ x.hw.acq[old] = (x.fe.acq[old] = "STARTED")
      /\ x.hw.links[old] = IF old < 4 THEN x.fe.links[old] ELSE 1
  BY <1>2, Registers
<1>4. /\ y.hw.map[p] = new /\ new \in Ports
      /\ y.hw.link[p] = LinkReset(y.fe.state[p])
      /\ y.hw.host[new] = HostReset(y.fe.lstate[new])
      /\ y.hw.version[new] = VersionCtrl(y.fe.version[new])
      /\ y.hw.up[new] = UpBitrate(y.fe.up[new])
      /\ y.hw.acq[new] = (y.fe.acq[new] = "STARTED")
      /\ y.hw.links[new] = IF new < 4 THEN y.fe.links[new] ELSE 1
  BY <1>2, Registers
<1>5. old < 4 /\ new < 4
  BY <1>3, <1>4, CxpAssumption DEF Ports
<1>6. /\ y.hw.link[p] = x.hw.link[p] /\ y.hw.host[new] = x.hw.host[old]
      /\ y.hw.version[new] = x.hw.version[old] /\ y.hw.acq[new] = x.hw.acq[old]
      /\ y.hw.links[new] = x.hw.links[old]
      /\ p \notin x.late \cup y.late => y.hw.up[new] = x.hw.up[old]
  BY <1>1, <1>3, <1>4, <1>5
<1> QED BY <1>1, <1>3, <1>4, <1>6 DEF Connector, Core, Uplink

\* A port with the default settings.
CoreDefaults(h, p) == Core(h, p) = <<HostReset("INACTIVE"), "1.1", FALSE, 1>>
Defaults(h, p, a) ==
  /\ CoreDefaults(h, p)
  /\ p \notin a => h.speed[p] = 3125 /\ Uplink(h, p) = 21

LEMMA CleanRegisters ==
  ASSUME NEW x, Ready(x), x.fe.map = Identity, NEW p \in Ports, Clean(x, p)
  PROVE  Defaults(x.hw, p, x.late)
<1>1. p = x.fe.map[p]
  BY IdentityIsMap
<1>2. /\ x.fe.lstate[p] = "INACTIVE" /\ x.fe.version[p] = "1.1" /\ x.fe.acq[p] = "STOPPED"
      /\ x.fe.links[p] = 1
      /\ p \notin x.late => x.fe.speed[p] = 3125 /\ x.fe.up[p] = "LOW"
  BY <1>1 DEF Clean
<1>3. /\ x.hw.map[p] = p
      /\ x.hw.host[p] = HostReset(x.fe.lstate[p])
      /\ x.hw.version[p] = VersionCtrl(x.fe.version[p])
      /\ x.hw.up[p] = UpBitrate(x.fe.up[p])
      /\ x.hw.acq[p] = (x.fe.acq[p] = "STARTED")
      /\ x.hw.links[p] = IF p < 4 THEN x.fe.links[p] ELSE 1
      /\ x.fe.speed[p] # 0 => x.hw.speed[p] = x.fe.speed[p]
  BY <1>1, Registers
<1>4. x.hw.host[p] = HostReset("INACTIVE") /\ x.hw.links[p] = 1
  BY <1>2, <1>3
<1>5. x.hw.version[p] = "1.1"
  BY <1>2, <1>3 DEF VersionCtrl
<1>6. x.hw.acq[p] = FALSE
  <2>1. ~(x.fe.acq[p] = "STARTED")
    BY <1>2
  <2>2. (x.fe.acq[p] = "STARTED") = FALSE
    BY <2>1, Zenon
  <2>3. x.hw.acq[p] = (x.fe.acq[p] = "STARTED")
    BY <1>3
  <2> QED BY <2>2, <2>3, Zenon
<1>7. p \notin x.late => x.hw.speed[p] = 3125 /\ x.hw.up[p] = 21
  BY <1>2, <1>3 DEF UpBitrate
<1>8. Core(x.hw, p) = <<x.hw.host[p], x.hw.version[p], x.hw.acq[p], x.hw.links[p]>>
  BY <1>3 DEF Core
<1>9. Uplink(x.hw, p) = x.hw.up[p]
  BY <1>3 DEF Uplink
<1>10. CoreDefaults(x.hw, p)
  BY <1>4, <1>5, <1>6, <1>8, Zenon DEF CoreDefaults
<1>11. p \notin x.late => x.hw.speed[p] = 3125 /\ Uplink(x.hw, p) = 21
  BY <1>7, <1>9
<1> QED BY <1>10, <1>11 DEF Defaults

-----------------------------------------------------------------------------
(* the steps *)

\* The inductive invariant: with a frontend, its caches and registers are in step and
\* every port is settled; without one the registers are as the last reset left them,
\* of which the next one needs the downscaling, the only cache that starts out known.
IInv ==
  /\ count \in [commands : Nat, probes : Nat, timeouts : Nat]
  /\ fe.loaded => Ready(Device)
  /\ ~fe.loaded => RegistersOK(hw) /\ hw.links = All(1) /\ late \in SUBSET Ports
  /\ ResetIsClean

LEMMA DeviceNow == Device.fe = fe /\ Device.hw = hw /\ Device.late = late
BY DEF Device

LEMMA DeviceNext ==
  ASSUME NEW z, Ready(z), fe' = z.fe, hw' = z.hw, late' = z.late, count'.timeouts = z.timeouts
  PROVE  Device' = z /\ fe'.loaded
<1>1. DeviceOK(z)
  BY DEF Ready
<1>2. z = Device4(z.fe, z.hw, z.late, z.timeouts) /\ z.fe \in Caches
  BY <1>1, DeviceParts
<1>3. fe'.loaded
  BY <1>2 DEF Caches
<1> QED BY <1>2, <1>3 DEF Device, Device4

LEMMA CleanFrontend ==
  ASSUME NEW z, Ready(z), z.fe.map = Identity, \A p \in Ports : Clean(z, p),
         hw' = z.hw, late' = z.late
  PROVE  ResetIsClean' /\ hw'.links = All(1)
<1>1. \A p \in Ports : Defaults(z.hw, p, z.late)
  BY CleanRegisters
<1>2. z.hw.map = Identity /\ z.hw.links = Downscale(z.fe.links)
  BY DEF Ready, Synced
<1>3. \A p \in Ports : z.fe.links[p] = 1
  BY IdentityIsMap DEF Clean
<1>4. z.hw.links = All(1)
  BY <1>2, <1>3 DEF Downscale, All
<1>5. ResetIsClean'
  <2>1. hw'.map = Identity /\ \A p \in Ports : Defaults(hw', p, late')
    BY <1>1, <1>2
  <2> QED BY <2>1, Zenon DEF ResetIsClean, Defaults, CoreDefaults
<1> QED BY <1>4, <1>5

LEMMA InitIInv == Init => IInv
<1> SUFFICES ASSUME Init PROVE IInv
  OBVIOUS
<1>1. RegistersOK(FreshRegisters) /\ FreshRegisters.links = All(1)
  <2>1. All(0) \in [Ports -> {0} \cup Speeds] /\ All("UNKNOWN") \in [Ports -> Unset \cup LedStates]
        /\ All(-1) \in [Ports -> -1 .. 255]
    BY DEF All, Unset
  <2>2. Identity \in PortMaps
    BY IdentityIsMap
  <2> QED BY <2>1, <2>2 DEF FreshRegisters, RegistersOK
<1>2. ~fe.loaded
  BY DEF Init, NoFrontend
<1>3. last.cmd = "NONE"
  BY DEF Init
<1>4. count \in [commands : Nat, probes : Nat, timeouts : Nat]
  BY DEF Init
<1>5. hw = FreshRegisters /\ late = {}
  BY DEF Init
<1> QED BY <1>1, <1>2, <1>3, <1>4, <1>5 DEF IInv, ResetIsClean

LEMMA ProbeIInv == ASSUME IInv, Probe PROVE IInv' /\ count'.commands = count.commands
<1> DEFINE x == [Device EXCEPT !.fe = FreshCaches]
<1>1. x = FreshDevice(hw, late, count.timeouts)
  BY DEF Device, FreshDevice, Device4
<1> HIDE DEF x
<1>2. RegistersOK(hw) /\ hw.links = All(1) /\ late \in SUBSET Ports /\ count.timeouts \in Nat
  BY DEF IInv, Probe
<1>3. PICK y \in ResetFrontend(x) : \E z \in ResetFrontend(y) :
        /\ Becomes(z) /\ fe' = z.fe
        /\ count' = [count EXCEPT !.probes = @ + 1, !.timeouts = z.timeouts]
  BY DEF Probe, x
<1>4. PICK z \in ResetFrontend(y) :
        /\ Becomes(z) /\ fe' = z.fe
        /\ count' = [count EXCEPT !.probes = @ + 1, !.timeouts = z.timeouts]
  BY <1>3
<1>5. \A r \in SetPortMap(x, Identity) : DeviceOK(r.x) /\ Synced(r.x) /\ r.x.fe.map = Identity
  BY <1>1, <1>2, FreshRemap
<1>6. DeviceOK(y) /\ Synced(y) /\ \A p \in Ports : Clean(y, p)
  BY <1>5, ResetCleans
<1>7. Ready(y)
  BY <1>6, CleanSettles DEF Ready
<1>8. Ready(z) /\ z.fe.map = Identity /\ \A p \in Ports : Clean(z, p)
  BY <1>7, ReadyReset
<1>9. z.timeouts \in Nat
  BY <1>8, DeviceParts DEF Ready
<1>10. /\ count' \in [commands : Nat, probes : Nat, timeouts : Nat]
       /\ count'.commands = count.commands /\ count'.timeouts = z.timeouts
  <2>1. count = [commands |-> count.commands, probes |-> count.probes, timeouts |-> count.timeouts]
        /\ count.commands \in Nat /\ count.probes \in Nat
    BY DEF IInv
  <2>2. count' = [[count EXCEPT !.probes = @ + 1] EXCEPT !.timeouts = z.timeouts]
    BY <1>4
  <2>3. [count EXCEPT !.probes = @ + 1] =
          [commands |-> count.commands, probes |-> count.probes + 1, timeouts |-> count.timeouts]
    BY <2>1
  <2>4. count' = [commands |-> count.commands, probes |-> count.probes + 1, timeouts |-> z.timeouts]
    BY <2>2, <2>3
  <2> QED BY <1>9, <2>1, <2>4
<1>11. Device' = z /\ fe'.loaded
  BY <1>4, <1>8, <1>10, DeviceNext DEF Becomes
<1>12. ResetIsClean'
  BY <1>4, <1>8, CleanFrontend DEF Becomes
<1> QED BY <1>8, <1>10, <1>11, <1>12 DEF IInv

LEMMA RemoveIInv == ASSUME IInv, Remove PROVE IInv' /\ count'.commands = count.commands
<1>1. PICK y \in ResetFrontend(Device) :
        Becomes(y) /\ count' = [count EXCEPT !.timeouts = y.timeouts]
  BY DEF Remove
<1>2. Ready(y) /\ y.fe.map = Identity /\ \A p \in Ports : Clean(y, p)
  BY ReadyReset DEF IInv, Remove
<1>3. RegistersOK(y.hw) /\ y.late \in SUBSET Ports /\ y.timeouts \in Nat
  BY <1>2, DeviceParts DEF Ready
<1>4. count' \in [commands : Nat, probes : Nat, timeouts : Nat] /\ count'.commands = count.commands
  BY <1>1, <1>3 DEF IInv
<1>5. hw'.links = All(1) /\ hw' = y.hw /\ late' = y.late
  BY <1>1, <1>2, CleanFrontend DEF Becomes
<1>6. ~fe'.loaded /\ ResetIsClean'
  BY DEF Remove, NoFrontend, ResetIsClean
<1> QED BY <1>3, <1>4, <1>5, <1>6 DEF IInv

LEMMA CommandStep ==
  ASSUME IInv, CameraControl
  PROVE  /\ count' \in [commands : Nat, probes : Nat, timeouts : Nat]
         /\ Ready(Device) /\ Ready(Device') /\ fe'.loaded /\ ResetIsClean'
         /\ last'.cmd = "SET_PORT_MAP" => \A p \in Ports : Moved(Device, Device', p)
         /\ last'.cmd \notin {"RESET", "SET_PORT_MAP"} => Keeps(Device, Device', last'.port)
<1>1. PICK c \in Commands : \E r \in ExecuteCommand(Device, c) :
        /\ Becomes(r.x) /\ fe' = r.x.fe
        /\ count' = [count EXCEPT !.commands = @ + 1, !.timeouts = r.x.timeouts]
        /\ last' = [c EXCEPT !.ret = CASE r.ret = "OK" -> "OK"
                                      [] r.ret \in {"INVALID_OPERATION", "NO_TGS"} -> "EFAULT"
                                      [] OTHER -> "ENODEV"]
  BY DEF CameraControl
<1>2. PICK r \in ExecuteCommand(Device, c) :
        /\ Becomes(r.x) /\ fe' = r.x.fe
        /\ count' = [count EXCEPT !.commands = @ + 1, !.timeouts = r.x.timeouts]
        /\ last' = [c EXCEPT !.ret = CASE r.ret = "OK" -> "OK"
                                      [] r.ret \in {"INVALID_OPERATION", "NO_TGS"} -> "EFAULT"
                                      [] OTHER -> "ENODEV"]
  BY <1>1
<1>3. last'.cmd = c.cmd /\ last'.port = c.port /\ c.cmd # "PROBE"
  <2> DEFINE e == CASE r.ret = "OK" -> "OK"
                    [] r.ret \in {"INVALID_OPERATION", "NO_TGS"} -> "EFAULT"
                    [] OTHER -> "ENODEV"
  <2>1. last' = [c EXCEPT !.ret = e]
    BY <1>2
  <2> HIDE DEF e
  <2>2. c = [cmd |-> c.cmd, port |-> c.port, param |-> c.param, ret |-> "OK"] /\ c.cmd # "PROBE"
    BY CxpAssumption
  <2>3. last' = [cmd |-> c.cmd, port |-> c.port, param |-> c.param, ret |-> e]
    BY <2>1, <2>2
  <2> QED BY <2>2, <2>3
<1>4. Ready(Device)
  BY DEF IInv, CameraControl
<1>5. /\ Ready(r.x)
      /\ c.cmd = "RESET" => r.x.fe.map = Identity /\ \A p \in Ports : Clean(r.x, p)
      /\ c.cmd = "SET_PORT_MAP" => \A p \in Ports : Moved(Device, r.x, p)
      /\ c.cmd \notin {"RESET", "SET_PORT_MAP"} => Keeps(Device, r.x, c.port)
  BY <1>4, CommandOutcome
<1>6. r.x.timeouts \in Nat
  BY <1>5, DeviceParts DEF Ready
<1>7. count' \in [commands : Nat, probes : Nat, timeouts : Nat] /\ count'.timeouts = r.x.timeouts
  <2>1. count = [commands |-> count.commands, probes |-> count.probes, timeouts |-> count.timeouts]
        /\ count.commands \in Nat /\ count.probes \in Nat
    BY DEF IInv
  <2> DEFINE t == r.x.timeouts
  <2>2. count' = [[count EXCEPT !.commands = @ + 1] EXCEPT !.timeouts = t]
    BY <1>2
  <2>3. t \in Nat
    BY <1>6
  <2> HIDE DEF t
  <2>4. [count EXCEPT !.commands = @ + 1] =
          [commands |-> count.commands + 1, probes |-> count.probes, timeouts |-> count.timeouts]
    BY <2>1
  <2>5. count' = [commands |-> count.commands + 1, probes |-> count.probes, timeouts |-> t]
    BY <2>2, <2>4
  <2>6. count' \in [commands : Nat, probes : Nat, timeouts : Nat] /\ count'.timeouts = t
    BY <2>1, <2>3, <2>5
  <2> QED BY <2>6 DEF t
<1>8. hw' = r.x.hw /\ late' = r.x.late /\ fe' = r.x.fe
  BY <1>2 DEF Becomes
<1>9. Device' = r.x /\ fe'.loaded
  BY <1>5, <1>7, <1>8, DeviceNext
<1>10. ResetIsClean'
  <2>1. CASE c.cmd = "RESET"
    BY <1>5, <1>8, <2>1, CleanFrontend
  <2>2. CASE c.cmd # "RESET"
    BY <1>3, <2>2 DEF ResetIsClean
  <2> QED BY <2>1, <2>2
<1> QED BY <1>3, <1>4, <1>5, <1>7, <1>9, <1>10

LEMMA StepIInv == IInv /\ [Next]_vars => IInv'
<1> SUFFICES ASSUME IInv, [Next]_vars PROVE IInv'
  OBVIOUS
<1>1. CASE Probe
  BY <1>1, ProbeIInv
<1>2. CASE CameraControl
  BY <1>2, CommandStep DEF IInv
<1>3. CASE Remove
  BY <1>3, RemoveIInv
<1>4. CASE UNCHANGED vars
  <2>1. Device' = Device
    BY <1>4 DEF vars, Device
  <2>2. ResetIsClean' = ResetIsClean
    BY <1>4 DEF vars, ResetIsClean
  <2> QED BY <1>4, <2>1, <2>2 DEF IInv, vars
<1> QED BY <1>1, <1>2, <1>3, <1>4 DEF Next

-----------------------------------------------------------------------------
\* After a reset command and after the driver is loaded, every port is inactive with the
\* default settings: the two resets of a probe clean registers they know nothing of, for
\* every state the driver was removed in and every command before.
THEOREM ResetIsCleanAlways == Spec => []ResetIsClean
<1>1. IInv => ResetIsClean
  BY DEF IInv
<1> QED BY <1>1, InitIInv, StepIInv, PTL DEF Spec

\* A new port map restores the settings of every port it moves, though the loop of
\* cxp_set_port_map overwrites the values of the logical ports as it goes.  On boards
\* with up to four ports: the register of the downscaling holds no fifth one.
THEOREM RemapsKeepSettings == ASSUME NumPorts # 5 PROVE Spec => RemapKeepsSettings
<1> DEFINE Kept == (count'.commands # count.commands /\ last'.cmd = "SET_PORT_MAP") =>
       \A p \in Ports : /\ Connector(hw', p) = Connector(hw, p)
                        /\ Core(hw', p) = Core(hw, p)
                        /\ p \notin late \cup late' => Uplink(hw', p) = Uplink(hw, p)
<1>1. IInv /\ [Next]_vars => [Kept]_vars
  <2> SUFFICES ASSUME IInv, Next PROVE Kept
    OBVIOUS
  <2>1. CASE Probe
    BY <2>1, ProbeIInv
  <2>2. CASE CameraControl
    <3> SUFFICES ASSUME last'.cmd = "SET_PORT_MAP", NEW p \in Ports
                 PROVE  /\ Connector(hw', p) = Connector(hw, p)
                        /\ Core(hw', p) = Core(hw, p)
                        /\ p \notin late \cup late' => Uplink(hw', p) = Uplink(hw, p)
      OBVIOUS
    <3> DEFINE y == Device'
    <3>1. Ready(Device) /\ Ready(y) /\ Moved(Device, y, p)
      BY <2>2, CommandStep
    <3>2. y.hw = hw' /\ y.late = late'
      BY DEF Device
    <3> HIDE DEF y
    <3>3. /\ Connector(y.hw, p) = Connector(Device.hw, p)
          /\ Core(y.hw, p) = Core(Device.hw, p)
          /\ p \notin Device.late \cup y.late => Uplink(y.hw, p) = Uplink(Device.hw, p)
      BY <3>1, MovedRegisters
    <3> QED BY <3>2, <3>3, DeviceNow
  <2>3. CASE Remove
    BY <2>3, RemoveIInv
  <2> QED BY <2>1, <2>2, <2>3 DEF Next
<1> HIDE DEF Kept
<1>2. Spec => [][Kept]_vars
  BY <1>1, InitIInv, StepIInv, PTL DEF Spec
<1> QED BY <1>2 DEF Kept, RemapKeepsSettings

\* A command for one port changes nothing of another one, although it writes a register
\* that holds the fields of all of them from the caches.
THEOREM CommandsTouchOnePort == Spec => CommandTouchesOnePort
<1> DEFINE Kept == (count'.commands # count.commands /\ last'.cmd \notin {"RESET", "SET_PORT_MAP"}) =>
       \A p \in Ports \ {last'.port} :
         /\ Connector(hw', p) = Connector(hw, p)
         /\ Core(hw', p) = Core(hw, p)
         /\ Uplink(hw', p) = Uplink(hw, p)
         /\ fe.power[p] # "UNKNOWN" => hw'.power[p] = hw.power[p]
<1>1. IInv /\ [Next]_vars => [Kept]_vars
  <2> SUFFICES ASSUME IInv, Next PROVE Kept
    OBVIOUS
  <2>1. CASE Probe
    BY <2>1, ProbeIInv
  <2>2. CASE CameraControl
    <3> SUFFICES ASSUME last'.cmd \notin {"RESET", "SET_PORT_MAP"}, NEW p \in Ports \ {last'.port}
                 PROVE  /\ Connector(hw', p) = Connector(hw, p)
                        /\ Core(hw', p) = Core(hw, p)
                        /\ Uplink(hw', p) = Uplink(hw, p)
                        /\ fe.power[p] # "UNKNOWN" => hw'.power[p] = hw.power[p]
      OBVIOUS
    <3> DEFINE y == Device'
    <3>1. Ready(Device) /\ Ready(y) /\ Keeps(Device, y, last'.port)
      BY <2>2, CommandStep
    <3>2. y.hw = hw'
      BY DEF Device
    <3> HIDE DEF y
    <3>3. y.fe.map = Device.fe.map /\ SamePort(Device, y, p)
      BY <3>1 DEF Keeps
    <3>4. /\ Connector(y.hw, p) = Connector(Device.hw, p)
          /\ Core(y.hw, p) = Core(Device.hw, p)
          /\ Uplink(y.hw, p) = Uplink(Device.hw, p)
          /\ Device.fe.power[p] # "UNKNOWN" => y.hw.power[p] = Device.hw.power[p]
      BY <3>1, <3>3, SameRegisters
    <3> QED BY <3>2, <3>4, DeviceNow
  <2>3. CASE Remove
    BY <2>3, RemoveIInv
  <2> QED BY <2>1, <2>2, <2>3 DEF Next
<1> HIDE DEF Kept
<1>2. Spec => [][Kept]_vars
  BY <1>1, InitIInv, StepIInv, PTL DEF Spec
<1> QED BY <1>2 DEF Kept, CommandTouchesOnePort
=============================================================================
