--------------------------- MODULE MCCxpFrontend ---------------------------
EXTENDS CxpFrontend

MCFirmware == <<1, 1>>

Cmd(cmd, port, param) == [cmd |-> cmd, port |-> port, param |-> param, ret |-> "OK"]

\* Two ports exchanged, a rotation of three, a rotation of all, and no permutation.
Swap == [Identity EXCEPT ![0] = 1, ![1] = 0]
Turn == [Identity EXCEPT ![0] = 1, ![1] = 2, ![2] = 0]
RotateAll == [p \in Ports |-> (p + 1) % NumPorts]

MCCommands ==
  {Cmd("SET_PORT_MAP", 0, m) : m \in {Identity, Swap, Turn, RotateAll, All(0)}}
  \cup {Cmd("RESET", 0, 0), Cmd("GET_POWER", 0, 0)}
  \cup {Cmd("SET_PORT_POWER_STATE", 0, v) : v \in {"OFF", "TEST_MODE"}}
  \cup {Cmd("SET_PORT_DATA_PATH_STATE", p, v) : p \in {0, 2}, v \in {"ACTIVE", "MONITORING"}}
  \cup {Cmd("SET_PORT_DATA_PATH_STATE", NumPorts, "ACTIVE"), Cmd("SET_PORT_DATA_PATH_STATE", 1, "UNKNOWN")}
  \cup {Cmd("SET_PORT_DATA_PATH_SPEED", p, v) : p \in {0, 1}, v \in {6250, 12500}}
  \cup {Cmd("SET_PORT_CXP_STANDARD_VERSION", 1, "2.0"), Cmd("SET_PORT_CXP_LED_STATE", 1, "CONNECTED"),
        Cmd("SET_PORT_ACQUISITION_STATE", 1, "STARTED"),
        Cmd("SET_PORT_CXP_CAMERA_DOWNSCALING", 0, 4), Cmd("SET_STREAM_ID", 0, 7)}
=============================================================================
