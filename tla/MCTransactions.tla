--------------------------- MODULE MCTransactions ---------------------------
EXTENDS Transactions

W(n, f) == [NoBurst EXCEPT !.type = "write", !.len = n, !.flags = f]
R(n, f) == [NoBurst EXCEPT !.type = "read", !.len = n, !.flags = f]
S(f) == [NoBurst EXCEPT !.type = "state", !.flags = f]
NoCopy(x) == [x EXCEPT !.copy = FALSE]
In(x, state) == [x EXCEPT !.state = state]
With(x, arg) == [x EXCEPT !.arg = arg]
Cmd(arg) == [NoBurst EXCEPT !.type = "command", !.len = 1, !.arg = arg]
Tx(bursts) == [bursts |-> bursts, bus |-> 0]

\* A command and its answer with chip select held in between, odd lengths that do
\* not fill a shot, failing copies, a burst of no bytes.
SpiScripts ==
  {Tx(<<W(n, {"LEAVE_CS"}), R(m, {})>>) : n \in {1, 5}, m \in {2, 5, 7}}
  \cup {Tx(<<W(n, {}), W(0, {}), W(3, {"LEAVE_CS"}), S(f)>>) : n \in {2, 4}, f \in {{}, {"LEAVE_CS"}}}
  \cup {Tx(<<W(1, {"LEAVE_CS"}), NoCopy(W(1, {}))>>), Tx(<<NoCopy(R(1, {}))>>)}

DualScripts ==
  {Tx(<<W(n, {"LEAVE_CS"}), W(3, f), R(3, f)>>)
   : n \in {1, 3}, f \in {{}, {"DATA", "QUAD"}, {"QUAD"}, {"DATA"}}}
  \cup {Tx(<<W(1, {"LEAVE_CS"}), Cmd(0)>>)}

BpiScripts ==
  {Tx(<<With(W(1, {"WRITECMDADDRESS"}), a), R(n, {"READDATA", "WAITREADY"})>>)
   : a \in {0, 2, 4}, n \in {1, 3}}
  \cup {Tx(<<With(W(2, {"WRITECMDADDRESS", "SELECT"}), 4), W(2, {"WRITEDATA", "DESELECT"})>>),
        Tx(<<With(W(1, {"SETADDRESS"}), 2), With(W(1, {"WRITECMD"}), 0), R(3, {"READDATA"})>>),
        Tx(<<R(1, {}), S({"DESELECT"})>>),
        Tx(<<W(4, {"WRITEDATA"}), W(3, {"WRITEDATA"}), W(2, {"WRITECMD"}), W(2, {})>>)}
  \cup {Tx(<<Cmd([id |-> c, bank |-> n])>>)
        : c \in {"SET_ACTIVE_BANK", "GET_ACTIVE_BANK", "NONE"}, n \in {1, 5}}

JtagStates == {"IDLE", "SHIFT_DR", "SHIFT_IR"}
JtagScripts ==
  {Tx(<<In(W(n, {"BYTES"}), s), In(R(m, {"BYTES", "ZEROES"}), r)>>)
   : n \in {1, 3, 4}, m \in {1, 4}, s \in JtagStates, r \in JtagStates}
  \cup {Tx(<<In(R(1, {"BYTES"} \cup f), "SHIFT_DR")>>) : f \in {{}, {"ZEROES", "ONES"}}}
  \cup {Tx(<<In(S({}), "RESET"), In(R(2, {"BYTES", "ONES"}), "RESET")>>)}
  \cup {Tx(<<With(W(4, {"SETLEN"}), 20), In(W(3, {"BITS"}), s)>>) : s \in JtagStates}
  \cup {Tx(<<W(1, {"RAW", "TMS", "BYTES"}), W(n, {"RAW", "BYTES"}), R(1, {"RAW", "BYTES"})>>) : n \in {1, 2}}
  \cup {Tx(<<W(1, {"RAW", "BYTES", "ONES"} \cup f)>>) : f \in {{}, {"TMS"}}}
  \cup {Tx(<<W(4, {"SETFREQ"}), W(1, {"BYTES"})>>)}

I2cScripts ==
  {[bursts |-> <<W(2, {"START"} \cup f), R(n, {"STOP", "NACK"})>>, bus |-> c]
   : f \in {{}, {"STOP"}}, n \in {1, 3}, c \in {0, 1}}
  \cup {[bursts |-> <<W(1, {"START"})>>, bus |-> c] : c \in {0, 1}}
  \cup {[bursts |-> <<W(1, {"START"}), x>>, bus |-> 1] : x \in {NoCopy(W(1, {})), Cmd(0)}}

MCScripts(k) ==
  CASE k = "spi_v2" -> SpiScripts
    [] k = "spi_bs" -> SpiScripts
    [] k = "spi_dual" -> DualScripts \cup SpiScripts
    [] k = "bpi" -> BpiScripts
    [] k = "jtag" -> JtagScripts
    [] k = "i2c" -> I2cScripts

\* spi_v2 has queues of 8 and shots of 3 bytes, spi_dual shots of 512; the instances
\* have queues of 2 and shots of 2.  The others have their real limits, as far as
\* they matter (a BPI or JTAG burst is one shot).
MCLimits(k) ==
  CASE k = "spi_v2" -> [writeQueue |-> 2, readQueue |-> 2, maxWrite |-> 2, maxRead |-> 2]
    [] k = "spi_dual" -> [writeQueue |-> 1, readQueue |-> 1, maxWrite |-> 2, maxRead |-> 2]
    [] k \in {"spi_bs", "i2c"} -> [writeQueue |-> 1, readQueue |-> 1, maxWrite |-> 1, maxRead |-> 1]
    [] OTHER -> [writeQueue |-> 1, readQueue |-> 1, maxWrite |-> 100, maxRead |-> 100]
=============================================================================
