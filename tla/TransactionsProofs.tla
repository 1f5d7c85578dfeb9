------------------------- MODULE TransactionsProofs -------------------------
(***************************************************************************)
(* The transaction controllers, for every sequence of transactions, every  *)
(* size of the queues and shots, every number of banks and busses.         *)
(***************************************************************************)
EXTENDS Transactions, FiniteSetTheorems, WellFoundedInduction, TLAPS

-----------------------------------------------------------------------------
(* The way of a burst through process_transaction and controller_base.c.   *)

BurstPcs == {"write", "wait", "drain", "request", "read", "refill", "post"}

\* The record of the burst under way.
Shaped(s) ==
  s \in [pc : {"none", "next"} \cup BurstPcs, b : {s.b}, rem : Nat, queued : Nat, req : Nat,
         rd : Nat, buf : {s.buf}, first : BOOLEAN, final : BOOLEAN, flags : {s.flags}]

\* The variables of the driver, apart from the device.
TypeOK ==
  /\ kind \in Kinds
  /\ txn \in Seq(Bursts(kind))
  /\ Shaped(t)
  /\ last = [b |-> last.b, how |-> last.how]
  /\ last.how \in {"ok", "error", "copy"}
  /\ count \in Nat

\* The burst under way.
UnderWay ==
  t.pc \in BurstPcs =>
    /\ t.b \in Bursts(kind) /\ t.b.len > 0 /\ t.flags = t.b.flags
    /\ t.pc \in {"write", "wait", "drain"} => t.b.type = "write"
    /\ t.pc \in {"request", "read", "refill"} => t.b.type = "read"
    /\ t.b.type \in {"write", "read"}

\* A read has requested something before it reads, and goes on while something is left.
ReadsOn ==
  /\ t.pc = "request" => (t.queued > 0 => t.rd > 0) /\ (t.rd = 0 => t.req > 0)
  /\ t.pc = "read" => (t.rd = 0 => t.req = 0)
  /\ t.pc = "refill" => t.req > 0

Flow == TypeOK /\ UnderWay /\ ReadsOn

LEMMA LimitsTyped ==
  ASSUME kind \in Kinds
  PROVE  /\ L.writeQueue \in Nat \ {0} /\ L.readQueue \in Nat \ {0}
         /\ L.maxWrite \in Nat \ {0} /\ L.maxRead \in Nat \ {0}
         /\ \A b \in Bursts(kind) : b.len \in Nat
         /\ \A s \in Scripts(kind) : s.bursts \in Seq(Bursts(kind))
  BY TransactionsAssumption DEF L

LEMMA SmallerTyped ==
  ASSUME NEW m \in Nat, NEW n \in Nat \ {0}
  PROVE  /\ Smaller(m, n) \in 0 .. m
         /\ m > 0 => Smaller(m, n) > 0
         /\ m - Smaller(m, n) = 0 <=> m <= n
  BY DEF Smaller

LEMMA QuietShaped ==
  ASSUME NEW p \in {"none", "next"} \cup BurstPcs
  PROVE  Shaped(Quiet(p)) /\ Quiet(p).pc = p
  BY DEF Shaped, Quiet

\* Between bursts.
LEMMA QuietFlow ==
  ASSUME NEW p \in {"none", "next"}, t' = Quiet(p), kind' \in Kinds,
         txn' \in Seq(Bursts(kind')), last' = [b |-> last'.b, how |-> last'.how],
         last'.how \in {"ok", "error", "copy"}, count' \in Nat
  PROVE  Flow'
<1>1. Shaped(t') /\ t'.pc = p
  BY QuietShaped
<1>2. QED
  BY <1>1 DEF Flow, TypeOK, UnderWay, ReadsOn, BurstPcs

LEMMA InitFlow == Init => Flow
<1> SUFFICES ASSUME Init PROVE Flow
  OBVIOUS
<1>1. Shaped(t) /\ t.pc = "none"
  BY QuietShaped DEF Init
<1>2. QED
  BY <1>1 DEF Init, Flow, TypeOK, UnderWay, ReadsOn, BurstPcs

\* The rest of the transaction.
LEMMA TailTyped ==
  ASSUME TypeOK, txn # <<>>
  PROVE  Tail(txn) \in Seq(Bursts(kind)) /\ Head(txn) \in Bursts(kind)
  BY DEF TypeOK

LEMMA EmptyTyped == \A k : <<>> \in Seq(Bursts(k))
  OBVIOUS

\* A transaction that fails.
LEMMA FailFlow ==
  ASSUME TypeOK, NEW d, NEW b, NEW how \in {"error", "copy"}, Fail(d, b, how)
  PROVE  Flow'
<1>1. t' = Quiet("none") /\ txn' = <<>> /\ last' = [b |-> b, how |-> how]
      /\ kind' = kind /\ count' = count
  BY DEF Fail
<1>2. last' = [b |-> last'.b, how |-> last'.how] /\ last'.how = how
  BY <1>1
<1>3. QED
  BY <1>1, <1>2, EmptyTyped, QuietFlow DEF TypeOK

LEMMA AbortFlow ==
  ASSUME TypeOK, NEW d, Abort(d)
  PROVE  Flow'
  BY FailFlow DEF Abort

\* Steps that leave the burst as it is.
LEMMA SameFlow ==
  Flow /\ UNCHANGED <<kind, txn, t, last, count>> => Flow'
  BY DEF Flow, TypeOK, UnderWay, ReadsOn

LEMMA OutsideFlow ==
  Flow /\ (BeginTransaction \/ EndTransaction \/ SkipBurst \/ CopyInFails \/ StateChange
           \/ Command \/ PostBurst) => Flow'
<1> SUFFICES ASSUME Flow,
                    BeginTransaction \/ EndTransaction \/ SkipBurst \/ CopyInFails
                    \/ StateChange \/ Command \/ PostBurst
             PROVE  Flow'
  OBVIOUS
<1>0. TypeOK /\ kind \in Kinds
  BY DEF Flow, TypeOK
<1>1. CASE BeginTransaction
  <2>1. PICK s \in Scripts(kind) : txn' = s.bursts
    BY <1>1 DEF BeginTransaction
  <2>2. txn' \in Seq(Bursts(kind))
    BY <1>0, <2>1, LimitsTyped
  <2>3. QED
    BY <1>0, <1>1, <2>2, QuietFlow DEF BeginTransaction, TypeOK
<1>2. CASE EndTransaction
  BY <1>0, <1>2, QuietFlow DEF EndTransaction, TypeOK
<1>3. CASE SkipBurst
  <2>1. t' = t /\ kind' = kind /\ last' = last /\ count' = count /\ txn' = Tail(txn)
        /\ txn # <<>>
    BY <1>3 DEF SkipBurst
  <2>2. txn' \in Seq(Bursts(kind))
    BY <1>0, <2>1, TailTyped
  <2>3. QED
    BY <2>1, <2>2 DEF Flow, TypeOK, UnderWay, ReadsOn
<1>4. CASE CopyInFails
  BY <1>0, <1>4, FailFlow DEF CopyInFails
<1>5. CASE StateChange \/ Command
  <2>1. txn # <<>>
    BY <1>5 DEF StateChange, Command, HasBurst
  <2>2. CASE \E d : Fail(d, burst, "error")
    BY <1>0, <2>2, FailFlow
  <2>3. CASE /\ t' = t /\ kind' = kind /\ count' = count /\ txn' = Tail(txn)
             /\ last' = [b |-> burst, how |-> "ok"]
    <3>1. txn' \in Seq(Bursts(kind))
      BY <1>0, <2>1, <2>3, TailTyped
    <3>2. last' = [b |-> last'.b, how |-> last'.how] /\ last'.how = "ok"
      BY <2>3
    <3>3. QED
      BY <2>3, <3>1, <3>2 DEF Flow, TypeOK, UnderWay, ReadsOn
  <2>4. QED
    BY <1>5, <2>2, <2>3 DEF StateChange, Command
<1>6. CASE PostBurst
  <2>1. CASE \E d : Fail(d, t.b, "copy")
    BY <1>0, <2>1, FailFlow
  <2>2. CASE /\ t' = Quiet("next") /\ kind' = kind /\ count' = count /\ txn' = txn
             /\ last' = [b |-> t.b, how |-> "ok"]
    <3>1. last' = [b |-> last'.b, how |-> last'.how] /\ last'.how = "ok"
      BY <2>2
    <3>2. QED
      BY <1>0, <2>2, <3>1, QuietFlow DEF TypeOK
  <2>3. QED
    BY <1>6, <2>1, <2>2 DEF PostBurst
<1>7. QED
  BY <1>1, <1>2, <1>3, <1>4, <1>5, <1>6

\* StartBurst leaves the burst at its loop.
Begun(s, b) ==
  /\ Shaped(s) /\ s.b = b /\ s.flags = b.flags
  /\ s.pc = IF b.type = "write" THEN "write" ELSE "request"
  /\ s.rem = b.len /\ s.req = b.len /\ s.rd = 0 /\ s.queued = 0 /\ s.buf = <<>>

LEMMA StartEffect ==
  ASSUME TypeOK, StartBurst
  PROVE  /\ t.pc = "next" /\ txn # <<>> /\ burst.type \in {"write", "read"} /\ burst.len > 0
         /\ burst \in Bursts(kind) /\ burst.len \in Nat
         /\ \E o \in HandlePreBurst([dev EXCEPT !.got = <<>>, !.out = 0], burst) :
              \/ ~o.ok /\ \E e \in BurstAborted(o.d) : Fail(e, burst, "error")
              \/ /\ o.ok /\ dev' = o.d /\ Begun(t', burst) /\ txn' = Tail(txn)
                 /\ UNCHANGED <<kind, last, count>>
<1>1. t.pc = "next" /\ txn # <<>> /\ burst.type \in {"write", "read"} /\ burst.len > 0
  BY DEF StartBurst, HasBurst
<1>2. burst \in Bursts(kind) /\ kind \in Kinds
  BY <1>1, TailTyped DEF burst, TypeOK
<1>3. burst.len \in Nat
  BY <1>2, LimitsTyped
<1>4. PICK s : s = [Quiet(IF burst.type = "write" THEN "write" ELSE "request") EXCEPT
                      !.b = burst, !.flags = burst.flags, !.rem = burst.len, !.req = burst.len]
  OBVIOUS
<1>5. Begun(s, burst)
  <2>1. PICK p : p = IF burst.type = "write" THEN "write" ELSE "request"
    OBVIOUS
  <2>2. p \in BurstPcs
    BY <2>1 DEF BurstPcs
  <2>3. PICK n \in Nat : n = burst.len
    BY <1>3
  <2>31. PICK b, f : b = burst /\ f = burst.flags
    OBVIOUS
  <2>4. s = [Quiet(p) EXCEPT !.b = b, !.flags = f, !.rem = n, !.req = n]
    BY <1>4, <2>1, <2>3, <2>31
  <2>5. /\ Shaped(s) /\ s.pc = p /\ s.b = b /\ s.flags = f /\ s.rem = n /\ s.req = n
        /\ s.rd = 0 /\ s.queued = 0 /\ s.buf = <<>>
    BY <2>2, <2>4 DEF Shaped, Quiet
  <2>6. QED
    BY <2>1, <2>3, <2>31, <2>5 DEF Begun
<1>6. \E o \in HandlePreBurst([dev EXCEPT !.got = <<>>, !.out = 0], burst) :
        IF ~o.ok THEN \E e \in BurstAborted(o.d) : Fail(e, burst, "error")
        ELSE /\ dev' = o.d /\ t' = s /\ txn' = Tail(txn) /\ UNCHANGED <<kind, last, count>>
  BY <1>4, Zenon DEF StartBurst
<1>7. QED
  BY <1>1, <1>2, <1>3, <1>5, <1>6

LEMMA StartFlow == Flow /\ StartBurst => Flow'
<1> SUFFICES ASSUME Flow, StartBurst PROVE Flow'
  OBVIOUS
<1>0. TypeOK /\ kind \in Kinds
  BY DEF Flow, TypeOK
<1>1. /\ txn # <<>> /\ burst.type \in {"write", "read"} /\ burst.len > 0
      /\ burst \in Bursts(kind) /\ burst.len \in Nat
  BY <1>0, StartEffect
<1>2. CASE \E e : Fail(e, burst, "error")
  BY <1>0, <1>2, FailFlow
<1>3. CASE Begun(t', burst) /\ txn' = Tail(txn) /\ UNCHANGED <<kind, last, count>>
  <2>1. txn' \in Seq(Bursts(kind))
    BY <1>0, <1>1, <1>3, TailTyped
  <2>2. PICK b : b = burst
    OBVIOUS
  <2>3. /\ Shaped(t') /\ t'.b = b /\ t'.flags = b.flags
        /\ t'.pc = (IF b.type = "write" THEN "write" ELSE "request")
        /\ t'.rem = b.len /\ t'.req = b.len /\ t'.rd = 0 /\ t'.queued = 0
    BY <1>3, <2>2 DEF Begun
  <2>4. TypeOK'
    BY <1>0, <1>3, <2>1, <2>3 DEF TypeOK
  <2>5. UnderWay' /\ ReadsOn'
    BY <1>1, <1>3, <2>2, <2>3 DEF UnderWay, ReadsOn, BurstPcs
  <2>6. QED
    BY <2>4, <2>5 DEF Flow
<1>4. QED
  BY <1>0, <1>2, <1>3, StartEffect
-----------------------------------------------------------------------------
(* The loops of ctrl_write_burst and ctrl_read_burst.                      *)

\* The same burst, at p.
At(s, p) == Shaped(s) /\ s.pc = p /\ s.b = t.b /\ s.flags = t.flags

Stays == UNCHANGED <<kind, txn, last, count>>

LEMMA StaysFlow ==
  ASSUME Flow, Stays, NEW p \in BurstPcs, At(t', p), t.pc \in BurstPcs,
         p \in {"write", "wait", "drain"} => t.b.type = "write",
         p \in {"request", "read", "refill"} => t.b.type = "read",
         p = "request" => (t'.queued > 0 => t'.rd > 0) /\ (t'.rd = 0 => t'.req > 0),
         p = "read" => (t'.rd = 0 => t'.req = 0),
         p = "refill" => t'.req > 0
  PROVE  Flow'
<1>1. TypeOK'
  BY DEF Flow, TypeOK, Stays, At
<1>2. UnderWay'
  BY DEF Flow, UnderWay, Stays, At
<1>3. ReadsOn'
  BY DEF ReadsOn, At
<1>4. QED
  BY <1>1, <1>2, <1>3 DEF Flow

\* One shot of a write: the last one is marked as such.
LEMMA WriteEffect ==
  ASSUME TypeOK, WriteShot
  PROVE  /\ t.pc = "write" /\ t.rem > 0
         /\ \E s : \E n \in Nat : \E o \in WriteShotOf(dev, Positions(t.b.len - t.rem, n), s) :
              /\ s.flags = t.flags /\ s.b = t.b /\ s.final \in BOOLEAN
              /\ n = Smaller(t.rem, L.maxWrite) /\ n > 0 /\ n <= t.rem
              /\ \/ ~o.ok /\ Abort(o.d)
                 \/ /\ o.ok /\ dev' = o.d /\ Stays
                    /\ At(t', IF (t.queued + 1) % L.writeQueue = 0 THEN "wait" ELSE "write")
                    /\ (t'.rem = 0) = s.final
                    /\ t'.queued = t.queued + 1 /\ t'.rem = t.rem - n
<1>1. t.pc = "write" /\ t.rem > 0
  BY DEF WriteShot
<1>2. Shaped(t) /\ L.maxWrite \in Nat \ {0}
  BY LimitsTyped DEF TypeOK
<1>3. t.rem \in Nat /\ t.queued \in Nat
  BY <1>2 DEF Shaped
<1>4. PICK n \in Nat : n = Smaller(t.rem, L.maxWrite) /\ n > 0 /\ n <= t.rem
                       /\ (t.rem - n = 0 <=> t.rem <= L.maxWrite)
  BY <1>1, <1>2, <1>3 DEF Smaller
<1>5. PICK fst \in BOOLEAN : fst = (t.rem = t.b.len)
  <2>1. (t.rem = t.b.len) = TRUE \/ (t.rem = t.b.len) = FALSE
    BY SMT
  <2>2. QED
    BY <2>1, Zenon
<1>6. PICK fin \in BOOLEAN : fin = (t.rem <= L.maxWrite)
  <2>1. (t.rem <= L.maxWrite) = TRUE \/ (t.rem <= L.maxWrite) = FALSE
    BY <1>2, <1>3, SMT
  <2>2. QED
    BY <2>1, Zenon
<1>7. PICK s : s = [t EXCEPT !.first = fst, !.final = fin]
  OBVIOUS
<1>8. Shaped(s) /\ s.pc = t.pc /\ s.flags = t.flags /\ s.b = t.b /\ s.final = fin
      /\ s.rem = t.rem /\ s.queued = t.queued
  BY <1>2, <1>7 DEF Shaped
<1>9. PICK p : p = IF (t.queued + 1) % L.writeQueue = 0 THEN "wait" ELSE "write"
  OBVIOUS
<1>10. p \in BurstPcs
  BY <1>9 DEF BurstPcs
<1>11. PICK r : r = [s EXCEPT !.rem = @ - n, !.queued = @ + 1, !.pc = p]
  OBVIOUS
<1>12. At(r, p) /\ r.rem = t.rem - n /\ r.queued = t.queued + 1
  <2>1. t.rem - n \in Nat /\ t.queued + 1 \in Nat
    BY <1>3, <1>4
  <2>2. QED
    BY <1>8, <1>10, <1>11, <2>1 DEF Shaped, At
<1>13. (r.rem = 0) = fin
  BY <1>4, <1>6, <1>12
<1>14. PICK o \in WriteShotOf(dev, Positions(t.b.len - t.rem, n), s) :
         IF ~o.ok THEN Abort(o.d)
         ELSE dev' = o.d /\ t' = r /\ UNCHANGED <<kind, txn, last, count>>
  BY <1>4, <1>5, <1>6, <1>7, <1>9, <1>11, Zenon DEF WriteShot
<1>15. \/ ~o.ok /\ Abort(o.d)
       \/ /\ o.ok /\ dev' = o.d /\ Stays
          /\ At(t', IF (t.queued + 1) % L.writeQueue = 0 THEN "wait" ELSE "write")
          /\ (t'.rem = 0) = s.final
          /\ t'.queued = t.queued + 1 /\ t'.rem = t.rem - n
  BY <1>8, <1>9, <1>12, <1>13, <1>14 DEF Stays
<1>16. s.flags = t.flags /\ s.b = t.b /\ s.final \in BOOLEAN
  BY <1>8
<1>17. QED
  BY <1>1, <1>4, <1>14, <1>15, <1>16, Zenon

\* The waits for the write queue.
LEMMA WaitEffect ==
  ASSUME TypeOK, WaitQueueEmpty \/ DrainQueue
  PROVE  /\ t.pc \in {"wait", "drain"}
         /\ \E o \in WaitWrittenOf(dev) :
              \/ ~o.ok /\ Abort(o.d)
              \/ /\ o.ok /\ dev' = o.d /\ Stays
                 /\ At(t', IF t.pc = "wait" THEN "write" ELSE "post")
                 /\ t'.rem = t.rem /\ t'.queued = t.queued
<1>1. t.pc \in {"wait", "drain"}
  BY DEF WaitQueueEmpty, DrainQueue
<1>2. PICK p : p = IF t.pc = "wait" THEN "write" ELSE "post"
  OBVIOUS
<1>3. PICK r : r = [t EXCEPT !.pc = p]
  OBVIOUS
<1>4. At(r, p) /\ r.rem = t.rem /\ r.queued = t.queued
  BY <1>2, <1>3 DEF TypeOK, Shaped, At, BurstPcs
<1>5. PICK o \in WaitWrittenOf(dev) :
        IF ~o.ok THEN Abort(o.d)
        ELSE dev' = o.d /\ t' = r /\ UNCHANGED <<kind, txn, last, count>>
  BY <1>1, <1>2, <1>3 DEF WaitQueueEmpty, DrainQueue
<1>6. \/ ~o.ok /\ Abort(o.d)
      \/ /\ o.ok /\ dev' = o.d /\ Stays
         /\ At(t', IF t.pc = "wait" THEN "write" ELSE "post")
         /\ t'.rem = t.rem /\ t'.queued = t.queued
  BY <1>2, <1>4, <1>5 DEF Stays
<1>7. QED
  BY <1>1, <1>5, <1>6, Zenon

\* The ends of the loops.
LEMMA DoneEffect ==
  ASSUME TypeOK, WriteDone \/ RequestsQueued \/ ReadDone
  PROVE  /\ dev' = dev /\ Stays
         /\ t'.rem = t.rem /\ t'.queued = t.queued /\ t'.req = t.req /\ t'.rd = t.rd
         /\ t'.buf = t.buf
         /\ WriteDone => /\ t.pc = "write" /\ t.rem = 0
                         /\ At(t', IF t.queued % L.writeQueue # 0 THEN "drain" ELSE "post")
         /\ RequestsQueued => t.pc = "request" /\ ~MayRequest /\ At(t', "read")
         /\ ReadDone => t.pc = "read" /\ t.rd = 0 /\ At(t', "post")
<1>1. Shaped(t)
  BY DEF TypeOK
<1>2. CASE WriteDone
  <2>1. PICK p : p = IF t.queued % L.writeQueue # 0 THEN "drain" ELSE "post"
    OBVIOUS
  <2>2. t' = [t EXCEPT !.first = FALSE, !.final = FALSE, !.pc = p]
    BY <1>2, <2>1, Zenon DEF WriteDone
  <2>3. p \in BurstPcs /\ p \in {"drain", "post"}
    BY <2>1 DEF BurstPcs
  <2>4. At(t', p) /\ t'.rem = t.rem /\ t'.queued = t.queued /\ t'.req = t.req /\ t'.rd = t.rd
        /\ t'.buf = t.buf
    BY <1>1, <2>2, <2>3 DEF Shaped, At
  <2>5. dev' = dev /\ Stays /\ t.pc = "write" /\ t.rem = 0
    BY <1>2 DEF WriteDone, Stays
  <2>6. ~RequestsQueued /\ ~ReadDone
    BY <2>5 DEF RequestsQueued, ReadDone
  <2>7. QED
    BY <2>1, <2>4, <2>5, <2>6
<1>3. CASE RequestsQueued
  <2>1. t' = [t EXCEPT !.pc = "read", !.first = TRUE] /\ dev' = dev /\ Stays
        /\ t.pc = "request" /\ ~MayRequest
    BY <1>3 DEF RequestsQueued, Stays
  <2>2. At(t', "read") /\ t'.rem = t.rem /\ t'.queued = t.queued /\ t'.req = t.req
        /\ t'.rd = t.rd /\ t'.buf = t.buf
    BY <1>1, <2>1 DEF Shaped, At, BurstPcs
  <2>3. ~WriteDone /\ ~ReadDone
    BY <2>1 DEF WriteDone, ReadDone
  <2>4. QED
    BY <2>1, <2>2, <2>3
<1>4. CASE ReadDone
  <2>1. t' = [t EXCEPT !.pc = "post", !.final = FALSE] /\ dev' = dev /\ Stays
        /\ t.pc = "read" /\ t.rd = 0
    BY <1>4 DEF ReadDone, Stays
  <2>2. At(t', "post") /\ t'.rem = t.rem /\ t'.queued = t.queued /\ t'.req = t.req
        /\ t'.rd = t.rd /\ t'.buf = t.buf
    BY <1>1, <2>1 DEF Shaped, At, BurstPcs
  <2>3. ~WriteDone /\ ~RequestsQueued
    BY <2>1 DEF WriteDone, RequestsQueued
  <2>4. QED
    BY <2>1, <2>2, <2>3
<1>5. QED
  BY <1>2, <1>3, <1>4

\* A request, the first ones and those that replace one that was answered.
LEMMA RequestEffect ==
  ASSUME TypeOK, RequestRead \/ RefillRead
  PROVE  /\ t.pc \in {"request", "refill"}
         /\ t.pc = "request" => MayRequest
         /\ \E n \in Nat : \E o \in RequestReadOf(dev, n) :
              /\ n = Smaller(t.req, L.maxRead) /\ n <= t.req /\ (t.req > 0 => n > 0)
              /\ \/ ~o.ok /\ Abort(o.d)
                 \/ /\ o.ok /\ dev' = o.d /\ Stays
                    /\ At(t', IF t.pc = "request" THEN "request" ELSE "read")
                    /\ t'.req = t.req - n /\ t'.rd = t.rd + n /\ t'.buf = t.buf
                    /\ t'.queued = IF t.pc = "request" THEN t.queued + 1 ELSE t.queued
<1>1. t.pc \in {"request", "refill"} /\ (t.pc = "request" => MayRequest)
  BY DEF RequestRead, RefillRead
<1>2. Shaped(t) /\ L.maxRead \in Nat \ {0}
  BY LimitsTyped DEF TypeOK
<1>3. t.req \in Nat /\ t.rd \in Nat /\ t.queued \in Nat
  BY <1>2 DEF Shaped
<1>4. PICK n \in Nat : n = Smaller(t.req, L.maxRead) /\ n <= t.req /\ (t.req > 0 => n > 0)
  BY <1>2, <1>3 DEF Smaller
<1>5. t.req - n \in Nat /\ t.rd + n \in Nat /\ t.queued + 1 \in Nat
  BY <1>3, <1>4
<1>6. CASE RequestRead
  <2>1. PICK s : s = [t EXCEPT !.req = @ - n, !.rd = @ + n, !.queued = @ + 1]
    OBVIOUS
  <2>2. Shaped(s) /\ s.pc = t.pc /\ s.b = t.b /\ s.flags = t.flags /\ s.req = t.req - n
        /\ s.rd = t.rd + n /\ s.queued = t.queued + 1 /\ s.buf = t.buf
    BY <1>2, <1>5, <2>1 DEF Shaped
  <2>3. PICK fst \in BOOLEAN : fst = (t.queued = 0)
    <3>1. (t.queued = 0) = TRUE \/ (t.queued = 0) = FALSE
      BY SMT
    <3>2. QED
      BY <3>1, Zenon
  <2>4. PICK fin \in BOOLEAN : fin = (s.rd = t.b.len)
    <3>1. (s.rd = t.b.len) = TRUE \/ (s.rd = t.b.len) = FALSE
      BY SMT
    <3>2. QED
      BY <3>1, Zenon
  <2>5. PICK r : r = [s EXCEPT !.first = fst, !.final = fin]
    OBVIOUS
  <2>6. At(r, t.pc) /\ r.req = t.req - n /\ r.rd = t.rd + n /\ r.queued = t.queued + 1
        /\ r.buf = t.buf
    BY <2>2, <2>5 DEF Shaped, At
  <2>7. t.pc = "request"
    BY <1>6 DEF RequestRead
  <2>8. PICK o \in RequestReadOf(dev, n) :
          IF ~o.ok THEN Abort(o.d)
          ELSE dev' = o.d /\ t' = r /\ UNCHANGED <<kind, txn, last, count>>
    BY <1>4, <1>6, <2>1, <2>3, <2>4, <2>5, Zenon DEF RequestRead
  <2>9. \/ ~o.ok /\ Abort(o.d)
        \/ /\ o.ok /\ dev' = o.d /\ Stays
           /\ At(t', IF t.pc = "request" THEN "request" ELSE "read")
           /\ t'.req = t.req - n /\ t'.rd = t.rd + n /\ t'.buf = t.buf
           /\ t'.queued = IF t.pc = "request" THEN t.queued + 1 ELSE t.queued
    BY <2>6, <2>7, <2>8 DEF Stays
  <2>10. QED
    BY <1>1, <1>4, <2>8, <2>9, Zenon
<1>7. CASE RefillRead
  <2>1. PICK r : r = [t EXCEPT !.req = @ - n, !.rd = @ + n, !.pc = "read"]
    OBVIOUS
  <2>2. At(r, "read") /\ r.req = t.req - n /\ r.rd = t.rd + n /\ r.queued = t.queued
        /\ r.buf = t.buf
    BY <1>2, <1>5, <2>1 DEF Shaped, At, BurstPcs
  <2>3. t.pc = "refill"
    BY <1>7 DEF RefillRead
  <2>4. PICK o \in RequestReadOf(dev, n) :
          IF ~o.ok THEN Abort(o.d)
          ELSE dev' = o.d /\ t' = r /\ UNCHANGED <<kind, txn, last, count>>
    BY <1>4, <1>7, <2>1, Zenon DEF RefillRead
  <2>5. \/ ~o.ok /\ Abort(o.d)
        \/ /\ o.ok /\ dev' = o.d /\ Stays
           /\ At(t', IF t.pc = "request" THEN "request" ELSE "read")
           /\ t'.req = t.req - n /\ t'.rd = t.rd + n /\ t'.buf = t.buf
           /\ t'.queued = IF t.pc = "request" THEN t.queued + 1 ELSE t.queued
    BY <2>2, <2>3, <2>4 DEF Stays
  <2>6. QED
    BY <1>1, <1>4, <2>4, <2>5, Zenon
<1>8. QED
  BY <1>6, <1>7

\* One shot of a read: the last one is marked as such.
LEMMA ReadEffect ==
  ASSUME TypeOK, ReadShot
  PROVE  /\ t.pc = "read" /\ t.rd > 0
         /\ \E s : \E n \in Nat : \E o \in ReadShotOf(dev, n, s) :
              /\ s.flags = t.flags /\ s.b = t.b /\ s.final \in BOOLEAN
              /\ n = Smaller(t.rd, L.maxRead) /\ n > 0 /\ n <= t.rd
              /\ \/ ~o.ok /\ Abort(o.d)
                 \/ /\ o.ok /\ dev' = o.d /\ Stays
                    /\ At(t', IF t.req > 0 THEN "refill" ELSE "read")
                    /\ t'.rd = t.rd - n /\ t'.req = t.req /\ t'.queued = t.queued
                    /\ t'.buf = t.buf \o o.data
                    /\ (t'.rd = 0 /\ t.req = 0) = s.final
<1>1. t.pc = "read" /\ t.rd > 0
  BY DEF ReadShot
<1>2. Shaped(t) /\ L.maxRead \in Nat \ {0}
  BY LimitsTyped DEF TypeOK
<1>3. t.req \in Nat /\ t.rd \in Nat /\ t.queued \in Nat
  BY <1>2 DEF Shaped
<1>4. PICK n \in Nat : n = Smaller(t.rd, L.maxRead) /\ n <= t.rd /\ n > 0
                       /\ (t.rd - n = 0 <=> t.rd <= L.maxRead)
  BY <1>1, <1>2, <1>3 DEF Smaller
<1>5. PICK fin \in BOOLEAN : fin = (t.req = 0 /\ t.rd <= L.maxRead)
  <2>1. (t.req = 0 /\ t.rd <= L.maxRead) = TRUE \/ (t.req = 0 /\ t.rd <= L.maxRead) = FALSE
    BY SMT
  <2>2. QED
    BY <2>1, Zenon
<1>6. PICK s : s = [t EXCEPT !.final = fin]
  OBVIOUS
<1>7. Shaped(s) /\ s.pc = t.pc /\ s.flags = t.flags /\ s.b = t.b /\ s.final = fin
      /\ s.rd = t.rd /\ s.req = t.req /\ s.queued = t.queued /\ s.buf = t.buf
  BY <1>2, <1>6 DEF Shaped
<1>8. PICK p : p = IF t.req > 0 THEN "refill" ELSE "read"
  OBVIOUS
<1>9. p \in BurstPcs
  BY <1>8 DEF BurstPcs
<1>10. PICK o \in ReadShotOf(dev, n, s) :
         IF ~o.ok THEN Abort(o.d)
         ELSE /\ dev' = o.d
              /\ t' = [s EXCEPT !.rd = @ - n, !.buf = @ \o o.data, !.first = FALSE, !.pc = p]
              /\ UNCHANGED <<kind, txn, last, count>>
  BY <1>4, <1>5, <1>6, <1>8, Zenon DEF ReadShot
<1>11. PICK x : x = s.buf \o o.data
  OBVIOUS
<1>12. PICK r : r = [s EXCEPT !.rd = @ - n, !.buf = x, !.first = FALSE, !.pc = p]
  OBVIOUS
<1>13. At(r, p) /\ r.rd = t.rd - n /\ r.req = t.req /\ r.queued = t.queued /\ r.buf = x
  <2>1. t.rd - n \in Nat
    BY <1>3, <1>4
  <2>2. QED
    BY <1>7, <1>9, <1>12, <2>1 DEF Shaped, At
<1>14. (r.rd = 0 /\ t.req = 0) = fin
  BY <1>3, <1>4, <1>5, <1>13
<1>15. \/ ~o.ok /\ Abort(o.d)
       \/ /\ o.ok /\ dev' = o.d /\ Stays
          /\ At(t', IF t.req > 0 THEN "refill" ELSE "read")
          /\ t'.rd = t.rd - n /\ t'.req = t.req /\ t'.queued = t.queued
          /\ t'.buf = t.buf \o o.data
          /\ (t'.rd = 0 /\ t.req = 0) = s.final
  <2>1. CASE ~o.ok
    BY <1>10, <2>1
  <2>2. CASE o.ok
    <3>1. t' = r /\ dev' = o.d /\ Stays
      BY <1>10, <1>11, <1>12, <2>2 DEF Stays
    <3>2. QED
      BY <1>7, <1>8, <1>11, <1>13, <1>14, <2>2, <3>1
  <2>3. QED
    BY <2>1, <2>2
<1>16. s.flags = t.flags /\ s.b = t.b /\ s.final \in BOOLEAN
  BY <1>7
<1>17. QED
  BY <1>1, <1>4, <1>10, <1>15, <1>16, Zenon

LEMMA LoopFlow ==
  Flow /\ (WriteShot \/ WaitQueueEmpty \/ DrainQueue \/ WriteDone \/ RequestRead \/ RefillRead
           \/ RequestsQueued \/ ReadShot \/ ReadDone) => Flow'
<1> SUFFICES ASSUME Flow,
                    WriteShot \/ WaitQueueEmpty \/ DrainQueue \/ WriteDone \/ RequestRead
                    \/ RefillRead \/ RequestsQueued \/ ReadShot \/ ReadDone
             PROVE  Flow'
  OBVIOUS
<1>0. TypeOK /\ UnderWay /\ ReadsOn /\ t.rem \in Nat /\ t.req \in Nat /\ t.rd \in Nat
      /\ t.queued \in Nat /\ kind \in Kinds
  BY DEF Flow, TypeOK, Shaped
<1>a. ASSUME \E d : Abort(d) PROVE Flow'
  BY <1>0, <1>a, AbortFlow
<1>1. CASE WriteShot
  <2>1. t.pc = "write" /\ (\/ \E d : Abort(d)
                           \/ \E p \in {"wait", "write"} : Stays /\ At(t', p))
    BY <1>0, <1>1, WriteEffect
  <2>2. t.pc \in BurstPcs /\ t.b.type = "write"
    BY <1>0, <2>1 DEF UnderWay, BurstPcs
  <2>3. ASSUME NEW p \in {"wait", "write"}, Stays, At(t', p) PROVE Flow'
    <3>1. p \in BurstPcs
      BY DEF BurstPcs
    <3>2. QED
      BY <2>2, <2>3, <3>1, StaysFlow
  <2>4. QED
    BY <1>a, <2>1, <2>3
<1>2. CASE WaitQueueEmpty \/ DrainQueue
  <2>1. t.pc \in {"wait", "drain"} /\ (\/ \E d : Abort(d)
                           \/ \E p \in {"write", "post"} : Stays /\ At(t', p))
    BY <1>0, <1>2, WaitEffect
  <2>2. t.pc \in BurstPcs /\ t.b.type = "write"
    BY <1>0, <2>1 DEF UnderWay, BurstPcs
  <2>3. ASSUME NEW p \in {"write", "post"}, Stays, At(t', p) PROVE Flow'
    <3>1. p \in BurstPcs
      BY DEF BurstPcs
    <3>2. QED
      BY <2>2, <2>3, <3>1, StaysFlow
  <2>4. QED
    BY <1>a, <2>1, <2>3
<1>3. CASE WriteDone
  <2>1. t.pc = "write" /\ Stays /\ \E p \in {"drain", "post"} : At(t', p)
    BY <1>0, <1>3, DoneEffect
  <2>2. t.pc \in BurstPcs /\ t.b.type = "write"
    BY <1>0, <2>1 DEF UnderWay, BurstPcs
  <2>3. ASSUME NEW p \in {"drain", "post"}, Stays, At(t', p) PROVE Flow'
    <3>1. p \in BurstPcs
      BY DEF BurstPcs
    <3>2. QED
      BY <2>2, <2>3, <3>1, StaysFlow
  <2>4. QED
    BY <2>1, <2>3
<1>4. CASE RequestRead \/ RefillRead
  <2>1. /\ t.pc \in {"request", "refill"} /\ (t.pc = "request" => MayRequest)
        /\ \/ \E d : Abort(d)
           \/ \E n \in Nat :
                /\ Stays /\ At(t', IF t.pc = "request" THEN "request" ELSE "read")
                /\ n <= t.req /\ (t.req > 0 => n > 0)
                /\ t'.req = t.req - n /\ t'.rd = t.rd + n
    BY <1>0, <1>4, RequestEffect
  <2>2. t.pc \in BurstPcs /\ t.b.type = "read"
    BY <1>0, <2>1 DEF UnderWay, BurstPcs
  <2>3. t.req > 0
    BY <1>0, <2>1 DEF ReadsOn, MayRequest
  <2>4. ASSUME NEW n \in Nat, Stays, At(t', IF t.pc = "request" THEN "request" ELSE "read"),
               n <= t.req, t.req > 0 => n > 0, t'.req = t.req - n, t'.rd = t.rd + n
        PROVE  Flow'
    <3>1. t'.rd > 0
      BY <1>0, <2>3, <2>4
    <3>2. PICK p : p = IF t.pc = "request" THEN "request" ELSE "read"
      OBVIOUS
    <3>3. p \in BurstPcs /\ p \in {"request", "read"}
      BY <3>2 DEF BurstPcs
    <3>4. t'.rd # 0
      BY <1>0, <2>4, <3>1
    <3>5. QED
      BY <2>2, <2>4, <3>1, <3>2, <3>3, <3>4, StaysFlow
  <2>5. QED
    BY <1>a, <2>1, <2>4
<1>5. CASE RequestsQueued
  <2>1. t.pc = "request" /\ ~MayRequest /\ Stays /\ At(t', "read") /\ t'.rd = t.rd
        /\ t'.req = t.req
    BY <1>0, <1>5, DoneEffect
  <2>2. t.pc \in BurstPcs /\ t.b.type = "read"
    BY <1>0, <2>1 DEF UnderWay, BurstPcs
  <2>3. t'.rd = 0 => t'.req = 0
    <3>1. L.readQueue \in Nat \ {0}
      BY <1>0, LimitsTyped
    <3>2. QED
      BY <1>0, <2>1, <3>1 DEF ReadsOn, MayRequest
  <2>4. "read" \in BurstPcs
    BY DEF BurstPcs
  <2>5. QED
    BY <2>1, <2>2, <2>3, <2>4, StaysFlow
<1>6. CASE ReadShot
  <2>1. /\ t.pc = "read"
        /\ \/ \E d : Abort(d)
           \/ /\ Stays /\ At(t', IF t.req > 0 THEN "refill" ELSE "read")
              /\ t'.req = t.req
    BY <1>0, <1>6, ReadEffect
  <2>2. t.pc \in BurstPcs /\ t.b.type = "read"
    BY <1>0, <2>1 DEF UnderWay, BurstPcs
  <2>3. ASSUME Stays, At(t', IF t.req > 0 THEN "refill" ELSE "read"), t'.req = t.req
        PROVE  Flow'
    <3>1. PICK p : p = IF t.req > 0 THEN "refill" ELSE "read"
      OBVIOUS
    <3>2. p \in BurstPcs /\ p \in {"refill", "read"}
      BY <3>1 DEF BurstPcs
    <3>3. (p = "read" => t'.req = 0) /\ (p = "refill" => t'.req > 0)
      BY <1>0, <2>3, <3>1
    <3>4. QED
      BY <2>2, <2>3, <3>1, <3>2, <3>3, StaysFlow
  <2>4. QED
    BY <1>a, <2>1, <2>3
<1>7. CASE ReadDone
  <2>1. t.pc = "read" /\ Stays /\ At(t', "post")
    BY <1>0, <1>7, DoneEffect
  <2>2. t.pc \in BurstPcs /\ t.b.type = "read" /\ "post" \in BurstPcs
    BY <1>0, <2>1 DEF UnderWay, BurstPcs
  <2>3. QED
    BY <2>1, <2>2, StaysFlow
<1>8. QED
  BY <1>1, <1>2, <1>3, <1>4, <1>5, <1>6, <1>7

LEMMA StepFlow == Flow /\ [Next]_vars => Flow'
<1> SUFFICES ASSUME Flow, [Next]_vars PROVE Flow'
  OBVIOUS
<1>1. CASE UNCHANGED <<kind, txn, t, last, count>>
  BY <1>1, SameFlow
<1>2. CASE Execute \/ Vanish \/ UNCHANGED vars
  BY <1>2, SameFlow DEF Execute, Vanish, vars
<1>3. CASE BeginTransaction \/ Driver
  BY <1>3, OutsideFlow, StartFlow, LoopFlow DEF Driver, BurstStep
<1>4. QED
  BY <1>2, <1>3 DEF Next

\* The bookkeeping of process_transaction and controller_base.c is consistent: what is
\* left to write, to request and to read, the burst that is under way and the rest of
\* the transaction, whatever fails and whenever.
THEOREM BurstsFlow == Spec => []Flow
<1>1. QED
  BY InitFlow, StepFlow, PTL DEF Spec

-----------------------------------------------------------------------------
(* The I2C core and its busses.                                            *)

\* A device of an I2C bus controller.
I2cShape(d) ==
  d \in [bus : Busses \cup {NoBus}, en : BOOLEAN, act : BOOLEAN, busy : [Busses -> BOOLEAN],
         stuck : BOOLEAN, got : {d.got}, out : {d.out}, gone : BOOLEAN]

\* What makes the busses of a core safe to switch.
OthersIdle(d) == d.gone \/ d.stuck \/ \A bus \in Busses \ {d.bus} : ~d.busy[bus]
ActiveIdle(d) == d.gone \/ d.stuck \/ d.bus = NoBus \/ ~d.busy[d.bus]
BitOfBus(d) == d.gone \/ (d.act => d.bus \in Activated)
BitOff(d) == d.gone \/ ~d.act

I2cGood(d) == I2cShape(d) /\ d.en /\ BitOfBus(d) /\ OthersIdle(d)

\* e is d up to the activation bit and what the slaves have seen.
SameBus(d, e) ==
  /\ e.bus = d.bus /\ e.en = d.en /\ e.busy = d.busy /\ e.stuck = d.stuck
  /\ e.gone = d.gone

LEMMA AccessShape ==
  ASSUME NEW d, I2cShape(d)
  PROVE  I2cShape(Access(d)) /\ SameBus(d, Access(d)) /\ BitOfBus(Access(d))
<1>0. CASE d.gone
  BY <1>0 DEF Access, SameBus, BitOfBus
<1>1. PICK v \in BOOLEAN : v = (d.bus \in Activated)
  <2>1. CASE d.bus \in Activated
    <3>1. TRUE = (d.bus \in Activated)
      BY <2>1, Zenon
    <3>2. QED
      BY <3>1, Zenon
  <2>2. CASE d.bus \notin Activated
    <3>1. FALSE = (d.bus \in Activated)
      BY <2>2, SMT
    <3>2. QED
      BY <3>1, Zenon
  <2>3. QED
    BY <2>1, <2>2
<1>2. PICK e : e = [d EXCEPT !.act = v]
  OBVIOUS
<1>3. I2cShape(e) /\ SameBus(d, e) /\ e.act = v
  BY <1>2 DEF I2cShape, SameBus
<1>4. CASE ~d.gone
  <2>1. Access(d) = e
    BY <1>1, <1>2, <1>4, Zenon DEF Access
  <2>2. QED
    BY <1>1, <1>3, <2>1 DEF BitOfBus, SameBus
<1>5. QED
  BY <1>0, <1>4

LEMMA ActivateShape ==
  ASSUME NEW d, I2cShape(d), NEW on \in BOOLEAN
  PROVE  /\ I2cShape(ActivateCore(d, on)) /\ SameBus(d, ActivateCore(d, on))
         /\ BitOfBus(d) => BitOfBus(ActivateCore(d, on))
         /\ BitOfBus(d) /\ ~on => BitOff(ActivateCore(d, on))
  BY DEF I2cShape, SameBus, BitOfBus, BitOff, ActivateCore

LEMMA SameBusIdle ==
  ASSUME NEW d, NEW e, SameBus(d, e)
  PROVE  (OthersIdle(d) => OthersIdle(e)) /\ (ActiveIdle(d) => ActiveIdle(e))
  BY DEF SameBus, OthersIdle, ActiveIdle

\* The data that a shot moves.
LEMMA DataShape ==
  ASSUME NEW d, I2cShape(d), NEW bytes, NEW n
  PROVE  /\ I2cShape(Received(d, bytes)) /\ SameBus(d, Received(d, bytes))
         /\ Received(d, bytes).act = d.act
         /\ I2cShape(Answered(d, n)) /\ SameBus(d, Answered(d, n))
         /\ Answered(d, n).act = d.act
         /\ I2cShape([d EXCEPT !.got = <<>>, !.out = 0])
         /\ SameBus(d, [d EXCEPT !.got = <<>>, !.out = 0])
         /\ [d EXCEPT !.got = <<>>, !.out = 0].act = d.act
  BY DEF I2cShape, SameBus, Received, Answered

\* The state of the active bus, and a STOP that the hardware refuses.
SetBusy(d, v) == [d EXCEPT !.busy[d.bus] = v]
OnlyBusy(d, e, v) ==
  /\ I2cShape(e) /\ e.bus = d.bus /\ e.en = d.en /\ e.act = d.act
  /\ e.stuck = d.stuck /\ e.gone = d.gone /\ e.busy[d.bus] = v
  /\ \A bus \in Busses \ {d.bus} : e.busy[bus] = d.busy[bus]

LEMMA BusyShape ==
  ASSUME NEW d, I2cShape(d), NEW v \in BOOLEAN, d.bus # NoBus,
         NEW e, e = SetBusy(d, v)
  PROVE  OnlyBusy(d, e, v)
<1>1. d.busy \in [Busses -> BOOLEAN] /\ d.bus \in Busses
  BY DEF I2cShape
<1>2. PICK f : f = [d.busy EXCEPT ![d.bus] = v]
  OBVIOUS
<1>3. f \in [Busses -> BOOLEAN] /\ f[d.bus] = v
      /\ \A bus \in Busses \ {d.bus} : f[bus] = d.busy[bus]
  BY <1>1, <1>2
<1>4. [d EXCEPT !.busy[d.bus] = v] = [d EXCEPT !.busy = f]
  BY <1>1, <1>2 DEF I2cShape
<1>5. QED
  BY <1>3, <1>4 DEF I2cShape, SetBusy, OnlyBusy

LEMMA StuckShape ==
  ASSUME NEW d, I2cShape(d)
  PROVE  LET e == [d EXCEPT !.stuck = TRUE]
         IN  I2cShape(e) /\ e.bus = d.bus /\ e.en = d.en /\ e.act = d.act /\ e.stuck
             /\ e.gone = d.gone
  BY DEF I2cShape

LEMMA EnableShape ==
  ASSUME NEW d, I2cShape(d), NEW v \in BOOLEAN
  PROVE  LET e == [d EXCEPT !.en = v]
         IN  I2cShape(e) /\ e.bus = d.bus /\ e.en = v /\ e.act = d.act /\ e.stuck = d.stuck
             /\ e.busy = d.busy /\ e.gone = d.gone
  BY DEF I2cShape

LEMMA SwitchShape ==
  ASSUME NEW d, I2cShape(d), NEW b \in Busses
  PROVE  LET e == [d EXCEPT !.bus = b]
         IN  I2cShape(e) /\ e.bus = b /\ e.en = d.en /\ e.stuck = d.stuck /\ e.busy = d.busy
             /\ e.gone = d.gone
  BY DEF I2cShape

\* write_stop: the active bus is idle or stuck, the others are as before.
LEMMA WriteStopSafe ==
  ASSUME NEW d, I2cShape(d), OthersIdle(d), BitOfBus(d), NEW e \in WriteStop(d)
  PROVE  I2cShape(e) /\ OthersIdle(e) /\ BitOfBus(e) /\ ActiveIdle(e) /\ e.bus = d.bus
         /\ e.en = d.en
<1>1. CASE d.bus = NoBus \/ d.gone
  BY <1>1 DEF WriteStop, ActiveIdle
<1>2. CASE d.bus # NoBus /\ ~d.gone
  <2>1. PICK a : a = Access(d)
    OBVIOUS
  <2>2. I2cShape(a) /\ SameBus(d, a) /\ BitOfBus(a) /\ OthersIdle(a)
    BY <2>1, AccessShape, SameBusIdle
  <2>3. e = SetBusy(a, FALSE) \/ e = [a EXCEPT !.stuck = TRUE]
    <3>1. a.bus = d.bus
      BY <2>2 DEF SameBus
    <3>2. e = [a EXCEPT !.busy[d.bus] = FALSE] \/ e = [a EXCEPT !.stuck = TRUE]
      BY <1>2, <2>1, Zenon DEF WriteStop
    <3>3. QED
      BY <3>1, <3>2 DEF SetBusy
  <2>4. CASE e = SetBusy(a, FALSE)
    <3>1. a.bus # NoBus
      BY <1>2, <2>2 DEF SameBus
    <3>2. OnlyBusy(a, e, FALSE)
      BY <2>2, <2>4, <3>1, BusyShape
    <3>3. QED
      BY <2>2, <3>2 DEF OnlyBusy, SameBus, BitOfBus, OthersIdle, ActiveIdle
  <2>5. CASE e = [a EXCEPT !.stuck = TRUE]
    BY <2>2, <2>5, StuckShape DEF SameBus, BitOfBus, OthersIdle, ActiveIdle
  <2>6. QED
    BY <2>3, <2>4, <2>5
<1>3. QED
  BY <1>1, <1>2

LEMMA StopIfBusySafe ==
  ASSUME NEW d, I2cShape(d), OthersIdle(d), NEW e \in StopIfBusy(d)
  PROVE  I2cShape(e) /\ OthersIdle(e) /\ BitOfBus(e) /\ ActiveIdle(e) /\ e.bus = d.bus
         /\ e.en = d.en
<1>1. PICK a : a = Access(d)
  OBVIOUS
<1>2. I2cShape(a) /\ SameBus(d, a) /\ BitOfBus(a) /\ OthersIdle(a)
  BY <1>1, AccessShape, SameBusIdle
<1>3. CASE d.bus # NoBus /\ d.busy[d.bus]
  <2>1. e \in WriteStop(a)
    BY <1>1, <1>3 DEF StopIfBusy
  <2>2. QED
    BY <1>2, <2>1, WriteStopSafe DEF SameBus
<1>4. CASE ~(d.bus # NoBus /\ d.busy[d.bus])
  <2>1. e = a
    BY <1>1, <1>4 DEF StopIfBusy
  <2>2. QED
    BY <1>2, <1>4, <2>1 DEF SameBus, ActiveIdle
<1>5. QED
  BY <1>3, <1>4

\* activate_bank leaves the bus that was active idle, or stuck.
LEMMA ActivateBankSafe ==
  ASSUME NEW d, I2cGood(d), NEW b, NEW e \in ActivateBank(d, b)
  PROVE  I2cGood(e) /\ (ActiveIdle(d) => ActiveIdle(e))
<1>1. CASE b \notin Busses \/ d.bus = b
  BY <1>1 DEF ActivateBank
<1>2. CASE b \in Busses /\ d.bus # b
  <2>1. PICK c \in DisableCore(d) : e \in EnableCore(Access([c EXCEPT !.bus = b]))
    BY <1>2 DEF ActivateBank
  <2>2. PICK a : a = Access(d)
    OBVIOUS
  <2>3. I2cShape(a) /\ OthersIdle(a) /\ a.bus = d.bus /\ a.en = d.en
    BY <2>2, AccessShape, SameBusIdle DEF I2cGood, SameBus
  <2>6. I2cShape(c) /\ OthersIdle(c) /\ ActiveIdle(c) /\ c.bus = d.bus
    <3>1. CASE d.gone
      <4>1. c = a /\ a.gone
        BY <2>1, <2>2, <3>1 DEF DisableCore, Access
      <4>2. QED
        BY <2>3, <4>1 DEF ActiveIdle
    <3>2. CASE ~d.gone
      <4>1. PICK s \in StopIfBusy(a) : c = [s EXCEPT !.en = FALSE]
        <5>1. d.en
          BY DEF I2cGood
        <5>2. QED
          BY <2>1, <2>2, <3>2, <5>1, Zenon DEF DisableCore
      <4>2. I2cShape(s) /\ OthersIdle(s) /\ ActiveIdle(s) /\ s.bus = d.bus
        BY <2>3, <4>1, StopIfBusySafe
      <4>3. I2cShape(c) /\ c.bus = s.bus /\ c.stuck = s.stuck /\ c.busy = s.busy
            /\ c.gone = s.gone
        BY <4>1, <4>2, EnableShape
      <4>4. QED
        BY <4>2, <4>3 DEF OthersIdle, ActiveIdle
    <3>3. QED
      BY <3>1, <3>2
  <2>7. PICK x : x = [c EXCEPT !.bus = b]
    OBVIOUS
  <2>8. I2cShape(x) /\ x.bus = b /\ x.stuck = c.stuck /\ x.busy = c.busy /\ x.gone = c.gone
    BY <1>2, <2>6, <2>7, SwitchShape
  <2>9. OthersIdle(x)
    BY <2>6, <2>8, I2cAssumption DEF OthersIdle, ActiveIdle
  <2>10. PICK y : y = [Access(x) EXCEPT !.en = TRUE]
    OBVIOUS
  <2>11. I2cShape(y) /\ OthersIdle(y) /\ y.en
    <3>1. I2cShape(Access(x)) /\ OthersIdle(Access(x))
      BY <2>8, <2>9, AccessShape, SameBusIdle
    <3>2. QED
      BY <2>10, <3>1, EnableShape DEF OthersIdle
  <2>12. e \in StopIfBusy(y)
    BY <2>1, <2>7, <2>10 DEF EnableCore
  <2>13. QED
    BY <2>11, <2>12, StopIfBusySafe DEF I2cGood
<1>3. QED
  BY <1>1, <1>2

LEMMA I2cBeginSafe ==
  ASSUME NEW d, I2cGood(d), NEW b, NEW e \in I2cBegin(d, b)
  PROVE  I2cGood(e) /\ (ActiveIdle(d) => ActiveIdle(e))
<1>1. PICK a \in ActivateBank(d, b) : e = ActivateCore(a, TRUE)
  BY DEF I2cBegin
<1>2. I2cGood(a) /\ (ActiveIdle(d) => ActiveIdle(a))
  BY <1>1, ActivateBankSafe
<1>3. I2cShape(e) /\ SameBus(a, e) /\ BitOfBus(e)
  BY <1>1, <1>2, ActivateShape DEF I2cGood
<1>4. QED
  BY <1>2, <1>3, SameBusIdle DEF I2cGood, SameBus

LEMMA I2cEndSafe ==
  ASSUME NEW d, I2cGood(d)
  PROVE  I2cGood(I2cEnd(d)) /\ SameBus(d, I2cEnd(d)) /\ BitOff(I2cEnd(d))
<1>1. PICK e : e = I2cEnd(d)
  OBVIOUS
<1>2. I2cShape(e) /\ SameBus(d, e) /\ BitOfBus(e) /\ BitOff(e)
  BY <1>1, ActivateShape DEF I2cGood, I2cEnd
<1>3. QED
  BY <1>1, <1>2, SameBusIdle DEF I2cGood, SameBus

LEMMA I2cAbortedSafe ==
  ASSUME NEW d, I2cGood(d), NEW e \in I2cAborted(d)
  PROVE  I2cGood(e) /\ ActiveIdle(e) /\ BitOff(e)
<1>1. PICK a \in WriteStop(d) : e = ActivateCore(a, FALSE)
  BY DEF I2cAborted
<1>2. I2cGood(a) /\ ActiveIdle(a)
  BY <1>1, WriteStopSafe DEF I2cGood
<1>3. I2cShape(e) /\ SameBus(a, e) /\ BitOfBus(e) /\ BitOff(e)
  BY <1>1, <1>2, ActivateShape DEF I2cGood
<1>4. QED
  BY <1>2, <1>3, SameBusIdle DEF I2cGood, SameBus

\* A byte on the wire; a STOP that was done leaves the bus idle.
LEMMA OnWireSafe ==
  ASSUME NEW d, I2cGood(d), d.bus # NoBus, NEW cmds, NEW done \in BOOLEAN
  PROVE  /\ I2cGood(OnWire(d, cmds, done))
         /\ done /\ "STOP" \in cmds => ActiveIdle(OnWire(d, cmds, done))
<1>1. PICK a : a = Access(d)
  OBVIOUS
<1>2. I2cShape(a) /\ SameBus(d, a) /\ BitOfBus(a) /\ OthersIdle(a) /\ a.en
  BY <1>1, AccessShape, SameBusIdle DEF I2cGood, SameBus
<1>3. a.busy[a.bus] \in BOOLEAN /\ a.bus = d.bus
  BY <1>2 DEF I2cShape, SameBus, I2cGood
<1>4. PICK v \in BOOLEAN :
        /\ v = (IF done /\ "STOP" \in cmds THEN FALSE ELSE a.busy[a.bus] \/ "START" \in cmds)
        /\ (done /\ "STOP" \in cmds => ~v)
  BY <1>3
<1>5. OnWire(d, cmds, done) = SetBusy(a, v)
  BY <1>1, <1>2, <1>3, <1>4 DEF OnWire, I2cShape, SetBusy
<1>6. PICK e : e = OnWire(d, cmds, done)
  OBVIOUS
<1>7. OnlyBusy(a, e, v)
  BY <1>2, <1>3, <1>5, <1>6, BusyShape
<1>8. I2cGood(e) /\ (~v => ActiveIdle(e))
  BY <1>2, <1>7 DEF OnlyBusy, I2cGood, BitOfBus, OthersIdle, ActiveIdle
<1>9. QED
  BY <1>4, <1>6, <1>8

-----------------------------------------------------------------------------
(* Induction over the turns of a loop.                                     *)

\* A set of naturals that is not empty has a least element.
LEMMA LeastNat ==
  ASSUME NEW T, T \subseteq Nat, T # {}
  PROVE  \E m \in T : \A k \in T : m <= k
<1> DEFINE R == {ss \in Nat \X Nat : ss[1] < ss[2]}
<1>1. IsWellFoundedOn(R, Nat)
  BY NatLessThanWellFounded DEF OpToRel
<1>2. PICK x \in T : \A y \in T : ~(<<y, x>> \in R)
  <2> HIDE DEF R
  <2> QED
    BY <1>1, WFMin
<1>3. \A y \in T : ~(y < x)
  BY <1>2
<1>4. QED
  BY <1>3

\* Induction over the naturals, for sets.
LEMMA NatInduct ==
  ASSUME NEW S \in SUBSET Nat, 0 \in S, \A n \in S : n + 1 \in S
  PROVE  S = Nat
<1> SUFFICES ASSUME S # Nat PROVE FALSE
  OBVIOUS
<1> DEFINE T == Nat \ S
<1>1. PICK m \in T : \A k \in T : m <= k
  BY LeastNat
<1>2. m # 0
  BY <1>1
<1>3. m - 1 \in Nat /\ m - 1 \notin T
  BY <1>1, <1>2
<1>4. m - 1 + 1 \in S
  BY <1>3
<1>5. QED
  BY <1>1, <1>4

-----------------------------------------------------------------------------
(* The bank switch of the BPI flash.                                       *)

\* A device of a BPI controller.
BpiShape(d) ==
  d \in [ops : {d.ops}, sel : {d.sel}, addr : {d.addr}, bank : {d.bank}, lost : BOOLEAN,
         got : {d.got}, out : {d.out}, gone : BOOLEAN]

BankKnown(d) == d.lost \/ d.sel = NoBank \/ d.sel = d.bank

BpiGood(d) == BpiShape(d) /\ BankKnown(d)

\* An outcome, in which a failed switch is the only doubt about the bank.
BpiOutcome(o) ==
  /\ o \in [d : {o.d}, ok : BOOLEAN, data : {o.data}]
  /\ BpiShape(o.d)
  /\ o.ok => BankKnown(o.d)

LEMMA OkShape ==
  ASSUME NEW d
  PROVE  /\ Ok(d).d = d /\ Ok(d).ok = TRUE
         /\ Ok(d) \in [d : {Ok(d).d}, ok : BOOLEAN, data : {Ok(d).data}]
  BY DEF Ok

LEMMA ErrShape ==
  ASSUME NEW d
  PROVE  /\ Err(d).d = d /\ Err(d).ok = FALSE
         /\ Err(d) \in [d : {Err(d).d}, ok : BOOLEAN, data : {Err(d).data}]
  BY DEF Err

LEMMA OkDataShape ==
  ASSUME NEW d, NEW bytes
  PROVE  /\ OkData(d, bytes).d = d /\ OkData(d, bytes).ok = TRUE
         /\ OkData(d, bytes).data = bytes
         /\ OkData(d, bytes) \in
              [d : {OkData(d, bytes).d}, ok : BOOLEAN, data : {OkData(d, bytes).data}]
  BY DEF OkData

LEMMA BpiOk ==
  ASSUME NEW d, BpiGood(d)
  PROVE  BpiOutcome(Ok(d))
  BY OkShape DEF BpiOutcome, BpiGood

LEMMA BpiOkData ==
  ASSUME NEW d, BpiGood(d), NEW bytes
  PROVE  BpiOutcome(OkData(d, bytes))
<1>1. OkData(d, bytes).d = d
      /\ OkData(d, bytes) \in
           [d : {OkData(d, bytes).d}, ok : BOOLEAN, data : {OkData(d, bytes).data}]
  BY OkDataShape, Zenon
<1>2. BpiShape(d) /\ BankKnown(d)
  BY DEF BpiGood
<1>3. QED
  BY <1>1, <1>2, Zenon DEF BpiOutcome

LEMMA BpiErr ==
  ASSUME NEW d, BpiShape(d)
  PROVE  BpiOutcome(Err(d))
  BY ErrShape DEF BpiOutcome

LEMMA SelectBankSafe ==
  ASSUME NEW d, BpiGood(d), NEW b, NEW o \in SelectBank(d, b)
  PROVE  BpiOutcome(o)
<1>1. CASE o = Err(d)
  BY <1>1, BpiErr DEF BpiGood
<1>2. CASE o = Ok([d EXCEPT !.sel = b, !.bank = b, !.lost = FALSE])
  <2>1. BpiGood([d EXCEPT !.sel = b, !.bank = b, !.lost = FALSE])
    BY DEF BpiGood, BpiShape, BankKnown
  <2>2. QED
    BY <1>2, <2>1, BpiOk
<1>3. CASE \E real : o = Err([d EXCEPT !.bank = real])
  <2>1. PICK real : o = Err([d EXCEPT !.bank = real])
    BY <1>3
  <2>2. BpiShape([d EXCEPT !.bank = real])
    BY DEF BpiGood, BpiShape
  <2>3. QED
    BY <2>1, <2>2, BpiErr
<1>4. QED
  BY <1>1, <1>2, <1>3 DEF SelectBank

LEMMA SetAddressSafe ==
  ASSUME NEW d, BpiGood(d), NEW a, NEW o \in SetAddress(d, a)
  PROVE  BpiOutcome(o)
<1>1. PICK b : b = (a \div BankSize) % BankCount
  OBVIOUS
<1>2. o \in {Ok(d)} \/ o \in SelectBank(d, b)
  BY <1>1 DEF SetAddress
<1>3. QED
  BY <1>2, BpiOk, SelectBankSafe

\* What a shot adds to the record.
LEMMA BpiDataShape ==
  ASSUME NEW d, BpiShape(d), NEW x, NEW n
  PROVE  /\ BpiShape(Received(d, x)) /\ BpiShape(Driven(d, x)) /\ BpiShape(Answered(d, n))
         /\ BpiShape([d EXCEPT !.got = <<>>, !.out = 0])
         /\ BpiShape([d EXCEPT !.ops = x]) /\ BpiShape([d EXCEPT !.addr = x])
         /\ BankKnown(d) =>
              /\ BankKnown(Driven(d, x)) /\ BankKnown(Answered(d, n))
              /\ BankKnown([d EXCEPT !.got = <<>>, !.out = 0])
              /\ BankKnown([d EXCEPT !.ops = x]) /\ BankKnown([d EXCEPT !.addr = x])
  BY DEF BpiShape, BankKnown, Received, Driven, Answered

LEMMA InvalidateSafe ==
  ASSUME NEW d, BpiShape(d)
  PROVE  BpiGood(BpiInvalidate(d)) /\ BpiGood(BpiCleanup(d))
<1>1. PICK e : e = BpiInvalidate(d)
  OBVIOUS
<1>2. BpiShape(e) /\ e.sel = NoBank
  BY <1>1 DEF BpiShape, BpiInvalidate
<1>3. PICK c : c = BpiCleanup(d)
  OBVIOUS
<1>4. c = [e EXCEPT !.addr = NoAddress, !.ops = {}]
  BY <1>1, <1>3 DEF BpiCleanup
<1>5. BpiShape(c) /\ c.sel = NoBank
  BY <1>2, <1>4 DEF BpiShape
<1>6. QED
  BY <1>1, <1>2, <1>3, <1>5 DEF BpiGood, BankKnown

LEMMA BpiPreSafe ==
  ASSUME NEW d, BpiGood(d), NEW flags, NEW o \in BpiPreBurst(d, flags)
  PROVE  BpiOutcome(o)
<1>1. PICK e : e = [d EXCEPT !.ops = flags]
  OBVIOUS
<1>2. BpiGood(e)
  BY <1>1, BpiDataShape DEF BpiGood
<1>3. PICK s : s = IF "SELECT" \in flags THEN BpiInvalidate(e) ELSE e
  OBVIOUS
<1>4. BpiGood(s)
  BY <1>2, <1>3, InvalidateSafe DEF BpiGood
<1>5. o = Ok(s) \/ o = Err(s)
  BY <1>1, <1>3, Zenon DEF BpiPreBurst
<1>6. QED
  BY <1>4, <1>5, BpiOk, BpiErr DEF BpiGood

LEMMA BpiPostSafe ==
  ASSUME NEW d, BpiGood(d), NEW flags, NEW o \in BpiPostBurst(d, flags)
  PROVE  o.ok = TRUE /\ BpiGood(o.d)
<1>1. PICK e : e = IF "DESELECT" \in flags THEN BpiInvalidate(d) ELSE d
  OBVIOUS
<1>2. BpiGood(e)
  BY <1>1, InvalidateSafe DEF BpiGood
<1>3. o = Ok([e EXCEPT !.ops = {}])
  BY <1>1, Zenon DEF BpiPostBurst
<1>4. BpiGood([e EXCEPT !.ops = {}])
  BY <1>2 DEF BpiGood, BpiShape, BankKnown
<1>5. QED
  BY <1>3, <1>4, OkShape

LEMMA BpiWriteSafe ==
  ASSUME NEW d, BpiGood(d), NEW bytes, NEW a, NEW o \in BpiWriteShot(d, bytes, a)
  PROVE  BpiOutcome(o)
<1>1. PICK e : e = IF "SETADDRESS" \in d.ops \/ "WRITECMDADDRESS" \in d.ops
                   THEN [d EXCEPT !.addr = a] ELSE d
  OBVIOUS
<1>2. BpiGood(e)
  BY <1>1, BpiDataShape DEF BpiGood
<1>3. PICK S : S = IF "WRITECMDADDRESS" \in d.ops THEN SetAddress(e, a) ELSE {Ok(e)}
  OBVIOUS
<1>4. PICK r \in S : o = IF r.ok THEN Ok(Driven(r.d, BpiSent(d.ops, bytes))) ELSE r
  BY <1>1, <1>3, Zenon DEF BpiWriteShot
<1>5. BpiOutcome(r)
  BY <1>2, <1>3, <1>4, BpiOk, SetAddressSafe
<1>6. CASE r.ok
  <2>1. PICK x : x = BpiSent(d.ops, bytes)
    OBVIOUS
  <2>2. BpiGood(Driven(r.d, x))
    BY <1>5, <1>6, BpiDataShape DEF BpiGood, BpiOutcome
  <2>3. QED
    BY <1>4, <1>6, <2>1, <2>2, BpiOk
<1>7. CASE ~r.ok
  BY <1>4, <1>5, <1>7
<1>8. QED
  BY <1>6, <1>7

LEMMA ReadDataSafe ==
  ASSUME NEW d, BpiGood(d), NEW a, NEW n, NEW o \in ReadData(d, a, n)
  PROVE  BpiOutcome(o)
<1>1. PICK r \in SetAddress(d, a) :
        o \in IF r.ok /\ ~d.gone THEN {Collected(r.d, a, n), Err(r.d)} ELSE {Err(r.d)}
  BY Zenon DEF ReadData
<1>2. BpiOutcome(r)
  BY <1>1, SetAddressSafe
<1>3. CASE r.ok /\ ~d.gone
  <2>1. BpiGood(Answered(r.d, n)) /\ BpiShape(r.d)
    BY <1>2, <1>3, BpiDataShape DEF BpiGood, BpiOutcome
  <2>2. PICK x : x = [i \in 1..n |-> BpiWord(r.d, a + i - 1)]
    OBVIOUS
  <2>3. o = OkData(Answered(r.d, n), x) \/ o = Err(r.d)
    BY <1>1, <1>3, <2>2, Zenon DEF Collected
  <2>4. QED
    BY <2>1, <2>3, BpiOkData, BpiErr
<1>4. CASE ~(r.ok /\ ~d.gone)
  <2>1. o = Err(r.d) /\ BpiShape(r.d)
    BY <1>1, <1>2, <1>4, Zenon DEF BpiOutcome
  <2>2. QED
    BY <2>1, BpiErr
<1>5. QED
  BY <1>3, <1>4

LEMMA ReadTurnSafe ==
  ASSUME NEW p, BpiOutcome(p), NEW i, NEW n, NEW o \in ReadTurn(p, i, n)
  PROVE  BpiOutcome(o)
<1>1. CASE ~p.ok
  BY <1>1, Zenon DEF ReadTurn
<1>2. CASE p.ok
  <2>1. BpiGood(p.d)
    BY <1>2 DEF BpiOutcome, BpiGood
  <2>2. PICK a, m : a = p.d.addr + i /\ m = Smaller(n - i, BpiReadFifo)
    OBVIOUS
  <2>3. PICK r \in ReadData(p.d, a, m) : o = [r EXCEPT !.data = p.data \o @]
    BY <1>2, <2>2, Zenon DEF ReadTurn
  <2>4. BpiOutcome(r)
    BY <2>1, <2>3, ReadDataSafe
  <2>5. PICK x : x = p.data \o r.data
    OBVIOUS
  <2>6. o = [r EXCEPT !.data = x]
    BY <2>3, <2>5
  <2>7. QED
    BY <2>4, <2>6 DEF BpiOutcome
<1>3. QED
  BY <1>1, <1>2

\* The outcomes after each of m turns.
IsTurns(f, d, n, m) ==
  f = [k \in 0 .. m |->
         IF k = 0 THEN {Ok(d)}
         ELSE UNION {ReadTurn(o, (k - 1) * BpiReadFifo, n) : o \in f[k - 1]}]

LEMMA TurnsExist ==
  ASSUME NEW d, NEW n
  PROVE  \A m \in Nat : \E f : IsTurns(f, d, n, m)
<1> DEFINE S == {m \in Nat : \E f : IsTurns(f, d, n, m)}
<1>1. 0 \in S
  <2>1. IsTurns([k \in 0 .. 0 |-> {Ok(d)}], d, n, 0)
    BY DEF IsTurns
  <2>2. QED
    BY <2>1
<1>2. ASSUME NEW m \in S PROVE m + 1 \in S
  <2>1. PICK f : IsTurns(f, d, n, m)
    OBVIOUS
  <2>2. m \in Nat
    OBVIOUS
  <2>3. PICK z : z = UNION {ReadTurn(o, m * BpiReadFifo, n) : o \in f[m]}
    OBVIOUS
  <2> DEFINE g == [k \in 0 .. m + 1 |-> IF k = m + 1 THEN z ELSE f[k]]
  <2>4. ASSUME NEW k \in 0 .. m + 1
        PROVE  g[k] = IF k = 0 THEN {Ok(d)}
                      ELSE UNION {ReadTurn(o, (k - 1) * BpiReadFifo, n) : o \in g[k - 1]}
    <3>1. CASE k = m + 1
      <4>1. k # 0 /\ k - 1 = m /\ g[k] = z /\ g[k - 1] = f[m]
        BY <2>2, <3>1
      <4>2. QED
        BY <2>3, <4>1
    <3>2. CASE k # m + 1
      <4>1. k \in 0 .. m /\ g[k] = f[k] /\ (k # 0 => g[k - 1] = f[k - 1])
        BY <2>2, <3>2
      <4>2. QED
        BY <2>1, <4>1 DEF IsTurns
    <3>3. QED
      BY <3>1, <3>2
  <2>5. IsTurns(g, d, n, m + 1)
    BY <2>2, <2>4 DEF IsTurns
  <2>6. QED
    BY <2>2, <2>5
<1> HIDE DEF S
<1>3. S \in SUBSET Nat
  BY DEF S
<1>4. S = Nat
  BY <1>1, <1>2, <1>3, NatInduct
<1>5. QED
  BY <1>4 DEF S

\* However many turns a read takes, the only doubt is a switch that failed.
LEMMA TurnsSafe ==
  ASSUME NEW d, BpiGood(d), NEW n, NEW m \in Nat, NEW f, IsTurns(f, d, n, m)
  PROVE  \A k \in 0 .. m : \A o \in f[k] : BpiOutcome(o)
<1> DEFINE Fine(k) == \A o \in f[k] : BpiOutcome(o)
           S == {k \in Nat : k <= m => Fine(k)}
<1>0. ASSUME NEW k \in 0 .. m
      PROVE  f[k] = IF k = 0 THEN {Ok(d)}
                    ELSE UNION {ReadTurn(o, (k - 1) * BpiReadFifo, n) : o \in f[k - 1]}
  <2> DEFINE F(k1) == IF k1 = 0 THEN {Ok(d)}
                     ELSE UNION {ReadTurn(o, (k1 - 1) * BpiReadFifo, n) : o \in f[k1 - 1]}
  <2>1. f = [k1 \in 0 .. m |-> F(k1)]
    BY Zenon DEF IsTurns
  <2> HIDE DEF F
  <2>2. f[k] = F(k)
    BY <2>1
  <2>3. QED
    BY <2>2 DEF F
<1>1. 0 \in S
  <2>1. f[0] = {Ok(d)}
    BY DEF IsTurns
  <2>2. Fine(0)
    BY <2>1, BpiOk
  <2>3. QED
    BY <2>2
<1>2. ASSUME NEW k \in S PROVE k + 1 \in S
  <2>1. k \in Nat /\ (k <= m => Fine(k))
    OBVIOUS
  <2>2. CASE k + 1 <= m
    <3>1. Fine(k)
      BY <2>1, <2>2
    <3>2. PICK z \in 0 .. m : z = k + 1 /\ z # 0 /\ z - 1 = k
      BY <2>1, <2>2
    <3>3. f[z] = UNION {ReadTurn(o, (z - 1) * BpiReadFifo, n) : o \in f[z - 1]}
      BY <1>0, <3>2, Zenon
    <3>4. PICK x : x = (z - 1) * BpiReadFifo
      OBVIOUS
    <3>5. Fine(k + 1)
      BY <3>1, <3>2, <3>3, <3>4, ReadTurnSafe
    <3>6. QED
      BY <2>1, <3>5
  <2>3. CASE ~(k + 1 <= m)
    <3> HIDE DEF Fine
    <3>1. QED
      BY <2>1, <2>3
  <2>4. QED
    BY <2>2, <2>3
<1> HIDE DEF S
<1>3. S \in SUBSET Nat
  BY DEF S
<1>4. S = Nat
  BY <1>1, <1>2, <1>3, NatInduct
<1>5. QED
  BY <1>4 DEF S

LEMMA TurnsBounded ==
  ASSUME NEW n \in Nat
  PROVE  (n + BpiReadFifo - 1) \div BpiReadFifo \in 0 .. n
<1>1. PICK F \in Nat \ {0} : F = BpiReadFifo
  BY BpiAssumption
<1>2. PICK q : q = (n + F - 1) \div F
  OBVIOUS
<1>3. n + F - 1 \in Nat
  BY <1>1
<1>4. q \in Nat /\ q * F <= n + F - 1
  BY <1>1, <1>2, <1>3, SMTT(30)
<1>5. q <= n
  BY <1>1, <1>4, SMTT(30)
<1>6. QED
  BY <1>1, <1>2, <1>4, <1>5

\* A bank switch that failed unnoticed.
LEMMA UnnoticedSafe ==
  ASSUME NEW r, BpiOutcome(r)
  PROVE  BpiGood([r.d EXCEPT !.lost = @ \/ ~r.ok])
<1>0. PICK e : e = [r.d EXCEPT !.lost = @ \/ ~r.ok]
  OBVIOUS
<1>1. CASE r.ok
  <2>1. r.ok = TRUE /\ r.d.lost \in BOOLEAN
    BY <1>1 DEF BpiOutcome, BpiShape
  <2>2. (r.d.lost \/ ~r.ok) = r.d.lost
    BY <2>1
  <2>3. e = [r.d EXCEPT !.lost = r.d.lost]
    BY <1>0, <2>2
  <2>4. QED
    BY <1>1, <2>3 DEF BpiOutcome, BpiGood, BpiShape, BankKnown
<1>2. CASE ~r.ok
  <2>1. (r.d.lost \/ ~r.ok) = TRUE
    BY <1>2, Zenon
  <2>2. e = [r.d EXCEPT !.lost = TRUE]
    BY <1>0, <2>1
  <2>3. QED
    BY <2>2 DEF BpiOutcome, BpiGood, BpiShape, BankKnown
<1>3. QED
  BY <1>0, <1>1, <1>2, Zenon

\* bpi_read_shot always reports STATUS_OK, and remembers no bank it is not sure of.
LEMMA BpiReadSafe ==
  ASSUME NEW d, BpiGood(d), NEW n \in Nat, NEW o \in BpiReadShot(d, n)
  PROVE  o.ok = TRUE /\ BpiGood(o.d)
<1>1. CASE o = Ok(d)
  BY <1>1, OkShape
<1>2. CASE o # Ok(d)
  <2> DEFINE f == CHOOSE g : IsTurns(g, d, n, n)
  <2>1. PICK q : q = (n + BpiReadFifo - 1) \div BpiReadFifo
    OBVIOUS
  <2>2. \E r \in f[q] : o = Shadowed(r)
    BY <1>2, <2>1, Zenon DEF BpiReadShot, IsTurns
  <2>3. IsTurns(f, d, n, n)
    <3>1. \E g : IsTurns(g, d, n, n)
      BY TurnsExist
    <3>2. QED
      BY <3>1, Zenon
  <2> HIDE DEF f
  <2>4. PICK r \in f[q] : o = Shadowed(r)
    BY <2>2
  <2>5. q \in 0 .. n
    BY <2>1, TurnsBounded
  <2>6. BpiOutcome(r)
    BY <2>3, <2>4, <2>5, TurnsSafe
  <2>7. PICK e : e = [r.d EXCEPT !.lost = @ \/ ~r.ok]
    OBVIOUS
  <2>8. BpiGood(e)
    BY <2>6, <2>7, UnnoticedSafe, Zenon
  <2>9. o = OkData(e, r.data)
    BY <2>4, <2>7, Zenon DEF Shadowed
  <2>10. o.d = e /\ o.ok = TRUE
    BY <2>9, OkDataShape
  <2>11. QED
    BY <2>8, <2>10
<1>3. QED
  BY <1>1, <1>2

LEMMA BpiCommandSafe ==
  ASSUME NEW d, BpiGood(d), NEW cmd, NEW o \in BpiExecuteCommand(d, cmd)
  PROVE  BpiGood(o.d)
<1>1. CASE cmd.id = "SET_ACTIVE_BANK"
  <2>1. PICK r \in SelectBank(d, cmd.bank) : o = Ok([r.d EXCEPT !.lost = @ \/ ~r.ok])
    BY <1>1, Zenon DEF BpiExecuteCommand
  <2>2. BpiOutcome(r)
    BY <2>1, SelectBankSafe
  <2>3. PICK e : e = [r.d EXCEPT !.lost = @ \/ ~r.ok]
    OBVIOUS
  <2>4. BpiGood(e)
    BY <2>2, <2>3, UnnoticedSafe, Zenon
  <2>5. o = Ok(e)
    BY <2>1, <2>3, Zenon
  <2>6. QED
    BY <2>4, <2>5, OkShape
<1>2. CASE cmd.id # "SET_ACTIVE_BANK"
  <2>1. o = Ok(d) \/ o = Err(d)
    BY <1>2 DEF BpiExecuteCommand
  <2>2. QED
    BY <2>1, OkShape, ErrShape
<1>3. QED
  BY <1>1, <1>2

-----------------------------------------------------------------------------
(* I2C transactions.                                                       *)

\* The last byte of the burst is on the wire.
Finished ==
  \/ t.pc \in {"post", "drain"}
  \/ t.pc \in {"write", "wait"} /\ t.rem = 0
  \/ t.pc = "read" /\ t.rd = 0

Returned == last.how = "ok" \/ (last.how = "error" /\ TransferBurst)

\* A burst that asked for a STOP has got it, and so has one that was aborted.
StopDue ==
  IF t.pc \in BurstPcs THEN Finished /\ "STOP" \in t.flags
  ELSE TransferBurst /\ (last.how = "error" \/ (last.how = "ok" /\ "STOP" \in last.b.flags))

I2cInv ==
  /\ I2cGood(dev)
  /\ StopDue => ActiveIdle(dev)
  /\ t.pc = "none" /\ Returned => BitOff(dev)

LEMMA I2cHandlers ==
  ASSUME kind = "i2c", NEW d, NEW b, NEW n, NEW s, NEW bytes
  PROVE  /\ HandlePreBurst(d, b) = {Ok(d)} /\ HandlePostBurst(d, b) = {Ok(d)}
         /\ WriteShotOf(d, bytes, s) =
              I2cWriteShot(d, bytes, WriteCmds(s.flags, s.first, s.final))
         /\ RequestReadOf(d, n) = {Ok(d)}
         /\ ReadShotOf(d, n, s) = I2cReadShot(d, ReadCmds(s.flags, s.final))
         /\ WaitWrittenOf(d) = {Ok(d)} /\ ExecuteCommand(d, b) = {Err(d)}
         /\ BurstAborted(d) = I2cAborted(d)
  BY DEF HandlePreBurst, HandlePostBurst, WriteShotOf, RequestReadOf, ReadShotOf,
         WaitWrittenOf, ExecuteCommand, BurstAborted

LEMMA I2cInitInv == Init /\ kind = "i2c" => I2cInv
<1> SUFFICES ASSUME Init, kind = "i2c" PROVE I2cInv
  OBVIOUS
<1>1. dev = I2cInit
  BY DEF Init, DevInit
<1>2. I2cShape(dev) /\ dev.en = TRUE /\ dev.act = FALSE /\ dev.bus = NoBus
      /\ \A b \in Busses : dev.busy[b] = FALSE
  BY <1>1 DEF I2cShape, I2cInit
<1>3. I2cGood(dev) /\ ActiveIdle(dev) /\ BitOff(dev)
  BY <1>2 DEF I2cGood, BitOfBus, BitOff, OthersIdle, ActiveIdle
<1>4. QED
  BY <1>3 DEF I2cInv

\* A failing transaction: aborted, or cut short before the controller is called.
LEMMA I2cAbortInv ==
  ASSUME kind = "i2c", NEW d, I2cGood(d), Abort(d)
  PROVE  I2cInv'
<1>1. PICK e \in I2cAborted(d) : Fail(e, t.b, "error")
  BY I2cHandlers DEF Abort
<1>2. I2cGood(e) /\ ActiveIdle(e) /\ BitOff(e)
  BY <1>1, I2cAbortedSafe
<1>3. dev' = e
  BY <1>1 DEF Fail
<1>4. QED
  BY <1>2, <1>3 DEF I2cInv

LEMMA I2cCutInv ==
  ASSUME I2cInv, NEW b, NEW how, Fail(dev, b, how),
         how = "copy" \/ (how = "error" /\ b.type \notin {"write", "read"})
  PROVE  I2cInv'
<1>1. dev' = dev /\ t' = Quiet("none") /\ last' = [b |-> b, how |-> how]
  BY DEF Fail
<1>2. t'.pc = "none" /\ last'.how = how /\ last'.b = b
  BY <1>1, QuietShaped
<1>3. ~StopDue'
  BY <1>2 DEF StopDue, TransferBurst, BurstPcs
<1>4. ~Returned'
  BY <1>2 DEF Returned, TransferBurst
<1>5. QED
  BY <1>1, <1>3, <1>4 DEF I2cInv

LEMMA I2cOutside ==
  ASSUME I2cInv, Flow, kind = "i2c",
         BeginTransaction \/ EndTransaction \/ SkipBurst \/ CopyInFails \/ StateChange \/ Command
  PROVE  I2cInv'
<1>1. CASE BeginTransaction
  <2>1. PICK bus : dev' \in I2cBegin(dev, bus)
    BY <1>1 DEF BeginTransaction
  <2>2. I2cGood(dev') /\ (ActiveIdle(dev) => ActiveIdle(dev'))
    BY <2>1, I2cBeginSafe DEF I2cInv
  <2>3. t.pc = "none" /\ t'.pc = "next" /\ last' = last
    BY <1>1, QuietShaped DEF BeginTransaction
  <2>4. StopDue' => StopDue
    BY <2>3 DEF StopDue, BurstPcs, TransferBurst
  <2>5. QED
    BY <2>2, <2>3, <2>4 DEF I2cInv
<1>2. CASE EndTransaction
  <2>1. dev' = I2cEnd(dev)
    BY <1>2 DEF EndTransaction
  <2>2. I2cGood(dev') /\ SameBus(dev, dev') /\ BitOff(dev')
    BY <2>1, I2cEndSafe DEF I2cInv
  <2>3. t.pc = "next" /\ t'.pc = "none" /\ last' = last
    BY <1>2, QuietShaped DEF EndTransaction
  <2>4. StopDue' => StopDue
    BY <2>3 DEF StopDue, BurstPcs, TransferBurst
  <2>5. QED
    BY <2>2, <2>4, SameBusIdle DEF I2cInv
<1>3. CASE SkipBurst
  BY <1>3 DEF SkipBurst, I2cInv, StopDue, Finished, TransferBurst, Returned
<1>4. CASE CopyInFails
  BY <1>4, I2cCutInv DEF CopyInFails
<1>5. CASE StateChange
  <2>1. burst.type = "state" /\ t.pc = "next"
    BY <1>5 DEF StateChange, HasBurst
  <2>2. PICK o \in {Ok(dev)} :
          IF o.ok THEN /\ dev' = o.d /\ txn' = Tail(txn)
                       /\ last' = [b |-> burst, how |-> "ok"]
                       /\ UNCHANGED <<kind, t, count>>
          ELSE Fail(o.d, burst, "error")
    BY <1>5, I2cHandlers DEF StateChange
  <2>a. o.ok = TRUE /\ o.d = dev
    BY OkShape
  <2>3. dev' = dev /\ t' = t /\ last'.b = burst
    BY <2>2, <2>a
  <2>4. QED
    BY <2>1, <2>3 DEF I2cInv, StopDue, TransferBurst, BurstPcs
<1>6. CASE Command
  <2>1. burst.type = "command"
    BY <1>6 DEF Command, HasBurst
  <2>2. PICK o \in {Err(dev)} :
          IF o.ok THEN /\ dev' = o.d /\ txn' = Tail(txn)
                       /\ last' = [b |-> burst, how |-> "ok"]
                       /\ UNCHANGED <<kind, t, count>>
          ELSE Fail(o.d, burst, "error")
    BY <1>6, I2cHandlers DEF Command
  <2>3. Fail(dev, burst, "error")
    BY <2>2, ErrShape
  <2>4. QED
    BY <2>1, <2>3, I2cCutInv
<1>7. QED
  BY <1>1, <1>2, <1>3, <1>4, <1>5, <1>6

LEMMA I2cStart ==
  ASSUME I2cInv, Flow, kind = "i2c", StartBurst
  PROVE  I2cInv'
<1>1. PICK d : d = [dev EXCEPT !.got = <<>>, !.out = 0]
  OBVIOUS
<1>2. I2cGood(d)
  <2>1. I2cShape(d) /\ SameBus(dev, d) /\ d.act = dev.act
    BY <1>1, DataShape DEF I2cInv, I2cGood
  <2>2. QED
    BY <2>1, SameBusIdle DEF I2cInv, I2cGood, SameBus, BitOfBus
<1>3. burst.len > 0 /\ burst.len \in Nat
  BY StartEffect DEF Flow
<1>4. dev' = d /\ Begun(t', burst)
  <2>1. PICK o \in {Ok(d)} :
              \/ ~o.ok /\ \E e \in BurstAborted(o.d) : Fail(e, burst, "error")
              \/ /\ o.ok /\ dev' = o.d /\ Begun(t', burst) /\ txn' = Tail(txn)
                 /\ UNCHANGED <<kind, last, count>>
    BY <1>1, I2cHandlers, StartEffect DEF Flow
  <2>2. QED
    BY <2>1, OkShape
<1>5. t'.pc \in {"write", "request"} /\ t'.rem = burst.len
  BY <1>4 DEF Begun
<1>6. ~StopDue' /\ t'.pc # "none"
  BY <1>3, <1>5 DEF StopDue, Finished, BurstPcs
<1>7. QED
  BY <1>2, <1>4, <1>6 DEF I2cInv

\* A byte that is written: acknowledged, refused or timed out.
LEMMA I2cWriteSafe ==
  ASSUME NEW d, I2cGood(d), NEW bytes, NEW cmds, NEW o \in I2cWriteShot(d, bytes, cmds)
  PROVE  I2cGood(o.d) /\ (o.ok /\ "STOP" \in cmds => ActiveIdle(o.d))
<1>1. CASE d.bus = NoBus \/ d.gone
  <2>1. o = Err(d)
    BY <1>1 DEF I2cWriteShot
  <2>2. QED
    BY <2>1, ErrShape
<1>2. CASE d.bus # NoBus /\ ~d.gone
  <2>1. PICK w : w = OnWire(d, cmds, TRUE)
    OBVIOUS
  <2>2. I2cGood(w) /\ ("STOP" \in cmds => ActiveIdle(w))
    BY <1>2, <2>1, OnWireSafe
  <2>3. CASE o = Ok(Received(w, bytes))
    <3>1. PICK e : e = Received(w, bytes)
      OBVIOUS
    <3>2. I2cShape(e) /\ SameBus(w, e) /\ e.act = w.act
      BY <2>2, <3>1, DataShape DEF I2cGood
    <3>3. I2cGood(e) /\ (ActiveIdle(w) => ActiveIdle(e))
      BY <2>2, <3>2, SameBusIdle DEF I2cGood, SameBus, BitOfBus
    <3>4. QED
      BY <2>2, <2>3, <3>1, <3>3, OkShape
  <2>4. CASE o = Err(w)
    BY <2>2, <2>4, ErrShape
  <2>5. CASE o = Err(OnWire(d, cmds, FALSE))
    <3>1. I2cGood(OnWire(d, cmds, FALSE))
      BY <1>2, OnWireSafe, Zenon
    <3>2. o.d = OnWire(d, cmds, FALSE) /\ o.ok = FALSE
      BY <2>5, ErrShape, Zenon
    <3>3. QED
      BY <3>1, <3>2
  <2>6. QED
    BY <1>2, <2>1, <2>3, <2>4, <2>5, Zenon DEF I2cWriteShot
<1>3. QED
  BY <1>1, <1>2

LEMMA I2cReadSafe ==
  ASSUME NEW d, I2cGood(d), NEW cmds, NEW o \in I2cReadShot(d, cmds)
  PROVE  I2cGood(o.d) /\ (o.ok /\ "STOP" \in cmds => ActiveIdle(o.d))
<1>1. CASE d.bus = NoBus \/ d.gone
  <2>1. o = Err(d)
    BY <1>1 DEF I2cReadShot
  <2>2. QED
    BY <2>1, ErrShape
<1>2. CASE d.bus # NoBus /\ ~d.gone
  <2>1. PICK w : w = OnWire(d, cmds, TRUE)
    OBVIOUS
  <2>2. I2cGood(w) /\ ("STOP" \in cmds => ActiveIdle(w))
    BY <1>2, <2>1, OnWireSafe
  <2>3. CASE o = OkData(Answered(w, 1), Positions(d.out, 1))
    <3>1. PICK e : e = Answered(w, 1)
      OBVIOUS
    <3>2. I2cShape(e) /\ SameBus(w, e) /\ e.act = w.act
      BY <2>2, <3>1, DataShape DEF I2cGood
    <3>3. I2cGood(e) /\ (ActiveIdle(w) => ActiveIdle(e))
      BY <2>2, <3>2, SameBusIdle DEF I2cGood, SameBus, BitOfBus
    <3>4. o.d = e
      BY <2>3, <3>1, OkDataShape
    <3>5. QED
      BY <2>2, <3>3, <3>4
  <2>4. CASE o = Err(OnWire(d, cmds, FALSE))
    <3>1. I2cGood(OnWire(d, cmds, FALSE))
      BY <1>2, OnWireSafe, Zenon
    <3>2. o.d = OnWire(d, cmds, FALSE) /\ o.ok = FALSE
      BY <2>4, ErrShape, Zenon
    <3>3. QED
      BY <3>1, <3>2
  <2>5. QED
    BY <1>2, <2>1, <2>3, <2>4, Zenon DEF I2cReadShot
<1>3. QED
  BY <1>1, <1>2

LEMMA I2cLoop ==
  ASSUME I2cInv, Flow, kind = "i2c",
         WriteShot \/ WaitQueueEmpty \/ DrainQueue \/ WriteDone \/ RequestRead \/ RefillRead
         \/ RequestsQueued \/ ReadShot \/ ReadDone
  PROVE  I2cInv'
<1>0. TypeOK /\ I2cGood(dev) /\ ReadsOn /\ UnderWay /\ t.req \in Nat /\ t.rd \in Nat
  BY DEF Flow, I2cInv, TypeOK, Shaped
<1>a. ASSUME NEW p \in BurstPcs, At(t', p), t.pc \in BurstPcs, I2cGood(dev'),
             Finished' => (/\ "STOP" \in t.flags => ActiveIdle(dev'))
      PROVE  I2cInv'
  <2>1. t'.pc = p /\ t'.flags = t.flags /\ p # "none"
    BY <1>a DEF At, BurstPcs
  <2>2. StopDue' => ActiveIdle(dev')
    BY <1>a, <2>1 DEF StopDue
  <2>3. QED
    BY <1>a, <2>1, <2>2 DEF I2cInv
<1>b. t.pc \in BurstPcs /\ Finished /\ "STOP" \in t.flags => ActiveIdle(dev)
  BY DEF I2cInv, StopDue
<1>1. CASE WriteShot
  <2>1. PICK s : \E n \in Nat : \E o \in WriteShotOf(dev, Positions(t.b.len - t.rem, n), s) :
              /\ s.flags = t.flags /\ s.final \in BOOLEAN
              /\ \/ ~o.ok /\ Abort(o.d)
                 \/ /\ o.ok /\ dev' = o.d
                    /\ At(t', IF (t.queued + 1) % L.writeQueue = 0 THEN "wait" ELSE "write")
                    /\ (t'.rem = 0) = s.final
    BY <1>0, <1>1, WriteEffect
  <2>2. PICK n \in Nat : \E o \in WriteShotOf(dev, Positions(t.b.len - t.rem, n), s) :
              /\ s.flags = t.flags /\ s.final \in BOOLEAN
              /\ \/ ~o.ok /\ Abort(o.d)
                 \/ /\ o.ok /\ dev' = o.d
                    /\ At(t', IF (t.queued + 1) % L.writeQueue = 0 THEN "wait" ELSE "write")
                    /\ (t'.rem = 0) = s.final
    BY <2>1
  <2>3. PICK bytes, cmds : bytes = Positions(t.b.len - t.rem, n)
                           /\ cmds = WriteCmds(s.flags, s.first, s.final)
    OBVIOUS
  <2>4. WriteShotOf(dev, bytes, s) = I2cWriteShot(dev, bytes, cmds)
    BY <2>3, I2cHandlers
  <2>5. PICK o \in I2cWriteShot(dev, bytes, cmds) :
              /\ s.flags = t.flags /\ s.final \in BOOLEAN
              /\ \/ ~o.ok /\ Abort(o.d)
                 \/ /\ o.ok /\ dev' = o.d
                    /\ At(t', IF (t.queued + 1) % L.writeQueue = 0 THEN "wait" ELSE "write")
                    /\ (t'.rem = 0) = s.final
    BY <2>2, <2>3, <2>4
  <2>6. I2cGood(o.d) /\ (o.ok /\ "STOP" \in cmds => ActiveIdle(o.d))
    BY <1>0, <2>5, I2cWriteSafe
  <2>7. CASE ~o.ok /\ Abort(o.d)
    BY <2>6, <2>7, I2cAbortInv
  <2>8. CASE o.ok /\ dev' = o.d /\ (t'.rem = 0) = s.final
             /\ \E p \in {"wait", "write"} : At(t', p)
    <3>1. PICK p \in {"wait", "write"} : At(t', p)
      BY <2>8
    <3>2. p \in BurstPcs /\ t'.pc = p /\ t.pc \in BurstPcs
      BY <1>1, <3>1 DEF BurstPcs, At, WriteShot
    <3>3. Finished' => s.final
      BY <2>8, <3>2 DEF Finished
    <3>4. s.final /\ "STOP" \in t.flags => "STOP" \in cmds
      BY <2>3, <2>5 DEF WriteCmds
    <3>5. QED
      BY <1>a, <2>6, <2>8, <3>1, <3>2, <3>3, <3>4
  <2>9. QED
    BY <2>5, <2>7, <2>8
<1>2. CASE WaitQueueEmpty \/ DrainQueue
  <2>1. PICK o \in {Ok(dev)} :
              \/ ~o.ok /\ Abort(o.d)
              \/ /\ o.ok /\ dev' = o.d
                 /\ At(t', IF t.pc = "wait" THEN "write" ELSE "post")
                 /\ t'.rem = t.rem
    BY <1>0, <1>2, WaitEffect, I2cHandlers
  <2>2. o.ok = TRUE /\ o.d = dev
    BY OkShape
  <2>3. PICK p : p = IF t.pc = "wait" THEN "write" ELSE "post"
    OBVIOUS
  <2>4. dev' = dev /\ At(t', p) /\ t'.rem = t.rem /\ t.pc \in {"wait", "drain"}
    BY <1>0, <1>2, <2>1, <2>2, <2>3, WaitEffect
  <2>5. p \in BurstPcs /\ t.pc \in BurstPcs /\ t'.pc = p
    BY <2>3, <2>4 DEF BurstPcs, At
  <2>6. Finished' => Finished
    BY <2>3, <2>4, <2>5 DEF Finished
  <2>7. QED
    BY <1>0, <1>a, <1>b, <2>4, <2>5, <2>6
<1>3. CASE WriteDone \/ RequestsQueued \/ ReadDone
  <2>1. /\ dev' = dev /\ t'.rem = t.rem /\ t'.rd = t.rd
        /\ WriteDone => /\ t.pc = "write" /\ t.rem = 0
                        /\ At(t', IF t.queued % L.writeQueue # 0 THEN "drain" ELSE "post")
        /\ RequestsQueued => t.pc = "request" /\ ~MayRequest /\ At(t', "read")
        /\ ReadDone => t.pc = "read" /\ t.rd = 0 /\ At(t', "post")
    BY <1>0, <1>3, DoneEffect
  <2>2. \E p \in {"drain", "post", "read"} :
          At(t', p) /\ t.pc \in BurstPcs /\ (t.pc = "request" <=> p = "read")
          /\ (t.pc = "write" => t.rem = 0) /\ (t.pc = "read" => t.rd = 0)
          /\ t.pc \in {"write", "read", "request"}
          /\ (t.pc = "request" => ~MayRequest)
    BY <1>3, <2>1 DEF BurstPcs
  <2>3. PICK p \in {"drain", "post", "read"} :
          At(t', p) /\ t.pc \in BurstPcs /\ (t.pc = "request" <=> p = "read")
          /\ (t.pc = "write" => t.rem = 0) /\ (t.pc = "read" => t.rd = 0)
          /\ t.pc \in {"write", "read", "request"}
          /\ (t.pc = "request" => ~MayRequest)
    BY <2>2
  <2>4. p \in BurstPcs /\ t'.pc = p
    BY <2>3 DEF BurstPcs, At
  <2>5. Finished' => Finished
    <3>1. L.readQueue \in Nat \ {0} /\ t.queued \in Nat
      BY <1>0, LimitsTyped DEF TypeOK, Shaped
    <3>2. t.pc = "request" => t.rd # 0
      BY <1>0, <2>3, <3>1 DEF ReadsOn, MayRequest
    <3>3. QED
      BY <2>1, <2>3, <2>4, <3>2 DEF Finished
  <2>6. QED
    BY <1>0, <1>a, <1>b, <2>1, <2>3, <2>4, <2>5
<1>4. CASE RequestRead \/ RefillRead
  <2>1. /\ t.pc \in {"request", "refill"} /\ (t.pc = "request" => MayRequest)
        /\ \E n \in Nat : \E o \in {Ok(dev)} :
             /\ n <= t.req /\ (t.req > 0 => n > 0)
             /\ \/ ~o.ok /\ Abort(o.d)
                \/ /\ o.ok /\ dev' = o.d
                   /\ At(t', IF t.pc = "request" THEN "request" ELSE "read")
                   /\ t'.rd = t.rd + n
    BY <1>0, <1>4, RequestEffect, I2cHandlers
  <2>2. PICK n \in Nat : \E o \in {Ok(dev)} :
             /\ n <= t.req /\ (t.req > 0 => n > 0)
             /\ \/ ~o.ok /\ Abort(o.d)
                \/ /\ o.ok /\ dev' = o.d
                   /\ At(t', IF t.pc = "request" THEN "request" ELSE "read")
                   /\ t'.rd = t.rd + n
    BY <2>1
  <2>3. Ok(dev).ok = TRUE /\ Ok(dev).d = dev
    BY OkShape
  <2>4. PICK p : p = IF t.pc = "request" THEN "request" ELSE "read"
    OBVIOUS
  <2>5. dev' = dev /\ At(t', p) /\ t'.rd = t.rd + n /\ n > 0
    <3>1. t.req > 0
      BY <1>0, <2>1 DEF ReadsOn, MayRequest
    <3>2. QED
      BY <2>2, <2>3, <2>4, <3>1
  <2>6. p \in BurstPcs /\ t.pc \in BurstPcs /\ t'.pc = p /\ p \in {"request", "read"}
    BY <2>1, <2>4, <2>5 DEF BurstPcs, At
  <2>7. ~Finished'
    BY <1>0, <2>5, <2>6 DEF Finished
  <2>8. QED
    BY <1>0, <1>a, <2>5, <2>6, <2>7
<1>5. CASE ReadShot
  <2>1. PICK s : \E n \in Nat : \E o \in ReadShotOf(dev, n, s) :
              /\ s.flags = t.flags /\ s.final \in BOOLEAN
              /\ \/ ~o.ok /\ Abort(o.d)
                 \/ /\ o.ok /\ dev' = o.d
                    /\ At(t', IF t.req > 0 THEN "refill" ELSE "read")
                    /\ (t'.rd = 0 /\ t.req = 0) = s.final
    BY <1>0, <1>5, ReadEffect
  <2>2. PICK cmds : cmds = ReadCmds(s.flags, s.final)
    OBVIOUS
  <2>3. \A n : ReadShotOf(dev, n, s) = I2cReadShot(dev, cmds)
    BY <2>2, I2cHandlers
  <2>4. PICK o \in I2cReadShot(dev, cmds) :
              /\ s.flags = t.flags /\ s.final \in BOOLEAN
              /\ \/ ~o.ok /\ Abort(o.d)
                 \/ /\ o.ok /\ dev' = o.d
                    /\ At(t', IF t.req > 0 THEN "refill" ELSE "read")
                    /\ (t'.rd = 0 /\ t.req = 0) = s.final
    BY <2>1, <2>3
  <2>5. I2cGood(o.d) /\ (o.ok /\ "STOP" \in cmds => ActiveIdle(o.d))
    BY <1>0, <2>4, I2cReadSafe
  <2>6. CASE ~o.ok /\ Abort(o.d)
    BY <2>5, <2>6, I2cAbortInv
  <2>7. CASE o.ok /\ dev' = o.d /\ (t'.rd = 0 /\ t.req = 0) = s.final
             /\ At(t', IF t.req > 0 THEN "refill" ELSE "read")
    <3>1. PICK p : p = IF t.req > 0 THEN "refill" ELSE "read"
      OBVIOUS
    <3>2. p \in BurstPcs /\ At(t', p) /\ t'.pc = p /\ t.pc \in BurstPcs
      BY <1>5, <2>7, <3>1 DEF BurstPcs, At, ReadShot
    <3>3. Finished' => s.final
      <4>1. t'.rd = 0 /\ t.req = 0 => s.final
        BY <2>7, Zenon
      <4>2. Finished' => t'.rd = 0 /\ t.req = 0
        BY <1>0, <3>1, <3>2 DEF Finished
      <4>3. QED
        BY <4>1, <4>2
    <3>4. s.final /\ "STOP" \in t.flags => "STOP" \in cmds
      BY <2>2, <2>4 DEF ReadCmds
    <3>5. QED
      BY <1>a, <2>5, <2>7, <3>2, <3>3, <3>4
  <2>8. QED
    BY <2>4, <2>6, <2>7
<1>6. QED
  BY <1>1, <1>2, <1>3, <1>4, <1>5

LEMMA I2cPost ==
  ASSUME I2cInv, Flow, kind = "i2c", PostBurst
  PROVE  I2cInv'
<1>1. PICK o \in {Ok(dev)} :
        IF t.b.type = "read" /\ ~t.b.copy THEN Fail(o.d, t.b, "copy")
        ELSE /\ dev' = o.d /\ t' = Quiet("next")
             /\ last' = [b |-> t.b, how |-> "ok"]
             /\ UNCHANGED <<kind, txn, count>>
  BY I2cHandlers DEF PostBurst
<1>2. o.d = dev
  BY OkShape
<1>3. CASE Fail(dev, t.b, "copy")
  BY <1>3, I2cCutInv
<1>4. CASE dev' = dev /\ t' = Quiet("next") /\ last' = [b |-> t.b, how |-> "ok"]
  <2>1. t'.pc = "next" /\ last'.b = t.b /\ last'.how = "ok" /\ t.pc = "post"
    BY <1>4, QuietShaped DEF PostBurst
  <2>2. t.b.flags = t.flags
    BY <2>1 DEF Flow, UnderWay, BurstPcs
  <2>3. StopDue' => StopDue
    BY <2>1, <2>2 DEF StopDue, Finished, BurstPcs
  <2>4. QED
    BY <1>4, <2>1, <2>3 DEF I2cInv
<1>5. QED
  BY <1>1, <1>2, <1>3, <1>4

LEMMA I2cStep ==
  ASSUME I2cInv, Flow, kind = "i2c", [Next]_vars
  PROVE  I2cInv'
<1>1. CASE UNCHANGED vars
  BY <1>1 DEF vars, I2cInv, StopDue, Finished, TransferBurst, Returned
<1>2. CASE Execute \/ Vanish
  <2>1. dev' = [dev EXCEPT !.gone = TRUE] /\ UNCHANGED <<t, last>>
    BY <1>2 DEF Execute, Vanish
  <2>2. I2cShape(dev') /\ dev'.gone /\ dev'.en
    BY <2>1 DEF I2cInv, I2cGood, I2cShape
  <2>3. QED
    BY <2>2 DEF I2cInv, I2cGood, BitOfBus, BitOff, OthersIdle, ActiveIdle
<1>3. CASE BeginTransaction \/ Driver
  BY <1>3, I2cOutside, I2cStart, I2cLoop, I2cPost DEF Driver, BurstStep
<1>4. QED
  BY <1>1, <1>2, <1>3 DEF Next

-----------------------------------------------------------------------------
(* SPI transactions.                                                       *)

SpiKinds == {"spi_v2", "spi_dual", "spi_bs"}

\* A device of an SPI controller.
SpiShape(d) ==
  d \in [cs : BOOLEAN, chip : BOOLEAN, cmds : {d.cmds}, words : {d.words}, got : {d.got},
         out : {d.out}, gone : BOOLEAN]

\* spi_dual: chip_selected is never set without chip select, unless the board is gone.
SpiGood(k, d) == SpiShape(d) /\ (k = "spi_dual" => (d.gone \/ (d.chip => d.cs)))

SpiKept(d, e) == SpiShape(e) /\ e.cs = d.cs /\ e.chip = d.chip /\ e.gone = d.gone

SpiInv ==
  /\ SpiGood(kind, dev)
  /\ t.pc \in BurstPcs => dev.gone \/ dev.cs
  /\ t.pc \notin BurstPcs => dev.gone \/ SpiSelected

LEMMA SpiKeptGood ==
  ASSUME NEW k, NEW d, NEW e, SpiGood(k, d), SpiKept(d, e)
  PROVE  SpiGood(k, e)
  BY DEF SpiGood, SpiKept

LEMMA ChipSelectSafe ==
  ASSUME NEW d, SpiShape(d), NEW on \in BOOLEAN, NEW e, e = ChipSelect(d, on)
  PROVE  SpiShape(e) /\ e.gone = d.gone /\ (d.gone \/ e.cs = on)
  BY DEF SpiShape, ChipSelect

LEMMA SpiDualSelectSafe ==
  ASSUME NEW d, SpiGood("spi_dual", d), NEW on \in BOOLEAN, NEW e, e = SpiDualSelect(d, on)
  PROVE  SpiGood("spi_dual", e) /\ e.gone = d.gone /\ (d.gone \/ e.cs = on)
<1>1. CASE on /\ d.chip
  BY <1>1 DEF SpiGood, SpiShape, SpiDualSelect
<1>2. CASE ~(on /\ d.chip)
  <2>1. PICK c : c = ChipSelect(d, on)
    OBVIOUS
  <2>2. SpiShape(c) /\ c.gone = d.gone /\ (d.gone \/ c.cs = on)
    BY <2>1, ChipSelectSafe DEF SpiGood
  <2>3. e = [c EXCEPT !.chip = on]
    BY <1>2, <2>1 DEF SpiDualSelect
  <2>4. QED
    BY <2>2, <2>3 DEF SpiGood, SpiShape
<1>3. QED
  BY <1>1, <1>2

LEMMA SpiPreSafe ==
  ASSUME kind \in SpiKinds, NEW d, SpiGood(kind, d), NEW b, NEW o \in HandlePreBurst(d, b)
  PROVE  o.ok = TRUE /\ SpiGood(kind, o.d) /\ (o.d.gone \/ o.d.cs)
<1>1. CASE kind = "spi_v2"
  <2>1. PICK e : e = ChipSelect(d, TRUE)
    OBVIOUS
  <2>2. o = Ok(e)
    BY <1>1, <2>1 DEF HandlePreBurst, SpiV2PreBurst
  <2>3. SpiShape(e) /\ e.gone = d.gone /\ (d.gone \/ e.cs = TRUE)
    BY <2>1, ChipSelectSafe DEF SpiGood
  <2>4. QED
    BY <1>1, <2>2, <2>3, OkShape DEF SpiGood
<1>2. CASE kind = "spi_dual"
  <2>1. PICK e : e = SpiDualSelect(d, TRUE)
    OBVIOUS
  <2>2. o = Ok(e)
    BY <1>2, <2>1 DEF HandlePreBurst, SpiDualPreBurst
  <2>3. SpiGood("spi_dual", e) /\ e.gone = d.gone /\ (d.gone \/ e.cs = TRUE)
    BY <1>2, <2>1, SpiDualSelectSafe
  <2>4. QED
    BY <1>2, <2>2, <2>3, OkShape
<1>3. CASE kind = "spi_bs"
  <2>1. PICK e : e = ChipSelect(d, TRUE)
    OBVIOUS
  <2>2. o = Ok(e)
    BY <1>3, <2>1 DEF HandlePreBurst, SpiBsPreBurst
  <2>3. SpiShape(e) /\ e.gone = d.gone /\ (d.gone \/ e.cs = TRUE)
    BY <2>1, ChipSelectSafe DEF SpiGood
  <2>4. QED
    BY <1>3, <2>2, <2>3, OkShape DEF SpiGood
<1>4. QED
  BY <1>1, <1>2, <1>3 DEF SpiKinds

\* The post burst flags release the target unless it is to stay selected.
LEMMA SpiPostSafe ==
  ASSUME kind \in SpiKinds, NEW d, SpiGood(kind, d), NEW b, NEW o \in HandlePostBurst(d, b)
  PROVE  /\ o.ok = TRUE /\ SpiGood(kind, o.d) /\ o.d.gone = d.gone
         /\ IF "LEAVE_CS" \in b.flags THEN o.d = d ELSE d.gone \/ o.d.cs = FALSE
<1>0. CASE "LEAVE_CS" \in b.flags
  <2>1. o = Ok(d)
    BY <1>0 DEF HandlePostBurst, SpiV2PostBurst, SpiDualPostBurst, SpiBsPostBurst, SpiKinds
  <2>2. QED
    BY <1>0, <2>1, OkShape
<1>1. CASE "LEAVE_CS" \notin b.flags /\ kind = "spi_v2"
  <2>1. PICK e : e = ChipSelect(d, FALSE)
    OBVIOUS
  <2>2. o = Ok(e)
    BY <1>1, <2>1 DEF HandlePostBurst, SpiV2PostBurst
  <2>3. SpiShape(e) /\ e.gone = d.gone /\ (d.gone \/ e.cs = FALSE)
    BY <2>1, ChipSelectSafe DEF SpiGood
  <2>4. QED
    BY <1>1, <2>2, <2>3, OkShape DEF SpiGood
<1>2. CASE "LEAVE_CS" \notin b.flags /\ kind = "spi_dual"
  <2>1. PICK e : e = SpiDualSelect(d, FALSE)
    OBVIOUS
  <2>2. o = Ok(e)
    BY <1>2, <2>1 DEF HandlePostBurst, SpiDualPostBurst
  <2>3. SpiGood("spi_dual", e) /\ e.gone = d.gone /\ (d.gone \/ e.cs = FALSE)
    BY <1>2, <2>1, SpiDualSelectSafe
  <2>4. QED
    BY <1>2, <2>2, <2>3, OkShape
<1>3. CASE "LEAVE_CS" \notin b.flags /\ kind = "spi_bs"
  <2>1. PICK e : e = ChipSelect(d, FALSE)
    OBVIOUS
  <2>2. o = Ok(e)
    BY <1>3, <2>1 DEF HandlePostBurst, SpiBsPostBurst
  <2>3. SpiShape(e) /\ e.gone = d.gone /\ (d.gone \/ e.cs = FALSE)
    BY <2>1, ChipSelectSafe DEF SpiGood
  <2>4. QED
    BY <1>3, <2>2, <2>3, OkShape DEF SpiGood
<1>4. QED
  BY <1>0, <1>1, <1>2, <1>3 DEF SpiKinds

\* Data that moves leaves the selection alone.
LEMMA SpiDataKept ==
  ASSUME NEW d, SpiShape(d)
  PROVE  /\ SpiKept(d, d) /\ SpiKept(d, [d EXCEPT !.words = Tail(@)])
         /\ SpiKept(d, [d EXCEPT !.got = <<>>, !.out = 0])
         /\ \A x : /\ SpiKept(d, Received(d, x)) /\ SpiKept(d, Answered(d, x))
                  /\ SpiKept(d, SpiV2Queue(d, x))
  BY DEF SpiShape, SpiKept, Received, Answered, SpiV2Queue

LEMMA SpiShotKept ==
  ASSUME kind \in SpiKinds, NEW d, SpiShape(d), NEW bytes, NEW n, NEW s,
         NEW o \in WriteShotOf(d, bytes, s) \cup RequestReadOf(d, n) \cup ReadShotOf(d, n, s)
                   \cup WaitWrittenOf(d)
  PROVE  SpiKept(d, o.d)
<1>1. \/ o \in {Ok(d), Err(d)} \/ (\E x : o = Ok(Received(d, x)) \/ o = Ok(SpiV2Queue(d, x)))
      \/ (\E y : \/ o = OkData(Answered(d, n), y) \/ o = OkData([d EXCEPT !.words = Tail(@)], y)
                \/ o = OkData(d, y))
  <2>1. CASE o \in WriteShotOf(d, bytes, s)
    BY <2>1 DEF WriteShotOf, SpiKinds, SpiV2WriteShot, SpiDualWriteShot, SpiBsWriteShot, Driven
  <2>2. CASE o \in RequestReadOf(d, n)
    BY <2>2 DEF RequestReadOf, SpiV2RequestRead
  <2>3. CASE o \in ReadShotOf(d, n, s)
    BY <2>3 DEF ReadShotOf, SpiKinds, SpiV2ReadShot, SpiDualReadShot, SpiBsReadShot, Sampled
  <2>4. CASE o \in WaitWrittenOf(d)
    BY <2>4 DEF WaitWrittenOf, SpiV2WaitWritten
  <2>5. QED
    BY <2>1, <2>2, <2>3, <2>4
<1>2. CASE o \in {Ok(d), Err(d)}
  <2>1. o.d = d
    BY <1>2, OkShape, ErrShape
  <2>2. QED
    BY <2>1, SpiDataKept
<1>3. CASE \E x : o = Ok(Received(d, x)) \/ o = Ok(SpiV2Queue(d, x))
  <2>1. PICK x, e : e \in {Received(d, x), SpiV2Queue(d, x)} /\ o = Ok(e)
    BY <1>3
  <2>2. o.d = e
    BY <2>1, OkShape
  <2>3. SpiKept(d, Received(d, x)) /\ SpiKept(d, SpiV2Queue(d, x))
    BY SpiDataKept
  <2>4. QED
    BY <2>1, <2>2, <2>3, Zenon
<1>4. CASE \E y : \/ o = OkData(Answered(d, n), y) \/ o = OkData([d EXCEPT !.words = Tail(@)], y)
                 \/ o = OkData(d, y)
  <2>1. PICK w : w = [d EXCEPT !.words = Tail(@)]
    OBVIOUS
  <2>2. PICK e, y : e \in {Answered(d, n), w, d} /\ o = OkData(e, y)
    BY <1>4, <2>1
  <2>3. o.d = e
    BY <2>2, OkDataShape
  <2>4. SpiKept(d, Answered(d, n)) /\ SpiKept(d, w) /\ SpiKept(d, d)
    BY <2>1, SpiDataKept
  <2>5. QED
    BY <2>2, <2>3, <2>4, Zenon
<1>5. QED
  BY <1>1, <1>2, <1>3, <1>4

LEMMA SpiAbortedSafe ==
  ASSUME kind \in SpiKinds, NEW d, SpiGood(kind, d), NEW e \in BurstAborted(d)
  PROVE  SpiGood(kind, e) /\ (kind = "spi_dual" => (e.gone \/ e.cs = FALSE))
<1>1. CASE kind = "spi_dual"
  <2>1. e = SpiDualSelect(d, FALSE)
    BY <1>1 DEF BurstAborted, SpiDualAborted
  <2>2. QED
    BY <1>1, <2>1, SpiDualSelectSafe
<1>2. CASE kind # "spi_dual"
  BY <1>2 DEF BurstAborted, SpiKinds
<1>3. QED
  BY <1>1, <1>2

LEMMA SpiInitInv == Init /\ kind \in SpiKinds => SpiInv
<1> SUFFICES ASSUME Init, kind \in SpiKinds PROVE SpiInv
  OBVIOUS
<1>1. dev = SpiInit
  BY DEF Init, DevInit, SpiKinds
<1>2. SpiShape(dev) /\ dev.chip = FALSE
  BY <1>1 DEF SpiShape, SpiInit
<1>3. t.pc = "none" /\ last.b = NoBurst
  BY QuietShaped DEF Init
<1>4. ~TransferBurst
  BY <1>3 DEF TransferBurst, NoBurst
<1>5. QED
  BY <1>2, <1>3, <1>4 DEF SpiInv, SpiGood, SpiSelected, BurstPcs

\* Steps within a burst keep the target selected.
LEMMA SpiKeptInv ==
  ASSUME SpiInv, kind' = kind, SpiKept(dev, dev'), last' = last,
         t'.pc \in BurstPcs <=> t.pc \in BurstPcs
  PROVE  SpiInv'
<1>1. SpiGood(kind', dev')
  BY SpiKeptGood DEF SpiInv
<1>2. dev'.gone = dev.gone /\ dev'.cs = dev.cs
  BY DEF SpiKept
<1>3. SpiSelected => SpiSelected'
  BY <1>2 DEF SpiSelected, TransferBurst
<1>4. QED
  BY <1>1, <1>2, <1>3 DEF SpiInv

\* A transaction that fails: an aborted burst has released the target.
LEMMA SpiFailInv ==
  ASSUME NEW d, SpiGood(kind, d), NEW b, NEW how, Fail(d, b, how),
         \/ how = "copy" \/ b.type \notin {"write", "read"}
         \/ how = "error" /\ (kind = "spi_dual" => (d.gone \/ d.cs = FALSE))
  PROVE  SpiInv'
<1>1. dev' = d /\ t'.pc = "none" /\ last' = [b |-> b, how |-> how] /\ kind' = kind
  BY QuietShaped DEF Fail
<1>2. last'.b = b /\ last'.how = how
  BY <1>1
<1>3. dev'.gone \/ SpiSelected'
  BY <1>1, <1>2 DEF SpiSelected, TransferBurst
<1>4. QED
  BY <1>1, <1>3 DEF SpiInv, BurstPcs

LEMMA SpiAbortInv ==
  ASSUME kind \in SpiKinds, NEW d, SpiGood(kind, d), Abort(d)
  PROVE  SpiInv'
<1>1. PICK e \in BurstAborted(d) : Fail(e, t.b, "error")
  BY DEF Abort
<1>2. SpiGood(kind, e) /\ (kind = "spi_dual" => (e.gone \/ e.cs = FALSE))
  BY <1>1, SpiAbortedSafe
<1>3. QED
  BY <1>1, <1>2, SpiFailInv

LEMMA SpiOutside ==
  ASSUME SpiInv, Flow, kind \in SpiKinds,
         BeginTransaction \/ EndTransaction \/ SkipBurst \/ CopyInFails \/ StateChange \/ Command
  PROVE  SpiInv'
<1>0. SpiGood(kind, dev) /\ SpiKept(dev, dev) /\ kind # "i2c" /\ kind # "bpi"
  BY SpiDataKept DEF SpiInv, SpiGood, SpiKinds
<1>1. CASE BeginTransaction \/ EndTransaction \/ SkipBurst
  <2>1. dev' = dev /\ last' = last /\ kind' = kind
    BY <1>0, <1>1 DEF BeginTransaction, EndTransaction, SkipBurst
  <2>2. t.pc \in {"none", "next"} /\ t'.pc \in {"none", "next"}
    BY <1>1, QuietShaped DEF BeginTransaction, EndTransaction, SkipBurst
  <2>3. t'.pc \in BurstPcs <=> t.pc \in BurstPcs
    BY <2>2 DEF BurstPcs
  <2>4. QED
    BY <1>0, <2>1, <2>3, SpiKeptInv
<1>2. CASE CopyInFails
  BY <1>0, <1>2, SpiFailInv DEF CopyInFails
<1>3. CASE StateChange
  <2>1. burst.type = "state" /\ t.pc = "next"
    BY <1>3 DEF StateChange, HasBurst
  <2>2. PICK o \in HandlePostBurst(dev, burst) :
          IF o.ok THEN /\ dev' = o.d /\ txn' = Tail(txn)
                       /\ last' = [b |-> burst, how |-> "ok"]
                       /\ UNCHANGED <<kind, t, count>>
          ELSE Fail(o.d, burst, "error")
    BY <1>3, Zenon DEF StateChange
  <2>3. o.ok = TRUE /\ SpiGood(kind, o.d)
    BY <1>0, <2>2, SpiPostSafe
  <2>4. dev' = o.d /\ t' = t /\ last'.b = burst /\ kind' = kind
    BY <2>2, <2>3
  <2>5. SpiSelected'
    BY <2>1, <2>4 DEF SpiSelected, TransferBurst
  <2>6. QED
    BY <2>1, <2>3, <2>4, <2>5 DEF SpiInv, BurstPcs
<1>4. CASE Command
  <2>1. burst.type = "command"
    BY <1>4 DEF Command, HasBurst
  <2>2. PICK o \in {Err(dev)} :
          IF o.ok THEN /\ dev' = o.d /\ txn' = Tail(txn)
                       /\ last' = [b |-> burst, how |-> "ok"]
                       /\ UNCHANGED <<kind, t, count>>
          ELSE Fail(o.d, burst, "error")
    BY <1>0, <1>4 DEF Command, ExecuteCommand
  <2>3. Fail(dev, burst, "error")
    BY <2>2, ErrShape
  <2>4. QED
    BY <1>0, <2>1, <2>3, SpiFailInv
<1>5. QED
  BY <1>1, <1>2, <1>3, <1>4

LEMMA SpiStart ==
  ASSUME SpiInv, Flow, kind \in SpiKinds, StartBurst
  PROVE  SpiInv'
<1>1. PICK d : d = [dev EXCEPT !.got = <<>>, !.out = 0]
  OBVIOUS
<1>2. SpiGood(kind, d)
  <2>1. SpiKept(dev, d)
    BY <1>1, SpiDataKept DEF SpiInv, SpiGood
  <2>2. QED
    BY <2>1, SpiKeptGood DEF SpiInv
<1>3. PICK o \in HandlePreBurst(d, burst) :
              \/ ~o.ok /\ \E e \in BurstAborted(o.d) : Fail(e, burst, "error")
              \/ /\ o.ok /\ dev' = o.d /\ Begun(t', burst) /\ txn' = Tail(txn)
                 /\ UNCHANGED <<kind, last, count>>
  BY <1>1, StartEffect DEF Flow
<1>4. o.ok = TRUE /\ SpiGood(kind, o.d) /\ (o.d.gone \/ o.d.cs)
  BY <1>2, <1>3, SpiPreSafe
<1>5. dev' = o.d /\ kind' = kind /\ t'.pc \in BurstPcs
  BY <1>3, <1>4 DEF Begun, BurstPcs
<1>6. QED
  BY <1>4, <1>5 DEF SpiInv

LEMMA SpiLoop ==
  ASSUME SpiInv, Flow, kind \in SpiKinds,
         WriteShot \/ WaitQueueEmpty \/ DrainQueue \/ WriteDone \/ RequestRead \/ RefillRead
         \/ RequestsQueued \/ ReadShot \/ ReadDone
  PROVE  SpiInv'
<1>0. TypeOK /\ SpiGood(kind, dev) /\ SpiShape(dev) /\ SpiKept(dev, dev)
  BY SpiDataKept DEF Flow, SpiInv, SpiGood
<1>1. /\ t.pc \in BurstPcs
      /\ \E d : /\ SpiKept(dev, d)
                /\ Abort(d) \/ (dev' = d /\ Stays /\ \E p \in BurstPcs : At(t', p))
  <2>1. CASE WriteShot
    BY <1>0, <2>1, WriteEffect, SpiShotKept DEF BurstPcs
  <2>2. CASE WaitQueueEmpty \/ DrainQueue
    BY <1>0, <2>2, WaitEffect, SpiShotKept DEF BurstPcs
  <2>3. CASE WriteDone \/ RequestsQueued \/ ReadDone
    BY <1>0, <2>3, DoneEffect DEF BurstPcs
  <2>4. CASE RequestRead \/ RefillRead
    BY <1>0, <2>4, RequestEffect, SpiShotKept DEF BurstPcs
  <2>5. CASE ReadShot
    BY <1>0, <2>5, ReadEffect, SpiShotKept DEF BurstPcs
  <2>6. QED
    BY <2>1, <2>2, <2>3, <2>4, <2>5
<1>2. PICK d : /\ SpiKept(dev, d)
               /\ Abort(d) \/ (dev' = d /\ Stays /\ \E p \in BurstPcs : At(t', p))
  BY <1>1
<1>3. SpiGood(kind, d)
  BY <1>0, <1>2, SpiKeptGood
<1>4. CASE Abort(d)
  BY <1>3, <1>4, SpiAbortInv
<1>5. CASE dev' = d /\ Stays /\ \E p \in BurstPcs : At(t', p)
  <2>1. t'.pc \in BurstPcs /\ kind' = kind /\ last' = last
    BY <1>5 DEF At, Stays
  <2>2. QED
    BY <1>1, <1>2, <1>5, <2>1, SpiKeptInv
<1>6. QED
  BY <1>2, <1>4, <1>5

LEMMA SpiPost ==
  ASSUME SpiInv, Flow, kind \in SpiKinds, PostBurst
  PROVE  SpiInv'
<1>0. SpiGood(kind, dev) /\ t.pc = "post" /\ (dev.gone \/ dev.cs)
  BY DEF SpiInv, PostBurst, BurstPcs
<1>1. PICK o \in HandlePostBurst(dev, t.b) :
        IF t.b.type = "read" /\ ~t.b.copy THEN Fail(o.d, t.b, "copy")
        ELSE /\ dev' = o.d /\ t' = Quiet("next")
             /\ last' = [b |-> t.b, how |-> "ok"]
             /\ UNCHANGED <<kind, txn, count>>
  BY Zenon DEF PostBurst
<1>2. /\ o.ok = TRUE /\ SpiGood(kind, o.d) /\ o.d.gone = dev.gone
      /\ IF "LEAVE_CS" \in t.b.flags THEN o.d = dev ELSE dev.gone \/ o.d.cs = FALSE
  BY <1>0, <1>1, SpiPostSafe
<1>3. CASE Fail(o.d, t.b, "copy")
  BY <1>2, <1>3, SpiFailInv
<1>4. CASE dev' = o.d /\ t' = Quiet("next") /\ last' = [b |-> t.b, how |-> "ok"] /\ kind' = kind
  <2>1. t'.pc = "next" /\ last'.b = t.b /\ last'.how = "ok"
    BY <1>4, QuietShaped
  <2>2. dev'.gone \/ (dev'.cs <=> "LEAVE_CS" \in t.b.flags)
    BY <1>0, <1>2, <1>4
  <2>3. dev'.gone \/ SpiSelected'
    BY <2>1, <2>2 DEF SpiSelected
  <2>4. QED
    BY <1>2, <1>4, <2>1, <2>3 DEF SpiInv, BurstPcs
<1>5. QED
  BY <1>1, <1>3, <1>4

\* The FPGA goes on, or disappears.
LEMMA SpiBoard ==
  ASSUME SpiInv, Flow, kind \in SpiKinds, Execute \/ Vanish
  PROVE  SpiInv'
<1>0. SpiShape(dev)
  BY DEF SpiInv, SpiGood
<1>1. CASE Execute
  <2>1. PICK e : e = [dev EXCEPT !.cmds = Tail(@)]
    OBVIOUS
  <2>2. SpiShape(e) /\ SpiKept(dev, e)
    BY <1>0, <2>1 DEF SpiShape, SpiKept
  <2>3. PICK f : f = [e EXCEPT !.words = Append(@, Positions(dev.out, Head(dev.cmds).n))]
    OBVIOUS
  <2>4. SpiShape(f) /\ SpiKept(dev, f)
    BY <2>2, <2>3 DEF SpiShape, SpiKept
  <2>5. dev' = Received(e, Head(dev.cmds).bytes) \/ dev' = Answered(f, Head(dev.cmds).n)
    BY <1>1, <2>1, <2>3 DEF Execute, SpiV2Execute
  <2>6. SpiKept(dev, dev')
    <3>1. SpiKept(e, Received(e, Head(dev.cmds).bytes))
      BY <2>2, SpiDataKept
    <3>2. SpiKept(f, Answered(f, Head(dev.cmds).n))
      BY <2>4, SpiDataKept
    <3>3. QED
      BY <2>2, <2>4, <2>5, <3>1, <3>2 DEF SpiKept
  <2>7. QED
    BY <1>1, <2>6, SpiKeptInv DEF Execute
<1>2. CASE Vanish
  <2>1. dev' = [dev EXCEPT !.gone = TRUE] /\ kind' = kind
    BY <1>2 DEF Vanish
  <2>2. SpiShape(dev') /\ dev'.gone = TRUE
    BY <1>0, <2>1 DEF SpiShape
  <2>3. QED
    BY <2>1, <2>2 DEF SpiInv, SpiGood
<1>3. QED
  BY <1>1, <1>2

LEMMA SpiStep ==
  ASSUME SpiInv, Flow, kind \in SpiKinds, [Next]_vars
  PROVE  SpiInv'
<1>1. CASE UNCHANGED vars
  BY <1>1 DEF vars, SpiInv, SpiSelected, TransferBurst
<1>2. CASE BeginTransaction \/ Driver
  BY <1>2, SpiOutside, SpiStart, SpiLoop, SpiPost DEF Driver, BurstStep
<1>3. QED
  BY <1>1, <1>2, SpiBoard DEF Next

-----------------------------------------------------------------------------
(* BPI transactions.                                                       *)

LEMMA BpiHandlers ==
  ASSUME kind = "bpi", NEW d, NEW b, NEW n, NEW s, NEW bytes
  PROVE  /\ HandlePreBurst(d, b) = BpiPreBurst(d, b.flags)
         /\ HandlePostBurst(d, b) = BpiPostBurst(d, b.flags)
         /\ WriteShotOf(d, bytes, s) = BpiWriteShot(d, bytes, s.b.arg)
         /\ RequestReadOf(d, n) = {Ok(d)} /\ ReadShotOf(d, n, s) = BpiReadShot(d, n)
         /\ WaitWrittenOf(d) = {Ok(d)} /\ ExecuteCommand(d, b) = BpiExecuteCommand(d, b.arg)
         /\ BurstAborted(d) = {BpiCleanup(d)}
  BY DEF HandlePreBurst, HandlePostBurst, WriteShotOf, RequestReadOf, ReadShotOf,
         WaitWrittenOf, ExecuteCommand, BurstAborted

LEMMA BpiAbortGood ==
  ASSUME kind = "bpi", NEW d, BpiShape(d), NEW b, NEW how,
         \E e \in BurstAborted(d) : Fail(e, b, how)
  PROVE  BpiGood(dev')
<1>1. dev' = BpiCleanup(d)
  BY BpiHandlers DEF Fail
<1>2. QED
  BY <1>1, InvalidateSafe

\* What a step of a burst does to the device, if it succeeds or if it is aborted.
LEMMA BpiOutcomeGood ==
  ASSUME kind = "bpi", NEW o, BpiOutcome(o), Abort(o.d) \/ (o.ok /\ dev' = o.d)
  PROVE  BpiGood(dev')
<1>1. CASE Abort(o.d)
  BY <1>1, BpiAbortGood DEF Abort, BpiOutcome
<1>2. CASE o.ok /\ dev' = o.d
  BY <1>2 DEF BpiOutcome, BpiGood
<1>3. QED
  BY <1>1, <1>2

LEMMA BpiStep ==
  ASSUME BpiGood(dev), Flow, kind = "bpi", [Next]_vars
  PROVE  BpiGood(dev')
<1>0. TypeOK /\ BpiOutcome(Ok(dev)) /\ kind # "i2c"
  BY BpiOk DEF Flow
<1>1. CASE dev' = dev
  BY <1>1
<1>2. CASE BeginTransaction \/ EndTransaction \/ SkipBurst \/ CopyInFails \/ UNCHANGED vars
  BY <1>0, <1>2 DEF BeginTransaction, EndTransaction, SkipBurst, CopyInFails, Fail, vars
<1>3. CASE StateChange
  <2>1. PICK o \in HandlePostBurst(dev, burst) : dev' = o.d
    BY <1>3 DEF StateChange, Fail
  <2>2. PICK x : x = burst.flags
    OBVIOUS
  <2>3. o \in BpiPostBurst(dev, x)
    BY <2>1, <2>2 DEF HandlePostBurst
  <2>4. QED
    BY <2>1, <2>3, BpiPostSafe
<1>4. CASE Command
  <2>1. PICK o \in ExecuteCommand(dev, burst) : dev' = o.d
    BY <1>4 DEF Command, Fail
  <2>2. PICK x : x = burst.arg
    OBVIOUS
  <2>3. o \in BpiExecuteCommand(dev, x)
    BY <2>1, <2>2 DEF ExecuteCommand
  <2>4. QED
    BY <2>1, <2>3, BpiCommandSafe
<1>5. CASE StartBurst
  <2>1. PICK d : d = [dev EXCEPT !.got = <<>>, !.out = 0]
    OBVIOUS
  <2>2. BpiGood(d)
    BY <2>1 DEF BpiGood, BpiShape, BankKnown
  <2>3. PICK o \in HandlePreBurst(d, burst) :
              \/ ~o.ok /\ \E e \in BurstAborted(o.d) : Fail(e, burst, "error")
              \/ o.ok /\ dev' = o.d
    BY <1>0, <1>5, <2>1, StartEffect
  <2>4. BpiOutcome(o)
    BY <2>2, <2>3, BpiHandlers, BpiPreSafe
  <2>5. CASE \E e \in BurstAborted(o.d) : Fail(e, burst, "error")
    BY <2>4, <2>5, BpiAbortGood DEF BpiOutcome
  <2>6. CASE o.ok /\ dev' = o.d
    BY <2>4, <2>6 DEF BpiOutcome, BpiGood
  <2>7. QED
    BY <2>3, <2>5, <2>6
<1>6. CASE WriteShot
  <2>1. PICK s, bytes : \E o \in WriteShotOf(dev, bytes, s) : Abort(o.d) \/ (o.ok /\ dev' = o.d)
    BY <1>0, <1>6, WriteEffect
  <2>2. PICK o \in WriteShotOf(dev, bytes, s) : Abort(o.d) \/ (o.ok /\ dev' = o.d)
    BY <2>1
  <2>3. o \in BpiWriteShot(dev, bytes, s.b.arg)
    BY <2>2, BpiHandlers
  <2>4. BpiOutcome(o)
    BY <2>3, BpiWriteSafe
  <2>5. QED
    BY <2>2, <2>4, BpiOutcomeGood
<1>7. CASE WaitQueueEmpty \/ DrainQueue \/ RequestRead \/ RefillRead
  <2>1. PICK o \in {Ok(dev)} : Abort(o.d) \/ (o.ok /\ dev' = o.d)
    <3>1. CASE WaitQueueEmpty \/ DrainQueue
      <4>1. PICK o \in WaitWrittenOf(dev) : Abort(o.d) \/ (o.ok /\ dev' = o.d)
        BY <1>0, <3>1, WaitEffect
      <4>2. o \in {Ok(dev)}
        BY <4>1, BpiHandlers
      <4>3. QED
        BY <4>1, <4>2
    <3>2. CASE RequestRead \/ RefillRead
      <4>1. PICK n : \E o \in RequestReadOf(dev, n) : Abort(o.d) \/ (o.ok /\ dev' = o.d)
        BY <1>0, <3>2, RequestEffect
      <4>2. RequestReadOf(dev, n) = {Ok(dev)}
        BY BpiHandlers
      <4>3. QED
        BY <4>1, <4>2
    <3>3. QED
      BY <1>7, <3>1, <3>2
  <2>2. QED
    BY <1>0, <2>1, BpiOutcomeGood
<1>8. CASE WriteDone \/ RequestsQueued \/ ReadDone
  BY <1>8 DEF WriteDone, RequestsQueued, ReadDone
<1>9. CASE ReadShot
  <2>1. PICK s : \E n \in Nat : \E o \in ReadShotOf(dev, n, s) : Abort(o.d) \/ (o.ok /\ dev' = o.d)
    BY <1>0, <1>9, ReadEffect
  <2>2. PICK n \in Nat : \E o \in ReadShotOf(dev, n, s) : Abort(o.d) \/ (o.ok /\ dev' = o.d)
    BY <2>1
  <2>3. PICK o \in BpiReadShot(dev, n) : Abort(o.d) \/ (o.ok /\ dev' = o.d)
    BY <2>2, BpiHandlers
  <2>4. o.ok = TRUE /\ BpiGood(o.d)
    BY <2>3, BpiReadSafe
  <2>5. CASE Abort(o.d)
    BY <2>4, <2>5, BpiAbortGood DEF Abort, BpiGood
  <2>6. QED
    BY <2>3, <2>4, <2>5
<1>10. CASE PostBurst
  <2>1. PICK o \in HandlePostBurst(dev, t.b) : dev' = o.d
    BY <1>10 DEF PostBurst, Fail
  <2>2. PICK x : x = t.b.flags
    OBVIOUS
  <2>3. o \in BpiPostBurst(dev, x)
    BY <2>1, <2>2 DEF HandlePostBurst
  <2>4. QED
    BY <2>1, <2>3, BpiPostSafe
<1>11. CASE Execute \/ Vanish
  <2>1. dev' = [dev EXCEPT !.gone = TRUE]
    BY <1>11 DEF Execute, Vanish
  <2>2. QED
    BY <2>1 DEF BpiGood, BpiShape, BankKnown
<1>12. QED
  BY <1>2, <1>3, <1>4, <1>5, <1>6, <1>7, <1>8, <1>9, <1>10, <1>11 DEF Next, Driver, BurstStep

-----------------------------------------------------------------------------
(* The test access port.                                                   *)

TapNext(tap, bit) == TapStep[tap][bit + 1]

\* The states the TAP takes while the bits are shifted.
IsRun(f, tap, tms, n) == f = [i \in 0 .. n |-> IF i = 0 THEN tap ELSE TapNext(f[i - 1], tms[i])]

\* f goes through the states that the first n bits lead to.
Runs(f, tap, tms, n) ==
  f[0] = tap /\ \A i \in 1 .. n : f[i] = TapNext(f[i - 1], tms[i])

LEMMA RunStep ==
  ASSUME NEW tap, NEW tms, NEW n \in Nat, NEW f, IsRun(f, tap, tms, n)
  PROVE  Runs(f, tap, tms, n)
<1> DEFINE F(i) == IF i = 0 THEN tap ELSE TapNext(f[i - 1], tms[i])
<1>1. f = [i \in 0 .. n |-> F(i)]
  BY Zenon DEF IsRun
<1> HIDE DEF F
<1>2. \A i \in 0 .. n : f[i] = F(i)
  BY <1>1
<1>3. F(0) = tap
  BY DEF F
<1>4. \A i \in 1 .. n : i \in 0 .. n /\ F(i) = TapNext(f[i - 1], tms[i])
  BY DEF F
<1>5. QED
  BY <1>2, <1>3, <1>4 DEF Runs

LEMMA RunExists ==
  ASSUME NEW tap, NEW tms
  PROVE  \A n \in Nat : \E f : IsRun(f, tap, tms, n)
<1> DEFINE S == {n \in Nat : \E f : IsRun(f, tap, tms, n)}
<1>1. 0 \in S
  <2>1. IsRun([i \in 0 .. 0 |-> tap], tap, tms, 0)
    BY DEF IsRun
  <2>2. QED
    BY <2>1
<1>2. ASSUME NEW n \in S PROVE n + 1 \in S
  <2>1. PICK f : IsRun(f, tap, tms, n)
    OBVIOUS
  <2>2. n \in Nat
    OBVIOUS
  <2> DEFINE g == [i \in 0 .. n + 1 |-> IF i = n + 1 THEN TapNext(f[n], tms[n + 1]) ELSE f[i]]
  <2>3. ASSUME NEW i \in 0 .. n + 1
        PROVE  g[i] = IF i = 0 THEN tap ELSE TapNext(g[i - 1], tms[i])
    BY <2>1, <2>2 DEF IsRun
  <2>4. IsRun(g, tap, tms, n + 1)
    BY <2>2, <2>3 DEF IsRun
  <2>5. QED
    BY <2>2, <2>4
<1> HIDE DEF S
<1>3. S \in SUBSET Nat
  BY DEF S
<1>4. S = Nat
  BY <1>1, <1>2, <1>3, NatInduct
<1>5. QED
  BY <1>4 DEF S

\* Any account of the run ends where Clock ends.
LEMMA ClockIs ==
  ASSUME NEW tap, NEW tms, Len(tms) \in Nat, NEW g, Runs(g, tap, tms, Len(tms))
  PROVE  Clock(tap, tms) = g[Len(tms)]
<1> DEFINE f == CHOOSE h : IsRun(h, tap, tms, Len(tms))
<1>1. \E h : IsRun(h, tap, tms, Len(tms))
  BY RunExists
<1>2. IsRun(f, tap, tms, Len(tms))
  BY <1>1, Zenon
<1>3. Clock(tap, tms) = f[Len(tms)]
  BY DEF Clock, IsRun, TapNext
<1> HIDE DEF f
<1>n. PICK n \in Nat : n = Len(tms)
  OBVIOUS
<1>4. f[0] = tap /\ \A i \in 1 .. n : f[i] = TapNext(f[i - 1], tms[i])
  <2>1. Runs(f, tap, tms, n)
    BY <1>2, <1>n, RunStep
  <2>2. QED
    BY <2>1 DEF Runs
<1>a. g[0] = tap /\ \A i \in 1 .. n : g[i] = TapNext(g[i - 1], tms[i])
  BY <1>n DEF Runs
<1> DEFINE S == {i \in Nat : i <= n => f[i] = g[i]}
<1>5. 0 \in S
  BY <1>4, <1>a
<1>6. ASSUME NEW i \in S PROVE i + 1 \in S
  <2>1. i \in Nat
    OBVIOUS
  <2>2. CASE i + 1 <= n
    <3>1. PICK j \in 1 .. n : j = i + 1 /\ j - 1 = i
      BY <2>1, <2>2
    <3>2. f[i] = g[i]
      BY <2>1, <2>2
    <3>3. f[j] = TapNext(f[i], tms[j]) /\ g[j] = TapNext(g[i], tms[j])
      BY <1>4, <1>a, <3>1
    <3>4. QED
      BY <2>1, <3>1, <3>2, <3>3
  <2>3. QED
    BY <2>1, <2>2
<1> HIDE DEF S
<1>7. S = Nat
  <2>1. S \in SUBSET Nat
    BY DEF S
  <2>2. QED
    BY <1>5, <1>6, <2>1, NatInduct
<1>8. f[n] = g[n]
  BY <1>7 DEF S
<1>9. QED
  BY <1>3, <1>8, <1>n

LEMMA ClockRuns ==
  ASSUME NEW tap, NEW tms, Len(tms) \in Nat
  PROVE  \E f : Runs(f, tap, tms, Len(tms)) /\ f[Len(tms)] = Clock(tap, tms)
<1>1. PICK f : IsRun(f, tap, tms, Len(tms))
  BY RunExists
<1>2. Runs(f, tap, tms, Len(tms))
  BY <1>1, RunStep
<1>3. f[Len(tms)] = Clock(tap, tms)
  BY <1>2, ClockIs
<1>4. QED
  BY <1>2, <1>3

\* One path after the other.
LEMMA ClockConcat ==
  ASSUME NEW tap, NEW u \in Seq(Nat), NEW v \in Seq(Nat)
  PROVE  Clock(tap, u \o v) = Clock(Clock(tap, u), v)
<1>1. PICK m \in Nat, k \in Nat : m = Len(u) /\ k = Len(v)
  OBVIOUS
<1>2. Len(u \o v) = m + k /\ (\A i \in 1 .. m : (u \o v)[i] = u[i])
      /\ (\A i \in m + 1 .. m + k : (u \o v)[i] = v[i - m])
  BY <1>1
<1>a. PICK f : Runs(f, tap, u, Len(u)) /\ f[Len(u)] = Clock(tap, u)
  BY <1>1, ClockRuns
<1>3. f[0] = tap /\ f[m] = Clock(tap, u) /\ \A i \in 1 .. m : f[i] = TapNext(f[i - 1], u[i])
  BY <1>1, <1>a DEF Runs
<1>b. PICK x : x = Clock(tap, u)
  OBVIOUS
<1>c. PICK g : Runs(g, x, v, Len(v)) /\ g[Len(v)] = Clock(x, v)
  BY <1>1, ClockRuns
<1>4. g[0] = Clock(tap, u) /\ g[k] = Clock(Clock(tap, u), v)
      /\ \A i \in 1 .. k : g[i] = TapNext(g[i - 1], v[i])
  BY <1>1, <1>b, <1>c DEF Runs
<1> DEFINE h == [i \in 0 .. m + k |-> IF i <= m THEN f[i] ELSE g[i - m]]
<1>5. h[0] = tap /\ h[m + k] = Clock(Clock(tap, u), v)
  <2>1. h[0] = tap
    BY <1>3
  <2>2. CASE k = 0
    BY <1>3, <1>4, <2>2
  <2>3. CASE k # 0
    <3>1. ~(m + k <= m) /\ (m + k) - m = k /\ m + k \in 0 .. m + k
      BY <2>3
    <3>2. h[m + k] = g[k]
      BY <3>1
    <3>3. QED
      BY <1>4, <2>1, <3>2
  <2>4. QED
    BY <2>1, <2>2, <2>3
<1>6. ASSUME NEW i \in 1 .. m + k
      PROVE  h[i] = TapNext(h[i - 1], (u \o v)[i])
  <2>1. CASE i <= m
    <3>1. i \in 1 .. m /\ h[i] = f[i] /\ h[i - 1] = f[i - 1]
      BY <2>1
    <3>2. QED
      BY <1>2, <1>3, <3>1
  <2>2. CASE i > m
    <3>1. PICK j \in 1 .. k : j = i - m
      BY <2>2
    <3>2. i \in m + 1 .. m + k /\ h[i] = g[j]
      BY <2>2, <3>1
    <3>3. h[i - 1] = g[j - 1]
      <4>1. CASE j = 1
        <5>1. i - 1 = m /\ j - 1 = 0 /\ i - 1 \in 0 .. m + k
          BY <3>1, <4>1
        <5>2. h[i - 1] = f[m]
          BY <5>1
        <5>3. QED
          BY <1>3, <1>4, <5>1, <5>2
      <4>2. CASE j # 1
        <5>1. i - 1 > m /\ i - 1 - m = j - 1 /\ i - 1 \in 0 .. m + k
          BY <3>1, <4>2
        <5>2. QED
          BY <5>1
      <4>3. QED
        BY <4>1, <4>2
    <3>4. (u \o v)[i] = v[j]
      BY <1>2, <3>1, <3>2
    <3>5. g[j] = TapNext(g[j - 1], v[j])
      BY <1>4, <3>1
    <3>6. QED
      BY <3>2, <3>3, <3>4, <3>5
  <2>3. i <= m \/ i > m
    OBVIOUS
  <2>4. QED
    BY <2>1, <2>2, <2>3, Zenon
<1> HIDE DEF h
<1>7. PICK w : w = u \o v
  OBVIOUS
<1>8. Len(w) = m + k /\ Len(w) \in Nat /\ Runs(h, tap, w, Len(w))
  <2>1. PICK n \in Nat : n = m + k
    OBVIOUS
  <2>2. Len(w) = n
    BY <1>2, <1>7, <2>1
  <2>3. \A i \in 1 .. n : h[i] = TapNext(h[i - 1], w[i])
    BY <1>6, <1>7, <2>1
  <2>4. Runs(h, tap, w, n)
    BY <1>5, <2>3 DEF Runs
  <2>5. QED
    BY <2>1, <2>2, <2>4
<1>9. Clock(tap, w) = h[Len(w)]
  BY <1>8, ClockIs
<1>10. QED
  BY <1>5, <1>7, <1>8, <1>9

LEMMA ClockEmpty ==
  ASSUME NEW tap
  PROVE  Clock(tap, <<>>) = tap
<1>1. PICK e : e = <<>>
  OBVIOUS
<1>2. Len(e) = 0
  BY <1>1
<1>3. PICK f : Runs(f, tap, e, Len(e)) /\ f[Len(e)] = Clock(tap, e)
  BY <1>2, ClockRuns
<1>4. QED
  BY <1>1, <1>2, <1>3 DEF Runs

LEMMA TapTable ==
  /\ TapNext("Reset", 0) = "Idle" /\ TapNext("Reset", 1) = "Reset"
  /\ TapNext("Idle", 0) = "Idle" /\ TapNext("Idle", 1) = "SelectDR"
  /\ TapNext("SelectDR", 0) = "CaptureDR" /\ TapNext("SelectDR", 1) = "SelectIR"
  /\ TapNext("SelectIR", 0) = "CaptureIR" /\ TapNext("SelectIR", 1) = "Reset"
  /\ TapNext("CaptureDR", 0) = "ShiftDR" /\ TapNext("CaptureDR", 1) = "Exit1DR"
  /\ TapNext("CaptureIR", 0) = "ShiftIR" /\ TapNext("CaptureIR", 1) = "Exit1IR"
  /\ TapNext("ShiftDR", 0) = "ShiftDR" /\ TapNext("ShiftDR", 1) = "Exit1DR"
  /\ TapNext("ShiftIR", 0) = "ShiftIR" /\ TapNext("ShiftIR", 1) = "Exit1IR"
  /\ TapNext("Exit1DR", 1) = "UpdateDR" /\ TapNext("Exit1IR", 1) = "UpdateIR"
  /\ TapNext("PauseDR", 1) = "Exit2DR" /\ TapNext("PauseIR", 1) = "Exit2IR"
  /\ TapNext("Exit2DR", 1) = "UpdateDR" /\ TapNext("Exit2IR", 1) = "UpdateIR"
  /\ TapNext("UpdateDR", 0) = "Idle" /\ TapNext("UpdateDR", 1) = "SelectDR"
  /\ TapNext("UpdateIR", 0) = "Idle" /\ TapNext("UpdateIR", 1) = "SelectDR"
  BY DEF TapNext, TapStep

LEMMA TapStatesAre ==
  TapStates = {"Reset", "Idle", "SelectDR", "SelectIR", "CaptureDR", "CaptureIR", "ShiftDR",
               "ShiftIR", "Exit1DR", "Exit1IR", "PauseDR", "PauseIR", "Exit2DR", "Exit2IR",
               "UpdateDR", "UpdateIR"}
  BY DEF TapStates, TapStep

\* Paths of one to six bits.
LEMMA Clock1 ==
  ASSUME NEW x, NEW a \in Nat
  PROVE  Clock(x, <<a>>) = TapNext(x, a)
<1>1. PICK p : p = <<a>>
  OBVIOUS
<1>2. Len(p) = 1 /\ Len(p) \in Nat /\ p[1] = a
  BY <1>1
<1>3. PICK f : Runs(f, x, p, Len(p)) /\ f[Len(p)] = Clock(x, p)
  BY <1>2, ClockRuns
<1>4. /\ f[0] = x /\ f[1] = Clock(x, p)
      /\ f[1] = TapNext(f[0], p[1])
  BY <1>2, <1>3 DEF Runs
<1>5. QED
  BY <1>1, <1>2, <1>4

LEMMA ClockMore ==
  ASSUME NEW x, NEW a \in Nat, NEW s \in Seq(Nat)
  PROVE  Clock(x, <<a>> \o s) = Clock(TapNext(x, a), s)
<1>1. <<a>> \in Seq(Nat)
  OBVIOUS
<1>2. Clock(x, <<a>> \o s) = Clock(Clock(x, <<a>>), s)
  BY <1>1, ClockConcat
<1>3. QED
  BY <1>2, Clock1

LEMMA Clock2 ==
  ASSUME NEW x, NEW a \in Nat, NEW b \in Nat
  PROVE  Clock(x, <<a, b>>) = TapNext(TapNext(x, a), b)
<1>1. PICK p : p = <<a, b>>
  OBVIOUS
<1>2. Len(p) = 2 /\ Len(p) \in Nat /\ p[1] = a /\ p[2] = b
  BY <1>1
<1>3. PICK f : Runs(f, x, p, Len(p)) /\ f[Len(p)] = Clock(x, p)
  BY <1>2, ClockRuns
<1>4. /\ f[0] = x /\ f[2] = Clock(x, p)
      /\ f[1] = TapNext(f[0], p[1])
      /\ f[2] = TapNext(f[1], p[2])
  BY <1>2, <1>3 DEF Runs
<1>5. QED
  BY <1>1, <1>2, <1>4

LEMMA Clock3 ==
  ASSUME NEW x, NEW a \in Nat, NEW b \in Nat, NEW c \in Nat
  PROVE  Clock(x, <<a, b, c>>) = TapNext(TapNext(TapNext(x, a), b), c)
<1>1. PICK p : p = <<a, b, c>>
  OBVIOUS
<1>2. Len(p) = 3 /\ Len(p) \in Nat /\ p[1] = a /\ p[2] = b /\ p[3] = c
  BY <1>1
<1>3. PICK f : Runs(f, x, p, Len(p)) /\ f[Len(p)] = Clock(x, p)
  BY <1>2, ClockRuns
<1>4. /\ f[0] = x /\ f[3] = Clock(x, p)
      /\ f[1] = TapNext(f[0], p[1])
      /\ f[2] = TapNext(f[1], p[2])
      /\ f[3] = TapNext(f[2], p[3])
  BY <1>2, <1>3 DEF Runs
<1>5. QED
  BY <1>1, <1>2, <1>4

LEMMA Clock4 ==
  ASSUME NEW x, NEW a \in Nat, NEW b \in Nat, NEW c \in Nat, NEW d \in Nat
  PROVE  Clock(x, <<a, b, c, d>>) =
           TapNext(TapNext(TapNext(TapNext(x, a), b), c), d)
<1>1. PICK p : p = <<a, b, c, d>>
  OBVIOUS
<1>2. Len(p) = 4 /\ Len(p) \in Nat /\ p[1] = a /\ p[2] = b /\ p[3] = c /\ p[4] = d
  BY <1>1
<1>3. PICK f : Runs(f, x, p, Len(p)) /\ f[Len(p)] = Clock(x, p)
  BY <1>2, ClockRuns
<1>4. /\ f[0] = x /\ f[4] = Clock(x, p)
      /\ f[1] = TapNext(f[0], p[1])
      /\ f[2] = TapNext(f[1], p[2])
      /\ f[3] = TapNext(f[2], p[3])
      /\ f[4] = TapNext(f[3], p[4])
  BY <1>2, <1>3 DEF Runs
<1>5. QED
  BY <1>1, <1>2, <1>4

LEMMA Clock5 ==
  ASSUME NEW x, NEW a \in Nat, NEW b \in Nat, NEW c \in Nat, NEW d \in Nat,
         NEW e \in Nat
  PROVE  Clock(x, <<a, b, c, d, e>>) =
           TapNext(TapNext(TapNext(TapNext(TapNext(x, a), b), c), d), e)
<1>1. PICK p : p = <<a, b, c, d, e>>
  OBVIOUS
<1>2. Len(p) = 5 /\ Len(p) \in Nat /\ p[1] = a /\ p[2] = b /\ p[3] = c /\ p[4] = d /\ p[5] = e
  BY <1>1
<1>3. PICK f : Runs(f, x, p, Len(p)) /\ f[Len(p)] = Clock(x, p)
  BY <1>2, ClockRuns
<1>4. /\ f[0] = x /\ f[5] = Clock(x, p)
      /\ f[1] = TapNext(f[0], p[1])
      /\ f[2] = TapNext(f[1], p[2])
      /\ f[3] = TapNext(f[2], p[3])
      /\ f[4] = TapNext(f[3], p[4])
      /\ f[5] = TapNext(f[4], p[5])
  BY <1>2, <1>3 DEF Runs
<1>5. QED
  BY <1>1, <1>2, <1>4

LEMMA Clock6 ==
  ASSUME NEW x, NEW a \in Nat, NEW b \in Nat, NEW c \in Nat, NEW d \in Nat,
         NEW e \in Nat, NEW g \in Nat
  PROVE  Clock(x, <<a, b, c, d, e, g>>) =
           TapNext(TapNext(TapNext(TapNext(TapNext(TapNext(x, a), b), c), d), e), g)
<1>1. PICK p : p = <<a, b, c, d, e, g>>
  OBVIOUS
<1>2. Len(p) = 6 /\ Len(p) \in Nat /\ p[1] = a /\ p[2] = b /\ p[3] = c /\ p[4] = d /\ p[5] = e /\ p[6] = g
  BY <1>1
<1>3. PICK f : Runs(f, x, p, Len(p)) /\ f[Len(p)] = Clock(x, p)
  BY <1>2, ClockRuns
<1>4. /\ f[0] = x /\ f[6] = Clock(x, p)
      /\ f[1] = TapNext(f[0], p[1])
      /\ f[2] = TapNext(f[1], p[2])
      /\ f[3] = TapNext(f[2], p[3])
      /\ f[4] = TapNext(f[3], p[4])
      /\ f[5] = TapNext(f[4], p[5])
      /\ f[6] = TapNext(f[5], p[6])
  BY <1>2, <1>3 DEF Runs
<1>5. QED
  BY <1>1, <1>2, <1>4

-----------------------------------------------------------------------------
(* The paths of set_state.                                                 *)

JtagTargets == {"IDLE", "SHIFT_DR", "SHIFT_IR", "RESET"}

\* The TAP state that a target stands for.
TapOf(target) ==
  CASE target = "IDLE" -> "Idle" [] target = "SHIFT_DR" -> "ShiftDR"
    [] target = "SHIFT_IR" -> "ShiftIR" [] target = "RESET" -> "Reset"

LEMMA FromIdleArrives ==
  ASSUME NEW target \in JtagTargets
  PROVE  FromIdle(target) \in Seq(Nat) /\ Clock("Idle", FromIdle(target)) = TapOf(target)
<1>1. CASE target = "IDLE"
  BY <1>1, ClockEmpty DEF FromIdle, TapOf
<1>2. CASE target = "SHIFT_DR"
  BY <1>2, Clock3, TapTable DEF FromIdle, TapOf
<1>3. CASE target = "SHIFT_IR"
  BY <1>3, Clock4, TapTable DEF FromIdle, TapOf
<1>4. CASE target = "RESET"
  BY <1>4, Clock3, TapTable DEF FromIdle, TapOf
<1>5. QED
  BY <1>1, <1>2, <1>3, <1>4 DEF JtagTargets

LEMMA FromResetArrives ==
  ASSUME NEW target \in JtagTargets
  PROVE  FromReset(target) \in Seq(Nat) /\ Clock("Reset", FromReset(target)) = TapOf(target)
<1>1. CASE target = "RESET"
  BY <1>1, ClockEmpty DEF FromReset, TapOf
<1>2. CASE target # "RESET"
  <2>1. PICK s \in Seq(Nat) : s = FromIdle(target) /\ Clock("Idle", s) = TapOf(target)
    BY FromIdleArrives
  <2>2. FromReset(target) = <<0>> \o s
    BY <1>2, <2>1 DEF FromReset
  <2>3. Clock("Reset", <<0>> \o s) = Clock("Idle", s)
    BY ClockMore, TapTable
  <2>4. <<0>> \o s \in Seq(Nat)
    OBVIOUS
  <2>5. QED
    BY <2>1, <2>2, <2>3, <2>4
<1>3. QED
  BY <1>1, <1>2

LEMMA FromShiftArrives ==
  ASSUME NEW source \in {"SHIFT_DR", "SHIFT_IR"}, NEW target \in JtagTargets
  PROVE  Clock(TapOf(source), FromShift(source, target)) = TapOf(target)
<1>1. CASE target = source
  BY <1>1, ClockEmpty DEF FromShift
<1>2. CASE target # source /\ target = "IDLE"
  BY <1>2, Clock3, TapTable DEF FromShift, TapOf
<1>3. CASE target # source /\ target = "RESET"
  BY <1>3, Clock5, TapTable DEF FromShift, TapOf
<1>4. CASE target # source /\ target = "SHIFT_IR"
  BY <1>4, Clock6, TapTable DEF FromShift, TapOf
<1>5. CASE target # source /\ target = "SHIFT_DR"
  BY <1>5, Clock5, TapTable DEF FromShift, TapOf
<1>6. QED
  BY <1>1, <1>2, <1>3, <1>4, <1>5 DEF JtagTargets

LEMMA FromExitArrives ==
  ASSUME NEW x \in {"Exit1DR", "Exit1IR"}, NEW target \in JtagTargets
  PROVE  Clock(x, FromExit(target)) = TapOf(target)
<1>1. CASE target = "IDLE"
  BY <1>1, Clock2, TapTable DEF FromExit, TapOf
<1>2. CASE target = "SHIFT_DR"
  BY <1>2, Clock4, TapTable DEF FromExit, TapOf
<1>3. CASE target = "SHIFT_IR"
  BY <1>3, Clock5, TapTable DEF FromExit, TapOf
<1>4. CASE target = "RESET"
  BY <1>4, Clock4, TapTable DEF FromExit, TapOf
<1>5. QED
  BY <1>1, <1>2, <1>3, <1>4 DEF JtagTargets

\* Five bits of TMS high reset the TAP, wherever it is.
LEMMA FiveOnesReset ==
  ASSUME NEW x \in TapStates
  PROVE  Clock(x, <<1, 1, 1, 1, 1>>) = "Reset"
<1>1. Clock(x, <<1, 1, 1, 1, 1>>) = TapNext(TapNext(TapNext(TapNext(TapNext(x, 1), 1), 1), 1), 1)
  BY Clock5
<1>2. QED
  BY <1>1, TapTable, TapStatesAre

JtagStates6 == {"INVALID", "RESET", "IDLE", "SHIFT_DR", "SHIFT_IR", "EXIT"}

LEMMA MeaningIs ==
  /\ Meaning("INVALID") = TapStates /\ Meaning("EXIT") = {"Exit1DR", "Exit1IR"}
  /\ \A s \in JtagTargets : Meaning(s) = {TapOf(s)}
  BY DEF Meaning, TapOf, JtagTargets

\* set_state takes the TAP from any state that self->state may stand for to the target.
LEMMA PathArrives ==
  ASSUME NEW source \in JtagStates6, NEW x \in Meaning(source), NEW target \in JtagTargets
  PROVE  Clock(x, TmsPath(source, target)) = TapOf(target)
<1>1. CASE source = "INVALID"
  <2>1. x \in TapStates
    BY <1>1, MeaningIs
  <2>2. PICK s \in Seq(Nat) : s = FromReset(target) /\ Clock("Reset", s) = TapOf(target)
    BY FromResetArrives
  <2>3. PICK u : u = <<1, 1, 1, 1, 1>>
    OBVIOUS
  <2>a. u \in Seq(Nat)
    BY <2>3
  <2>4. Clock(x, u \o s) = Clock(Clock(x, u), s)
    BY <2>a, ClockConcat
  <2>5. TmsPath(source, target) = u \o s
    BY <1>1, <2>2, <2>3 DEF TmsPath
  <2>6. QED
    BY <2>1, <2>2, <2>3, <2>4, <2>5, FiveOnesReset
<1>2. CASE source = "RESET"
  BY <1>2, MeaningIs, FromResetArrives DEF TmsPath, TapOf, JtagTargets
<1>3. CASE source = "IDLE"
  BY <1>3, MeaningIs, FromIdleArrives DEF TmsPath, TapOf, JtagTargets
<1>4. CASE source = "EXIT"
  BY <1>4, MeaningIs, FromExitArrives DEF TmsPath
<1>5. CASE source \in {"SHIFT_DR", "SHIFT_IR"}
  <2>1. x = TapOf(source)
    BY <1>5, MeaningIs DEF JtagTargets
  <2>2. TmsPath(source, target) = FromShift(source, target)
    BY <1>5 DEF TmsPath
  <2>3. QED
    BY <1>5, <2>1, <2>2, FromShiftArrives
<1>6. QED
  BY <1>1, <1>2, <1>3, <1>4, <1>5 DEF JtagStates6

-----------------------------------------------------------------------------
(* The shift loop.                                                         *)

\* TMS is low up to the last bit, which leaves the shift state.
ShiftBits(q, state, k) ==
  /\ q \in Seq(Nat) /\ Len(q) = k
  /\ \A i \in 1 .. k : q[i] = IF state # "IDLE" /\ i = k THEN 1 ELSE 0

LEMMA WordBitsFit ==
  ASSUME NEW left \in Nat, left > 0
  PROVE  /\ WordBits(left) \in Nat /\ 0 < WordBits(left) /\ WordBits(left) <= left
         /\ left <= 16 => WordBits(left) = left
         /\ left > 16 => WordBits(left) < left
  BY DEF WordBits

LEMMA WordTmsIs ==
  ASSUME NEW left \in Nat, left > 0, NEW state
  PROVE  /\ WordTms(left, state) \in Seq(Nat) /\ Len(WordTms(left, state)) = WordBits(left)
         /\ \A i \in 1 .. WordBits(left) :
              WordTms(left, state)[i] =
                IF left <= 16 /\ state # "IDLE" /\ i = WordBits(left) THEN 1 ELSE 0
<1>1. PICK w \in Nat : w = WordBits(left)
  BY WordBitsFit
<1>2. PICK q : q = [i \in 1 .. w |-> IF left <= 16 /\ state # "IDLE" /\ i = w THEN 1 ELSE 0]
  OBVIOUS
<1>3. WordTms(left, state) = q
  BY <1>1, <1>2, Zenon DEF WordTms
<1>4. q \in [1 .. w -> Nat] /\ \A i \in 1 .. w : q[i] = IF left <= 16 /\ state # "IDLE" /\ i = w THEN 1 ELSE 0
  BY <1>2
<1>5. q \in Seq(Nat) /\ Len(q) = w
  BY <1>4
<1>6. QED
  BY <1>1, <1>3, <1>4, <1>5

\* A word in front of the rest.
LEMMA WordThenRest ==
  ASSUME NEW left \in Nat, left > 0, NEW state, NEW r,
         ShiftBits(r, state, left - WordBits(left))
  PROVE  ShiftBits(WordTms(left, state) \o r, state, left)
<1>1. PICK w \in Nat : w = WordBits(left) /\ 0 < w /\ w <= left
                       /\ (left <= 16 => w = left) /\ (left > 16 => w < left)
  BY WordBitsFit
<1>2. PICK q : q = WordTms(left, state)
  OBVIOUS
<1>3. q \in Seq(Nat) /\ Len(q) = w
      /\ \A i \in 1 .. w : q[i] = IF left <= 16 /\ state # "IDLE" /\ i = w THEN 1 ELSE 0
  BY <1>1, <1>2, WordTmsIs
<1>4. PICK k \in Nat : k = left - w
  BY <1>1
<1>5. r \in Seq(Nat) /\ Len(r) = k
      /\ \A i \in 1 .. k : r[i] = IF state # "IDLE" /\ i = k THEN 1 ELSE 0
  BY <1>1, <1>4 DEF ShiftBits
<1>6. PICK s : s = q \o r
  OBVIOUS
<1>a. q \in Seq(Nat) /\ w = Len(q)
  BY <1>3
<1>b. r \in Seq(Nat) /\ k = Len(r)
  BY <1>5
<1>c. (q \o r) \in Seq(Nat) /\ Len(q \o r) = w + k
  BY <1>a, <1>b
<1>d. \A i \in 1 .. w : (q \o r)[i] = q[i]
  BY <1>a, <1>b
<1>e. \A i \in w + 1 .. w + k : (q \o r)[i] = r[i - w]
  BY <1>a, <1>b
<1>7. s \in Seq(Nat) /\ Len(s) = w + k /\ (\A i \in 1 .. w : s[i] = q[i])
      /\ (\A i \in w + 1 .. w + k : s[i] = r[i - w])
  BY <1>6, <1>c, <1>d, <1>e
<1>8. w + k = left
  BY <1>1, <1>4
<1>9. ASSUME NEW i \in 1 .. left
      PROVE  s[i] = IF state # "IDLE" /\ i = left THEN 1 ELSE 0
  <2>1. CASE i <= w
    <3>1. i \in 1 .. w
      BY <1>1, <2>1
    <3>2. s[i] = IF left <= 16 /\ state # "IDLE" /\ i = w THEN 1 ELSE 0
      BY <1>3, <1>7, <3>1
    <3>3. left <= 16 /\ i = w <=> i = left
      BY <1>1, <2>1
    <3>4. QED
      BY <3>2, <3>3
  <2>2. CASE i > w
    <3>1. PICK j \in 1 .. k : j = i - w
      BY <1>1, <1>4, <2>2
    <3>2. i \in w + 1 .. w + k
      BY <1>8, <2>2
    <3>3. s[i] = r[j]
      BY <1>7, <3>1, <3>2
    <3>4. j = k <=> i = left
      BY <1>1, <1>4, <3>1
    <3>5. QED
      BY <1>5, <3>1, <3>3, <3>4
  <2>3. QED
    BY <1>1, <2>1, <2>2
<1>10. QED
  BY <1>2, <1>6, <1>7, <1>8, <1>9 DEF ShiftBits

IsTms(f, state, n) ==
  f = [left \in 0 .. n |->
         IF left = 0 THEN <<>> ELSE WordTms(left, state) \o f[left - WordBits(left)]]

LEMMA TmsExists ==
  ASSUME NEW state
  PROVE  \A n \in Nat : \E f : IsTms(f, state, n)
<1> DEFINE S == {n \in Nat : \E f : IsTms(f, state, n)}
<1>1. 0 \in S
  <2>1. IsTms([left \in 0 .. 0 |-> <<>>], state, 0)
    BY DEF IsTms
  <2>2. QED
    BY <2>1
<1>2. ASSUME NEW n \in S PROVE n + 1 \in S
  <2>1. PICK f : IsTms(f, state, n)
    OBVIOUS
  <2>2. n \in Nat
    OBVIOUS
  <2>3. PICK z : z = WordTms(n + 1, state) \o f[(n + 1) - WordBits(n + 1)]
    OBVIOUS
  <2> DEFINE g == [left \in 0 .. n + 1 |-> IF left = n + 1 THEN z ELSE f[left]]
  <2>4. ASSUME NEW left \in 0 .. n + 1
        PROVE  g[left] = IF left = 0 THEN <<>>
                         ELSE WordTms(left, state) \o g[left - WordBits(left)]
    <3>1. CASE left = 0
      BY <2>1, <2>2, <3>1 DEF IsTms
    <3>2. CASE left # 0
      <4>1. PICK k : k = left - WordBits(left)
        OBVIOUS
      <4>2. k \in 0 .. n /\ k # n + 1
        BY <2>2, <3>2, <4>1, WordBitsFit
      <4>3. g[k] = f[k]
        BY <2>2, <4>2
      <4>4. CASE left = n + 1
        <5>1. g[left] = z /\ z = WordTms(left, state) \o f[k]
          BY <2>2, <2>3, <4>1, <4>4
        <5>2. QED
          BY <3>2, <4>1, <4>3, <5>1
      <4>5. CASE left # n + 1
        <5>1. left \in 0 .. n /\ g[left] = f[left]
          BY <2>2, <4>5
        <5>2. f[left] = WordTms(left, state) \o f[left - WordBits(left)]
          BY <2>1, <3>2, <5>1 DEF IsTms
        <5>3. QED
          BY <3>2, <4>1, <4>3, <5>1, <5>2
      <4>6. QED
        BY <4>4, <4>5
    <3>3. QED
      BY <3>1, <3>2
  <2>5. IsTms(g, state, n + 1)
    BY <2>2, <2>4 DEF IsTms
  <2>6. QED
    BY <2>2, <2>5
<1> HIDE DEF S
<1>3. S \in SUBSET Nat
  BY DEF S
<1>4. S = Nat
  BY <1>1, <1>2, <1>3, NatInduct
<1>5. QED
  BY <1>4 DEF S

\* What the loop sends, in as many words as it takes.
LEMMA ShiftTmsIs ==
  ASSUME NEW n \in Nat, NEW state
  PROVE  ShiftBits(ShiftTms(n, state), state, n)
<1> DEFINE f == CHOOSE g : IsTms(g, state, n)
<1>1. \E g : IsTms(g, state, n)
  BY TmsExists
<1>2. IsTms(f, state, n)
  BY <1>1, Zenon
<1>3. ShiftTms(n, state) = f[n]
  BY DEF ShiftTms, IsTms
<1> HIDE DEF f
<1>4. ASSUME NEW left \in 0 .. n
      PROVE  f[left] = IF left = 0 THEN <<>>
                       ELSE WordTms(left, state) \o f[left - WordBits(left)]
  <2> DEFINE F(k) == IF k = 0 THEN <<>> ELSE WordTms(k, state) \o f[k - WordBits(k)]
  <2>1. f = [k \in 0 .. n |-> F(k)]
    BY <1>2, Zenon DEF IsTms
  <2> HIDE DEF F
  <2>2. f[left] = F(left)
    BY <2>1
  <2>3. QED
    BY <2>2 DEF F
<1> DEFINE Fine(k) == ShiftBits(f[k], state, k)
           S == {k \in Nat : \A j \in 0 .. k : j <= n => Fine(j)}
<1>5. 0 \in S
  <2>1. PICK e : e = f[0]
    OBVIOUS
  <2>2. e = <<>>
    BY <1>4, <2>1
  <2>3. Fine(0)
    BY <2>1, <2>2 DEF ShiftBits
  <2> HIDE DEF Fine
  <2>4. \A j \in 0 .. 0 : j = 0
    OBVIOUS
  <2>5. QED
    BY <2>3, <2>4
<1>6. ASSUME NEW k \in S PROVE k + 1 \in S
  <2> HIDE DEF Fine
  <2>1. k \in Nat /\ \A j \in 0 .. k : j <= n => Fine(j)
    OBVIOUS
  <2>2. ASSUME k + 1 <= n PROVE Fine(k + 1)
    <3>1. PICK l \in Nat : l = k + 1 /\ l > 0
      BY <2>1
    <3>2. PICK m \in Nat : m = l - WordBits(l) /\ m \in 0 .. k
      BY <2>1, <3>1, WordBitsFit
    <3>3. Fine(m)
      BY <2>1, <2>2, <3>2
    <3>4. ShiftBits(f[m], state, l - WordBits(l))
      BY <3>2, <3>3 DEF Fine
    <3>5. l \in 0 .. n /\ l # 0
      BY <2>2, <3>1
    <3>6. f[l] = WordTms(l, state) \o f[m]
      BY <1>4, <3>2, <3>5
    <3>7. ShiftBits(WordTms(l, state) \o f[m], state, l)
      BY <3>1, <3>4, WordThenRest
    <3>8. QED
      BY <3>1, <3>6, <3>7 DEF Fine
  <2>3. ASSUME NEW j \in 0 .. k + 1, j <= n PROVE Fine(j)
    <3>1. j \in 0 .. k \/ j = k + 1
      BY <2>1
    <3>2. QED
      BY <2>1, <2>2, <2>3, <3>1
  <2>4. QED
    BY <2>1, <2>3
<1> HIDE DEF S, Fine
<1>7. S \in SUBSET Nat
  BY DEF S
<1>8. S = Nat
  BY <1>5, <1>6, <1>7, NatInduct
<1>9. Fine(n)
  BY <1>8 DEF S
<1>10. QED
  BY <1>3, <1>9 DEF Fine

\* Data is shifted in a shift state, which is left with the last bit, or in the idle
\* state, which is not.
LEMMA ShiftArrives ==
  ASSUME NEW n \in Nat, n > 0, NEW state \in {"IDLE", "SHIFT_DR", "SHIFT_IR"}
  PROVE  Clock(TapOf(state), ShiftTms(n, state)) =
           CASE state = "IDLE" -> "Idle" [] state = "SHIFT_DR" -> "Exit1DR"
             [] state = "SHIFT_IR" -> "Exit1IR"
<1>1. PICK q : q = ShiftTms(n, state)
  OBVIOUS
<1>2. Len(q) = n /\ \A i \in 1 .. n : q[i] = IF state # "IDLE" /\ i = n THEN 1 ELSE 0
  BY <1>1, ShiftTmsIs DEF ShiftBits
<1>3. PICK x, y : x = TapOf(state) /\ y = IF state = "IDLE" THEN x ELSE TapNext(x, 1)
  OBVIOUS
<1>4. TapNext(x, 0) = x
  BY <1>3, TapTable DEF TapOf
<1> DEFINE f == [i \in 0 .. n |-> IF i = n THEN y ELSE x]
<1>5. f[0] = x /\ f[n] = y
  OBVIOUS
<1>6. ASSUME NEW i \in 1 .. n PROVE f[i] = TapNext(f[i - 1], q[i])
  <2>1. f[i - 1] = x
    OBVIOUS
  <2>2. CASE i = n
    <3>1. q[i] = IF state # "IDLE" THEN 1 ELSE 0
      BY <1>2, <2>2
    <3>2. f[i] = y
      BY <2>2
    <3>3. QED
      BY <1>3, <1>4, <2>1, <3>1, <3>2
  <2>3. CASE i # n
    <3>1. q[i] = 0 /\ f[i] = x
      BY <1>2, <2>3
    <3>2. QED
      BY <1>4, <2>1, <3>1
  <2>4. QED
    BY <2>2, <2>3
<1> HIDE DEF f
<1>7. Runs(f, x, q, Len(q)) /\ Len(q) \in Nat
  BY <1>2, <1>5, <1>6 DEF Runs
<1>8. Clock(x, q) = y
  BY <1>2, <1>5, <1>7, ClockIs
<1>9. y = CASE state = "IDLE" -> "Idle" [] state = "SHIFT_DR" -> "Exit1DR"
            [] state = "SHIFT_IR" -> "Exit1IR"
  BY <1>3, TapTable DEF TapOf
<1>10. QED
  BY <1>1, <1>3, <1>8, <1>9

-----------------------------------------------------------------------------
(* The JTAG controller.                                                    *)

JtagShape(d) ==
  d \in [state : {d.state}, tap : {d.tap}, rbits : {d.rbits}, tbits : {d.tbits}, bits : Nat,
         gone : BOOLEAN, got : {d.got}, out : {d.out}]

TapKnown(d) == d.gone \/ (d.state \in JtagStates6 /\ d.tap \in Meaning(d.state))

JtagGood(d) == JtagShape(d) /\ TapKnown(d)

\* Whatever a handler returns, the controller knows where it left the TAP.
JtagOutcome(o) ==
  o \in [d : {o.d}, ok : BOOLEAN, data : {o.data}] /\ JtagGood(o.d)

\* The TAP is where a shift in the given state begins.
TapAt(d, state) == d.gone \/ (d.state = state /\ d.tap = TapOf(state))

LEMMA JtagOk ==
  ASSUME NEW d, JtagGood(d)
  PROVE  JtagOutcome(Ok(d)) /\ JtagOutcome(Err(d))
  BY OkShape, ErrShape DEF JtagOutcome

LEMMA JtagOkData ==
  ASSUME NEW d, JtagGood(d), NEW bytes
  PROVE  JtagOutcome(OkData(d, bytes))
<1>1. OkData(d, bytes).d = d
      /\ OkData(d, bytes) \in
           [d : {OkData(d, bytes).d}, ok : BOOLEAN, data : {OkData(d, bytes).data}]
  BY OkDataShape, Zenon
<1>2. QED
  BY <1>1, Zenon DEF JtagOutcome

\* The fields that say nothing of the TAP.
LEMMA JtagDataGood ==
  ASSUME NEW d, JtagGood(d), NEW x, NEW y, NEW k \in Nat
  PROVE  /\ JtagGood([d EXCEPT !.rbits = x]) /\ JtagGood([d EXCEPT !.tbits = x])
         /\ JtagGood([d EXCEPT !.bits = k]) /\ JtagGood([d EXCEPT !.got = x])
         /\ JtagGood([d EXCEPT !.out = x]) /\ JtagGood([d EXCEPT !.got = x, !.out = y])
         /\ JtagGood([d EXCEPT !.gone = TRUE])
         /\ JtagGood([d EXCEPT !.rbits = x, !.tbits = y, !.bits = k])
  BY DEF JtagGood, JtagShape, TapKnown

LEMMA JtagMoved ==
  ASSUME NEW d, JtagShape(d), NEW s \in JtagStates6, NEW x \in Meaning(s), NEW r, NEW m
  PROVE  /\ JtagGood([d EXCEPT !.state = s, !.tap = x])
         /\ JtagGood([d EXCEPT !.state = s, !.tap = x, !.rbits = r])
         /\ JtagGood([d EXCEPT !.state = s, !.tap = x, !.rbits = r, !.tbits = m])
  BY DEF JtagGood, JtagShape, TapKnown

LEMMA SetStateSafe ==
  ASSUME NEW d, JtagGood(d), NEW target \in JtagTargets, NEW o \in SetState(d, target)
  PROVE  JtagOutcome(o) /\ (o.ok => TapAt(o.d, target))
<1>1. PICK path : path = TmsPath(d.state, target)
  OBVIOUS
<1>2. PICK e : e = [d EXCEPT !.state = target, !.tap = Clock(d.tap, path)]
  OBVIOUS
<1>3. o = Ok(e) \/ o = Err(d)
  BY <1>1, <1>2 DEF SetState
<1>4. CASE o = Err(d)
  BY <1>4, JtagOk, ErrShape
<1>5. CASE o = Ok(e)
  <2>1. JtagShape(e) /\ e.gone = d.gone /\ e.state = target /\ e.tap = Clock(d.tap, path)
    BY <1>2 DEF JtagGood, JtagShape
  <2>2. ~d.gone => e.tap = TapOf(target)
    BY <1>1, <2>1, PathArrives DEF JtagGood, TapKnown
  <2>3. target \in JtagStates6 /\ Meaning(target) = {TapOf(target)}
    BY MeaningIs DEF JtagTargets, JtagStates6
  <2>4. TapAt(e, target) /\ TapKnown(e)
    BY <2>1, <2>2, <2>3 DEF TapAt, TapKnown
  <2>5. QED
    BY <1>5, <2>1, <2>4, JtagOk, OkShape DEF JtagGood
<1>6. QED
  BY <1>3, <1>4, <1>5

\* The shift loop leaves the shift state with the last bit.
LEMMA ShiftInStateSafe ==
  ASSUME NEW d, JtagGood(d), NEW n \in Nat, n > 0, NEW b, "RAW" \notin b.flags,
         b.state \in {"IDLE", "SHIFT_DR", "SHIFT_IR"}, TapAt(d, b.state),
         NEW o \in Shift(d, n, b)
  PROVE  JtagOutcome(o)
<1>1. CASE d.gone
  <2>1. PICK e : e = [d EXCEPT !.rbits = 0]
    OBVIOUS
  <2>2. o = Err(e)
    BY <1>1, <2>1 DEF Shift
  <2>3. QED
    BY <2>1, <2>2, JtagOk, JtagDataGood
<1>2. CASE ~d.gone
  <2>1. d.state = b.state /\ d.tap = TapOf(b.state)
    BY <1>2 DEF TapAt
  <2>2. PICK x : x = Clock(d.tap, ShiftTms(n, b.state))
    OBVIOUS
  <2>3. PICK s : s = IF b.state = "IDLE" THEN d.state ELSE "EXIT"
    OBVIOUS
  <2>4. PICK e : e = [d EXCEPT !.state = s, !.tap = x, !.rbits = n]
    OBVIOUS
  <2>5. o = Ok(e)
    BY <1>2, <2>2, <2>3, <2>4 DEF Shift
  <2>6. PICK st \in {"IDLE", "SHIFT_DR", "SHIFT_IR"} : st = b.state
    OBVIOUS
  <2>7. x = CASE st = "IDLE" -> "Idle" [] st = "SHIFT_DR" -> "Exit1DR"
              [] st = "SHIFT_IR" -> "Exit1IR"
    BY <2>1, <2>2, <2>6, ShiftArrives
  <2>8. s \in JtagStates6 /\ x \in Meaning(s)
    BY <2>1, <2>3, <2>6, <2>7, MeaningIs DEF JtagStates6, JtagTargets, TapOf
  <2>9. JtagGood(e)
    BY <2>4, <2>8, JtagMoved DEF JtagGood
  <2>10. QED
    BY <2>5, <2>9, JtagOk
<1>3. QED
  BY <1>1, <1>2

LEMMA ShiftRawSafe ==
  ASSUME NEW d, JtagGood(d), NEW n, NEW b, "RAW" \in b.flags, NEW o \in Shift(d, n, b)
  PROVE  JtagOutcome(o)
<1>1. CASE d.gone
  <2>1. PICK e : e = [d EXCEPT !.rbits = 0]
    OBVIOUS
  <2>2. o = Err(e)
    BY <1>1, <2>1 DEF Shift
  <2>3. QED
    BY <2>1, <2>2, JtagOk, JtagDataGood
<1>2. CASE ~d.gone
  <2>1. PICK x \in TapStates :
          o = Ok([d EXCEPT !.state = "INVALID", !.tap = x, !.rbits = n, !.tbits = 0])
    BY <1>2 DEF Shift
  <2>2. "INVALID" \in JtagStates6 /\ x \in Meaning("INVALID")
    BY <2>1, MeaningIs DEF JtagStates6
  <2>3. JtagGood([d EXCEPT !.state = "INVALID", !.tap = x, !.rbits = n, !.tbits = 0])
    BY <2>2, JtagMoved DEF JtagGood
  <2>4. QED
    BY <2>1, <2>3, JtagOk
<1>3. QED
  BY <1>1, <1>2

LEMMA JtagRawSafe ==
  ASSUME NEW d, JtagGood(d), NEW n, NEW b, "RAW" \in b.flags, NEW o \in JtagWriteRaw(d, n, b)
  PROVE  JtagOutcome(o)
<1>1. PICK e : e = [d EXCEPT !.tbits = n]
  OBVIOUS
<1>2. JtagGood(e)
  BY <1>1, JtagDataGood
<1>3. o \in Shift(e, n, b) \/ o \in Shift(d, n, b) \/ o = Ok(e) \/ o = Err(d)
  BY <1>1 DEF JtagWriteRaw
<1>4. QED
  BY <1>2, <1>3, ShiftRawSafe, JtagOk

LEMMA JtagInStateSafe ==
  ASSUME NEW d, JtagGood(d), NEW n \in Nat, n > 0, NEW b, "RAW" \notin b.flags,
         NEW o \in JtagWriteInState(d, n, b)
  PROVE  JtagOutcome(o)
<1>1. CASE b.state \notin {"IDLE", "SHIFT_DR", "SHIFT_IR"}
  BY <1>1, JtagOk DEF JtagWriteInState
<1>2. CASE b.state \in {"IDLE", "SHIFT_DR", "SHIFT_IR"}
  <2>1. PICK p \in SetState(d, b.state) : o \in IF p.ok THEN Shift(p.d, n, b) ELSE {p}
    BY <1>2 DEF JtagWriteInState
  <2>2. PICK st \in JtagTargets : st = b.state
    BY <1>2 DEF JtagTargets
  <2>3. JtagOutcome(p) /\ (p.ok => TapAt(p.d, b.state))
    BY <2>1, <2>2, SetStateSafe
  <2>4. JtagGood(p.d)
    BY <2>3 DEF JtagOutcome
  <2>5. CASE p.ok
    <3>1. PICK e : e = p.d
      OBVIOUS
    <3>2. o \in Shift(e, n, b) /\ TapAt(e, b.state) /\ JtagGood(e)
      BY <2>1, <2>3, <2>4, <2>5, <3>1
    <3>3. QED
      BY <1>2, <3>2, ShiftInStateSafe
  <2>6. CASE ~p.ok
    BY <2>1, <2>3, <2>6
  <2>7. QED
    BY <2>5, <2>6
<1>3. QED
  BY <1>1, <1>2

LEMMA BitsPositive ==
  ASSUME NEW length \in Nat, length # 0, NEW b
  PROVE  LengthInBits(b, length) \in Nat /\ LengthInBits(b, length) > 0
  BY DEF LengthInBits

LEMMA JtagWriteSafe ==
  ASSUME NEW d, JtagGood(d), NEW length \in Nat, NEW b, NEW o \in JtagWrite(d, length, b)
  PROVE  JtagOutcome(o)
<1>1. PICK n : n = LengthInBits(b, length)
  OBVIOUS
<1>2. \/ o = Err(d)
      \/ "RAW" \in b.flags /\ o \in JtagWriteRaw(d, n, b)
      \/ length # 0 /\ "RAW" \notin b.flags /\ o \in JtagWriteInState(d, n, b)
  BY <1>1 DEF JtagWrite
<1>3. length # 0 => n \in Nat /\ n > 0
  BY <1>1, BitsPositive
<1>4. QED
  BY <1>2, <1>3, JtagOk, JtagRawSafe, JtagInStateSafe

Taken(o) == IF o.ok THEN Ok([o.d EXCEPT !.rbits = 0]) ELSE o

LEMMA TakenSafe ==
  ASSUME NEW o, JtagOutcome(o)
  PROVE  JtagOutcome(Taken(o))
<1>1. PICK d : d = o.d
  OBVIOUS
<1>2. JtagGood(d)
  BY <1>1 DEF JtagOutcome
<1>3. PICK e : e = [d EXCEPT !.rbits = 0]
  OBVIOUS
<1>4. JtagOutcome(Ok(e))
  BY <1>2, <1>3, JtagDataGood, JtagOk
<1>5. Taken(o) = Ok(e) \/ Taken(o) = o
  BY <1>1, <1>3 DEF Taken
<1>6. QED
  BY <1>4, <1>5

LEMMA JtagReadSafe ==
  ASSUME NEW d, JtagGood(d), NEW length \in Nat, NEW b, NEW o \in JtagRead(d, length, b)
  PROVE  JtagOutcome(o)
<1>1. \/ o = Err(d) \/ o = Taken(Ok(d))
      \/ \E p \in JtagWrite(d, length, b) : o = Taken(p)
  BY DEF JtagRead, Taken
<1>2. QED
  BY <1>1, JtagOk, TakenSafe, JtagWriteSafe

LEMMA JtagPreSafe ==
  ASSUME NEW d, JtagGood(d), NEW b, NEW o \in JtagPreBurst(d, b)
  PROVE  JtagOutcome(o)
<1>1. "RESET" \in JtagTargets
  BY DEF JtagTargets
<1>2. QED
  BY <1>1, SetStateSafe, JtagOk DEF JtagPreBurst

LEMMA JtagWriteShotSafe ==
  ASSUME NEW d, JtagGood(d), NEW bytes, Len(bytes) \in Nat, NEW b,
         "SETLEN" \in b.flags => b.arg \in Nat, NEW o \in JtagWriteShot(d, bytes, b)
  PROVE  JtagOutcome(o)
<1>0. \A e : JtagGood(e) => JtagOutcome(Ok(Received(e, bytes)))
  BY JtagDataGood, JtagOk DEF Received
<1>1. CASE "SETLEN" \in b.flags
  <2>1. PICK e : e = [d EXCEPT !.bits = b.arg]
    OBVIOUS
  <2>2. JtagGood(e)
    BY <1>1, <2>1, JtagDataGood
  <2>3. o = Ok(Received(e, bytes))
    BY <1>1, <2>1 DEF JtagWriteShot
  <2>4. QED
    BY <1>0, <2>2, <2>3
<1>2. CASE "SETLEN" \notin b.flags /\ "SETFREQ" \in b.flags
  <2>1. o = Ok(Received(d, bytes))
    BY <1>2 DEF JtagWriteShot
  <2>2. QED
    BY <1>0, <2>1
<1>3. CASE "SETLEN" \notin b.flags /\ "SETFREQ" \notin b.flags
  <2>1. PICK e : e = [d EXCEPT !.bits = 0]
    OBVIOUS
  <2>2. JtagGood(e)
    BY <2>1, JtagDataGood
  <2>3. PICK length : length = ShotLength(d, Len(bytes))
    OBVIOUS
  <2>4. length \in Nat
    BY <2>3 DEF ShotLength, JtagGood, JtagShape
  <2>5. PICK p \in JtagWrite(e, length, b) : o = IF p.ok THEN Ok(Received(p.d, bytes)) ELSE p
    BY <1>3, <2>1, <2>3 DEF JtagWriteShot
  <2>6. JtagOutcome(p)
    BY <2>2, <2>4, <2>5, JtagWriteSafe
  <2>7. JtagGood(p.d)
    BY <2>6 DEF JtagOutcome
  <2>8. QED
    BY <1>0, <2>5, <2>6, <2>7
<1>4. QED
  BY <1>1, <1>2, <1>3

LEMMA JtagReadShotSafe ==
  ASSUME NEW d, JtagGood(d), NEW n \in Nat, NEW b, NEW o \in JtagReadShot(d, n, b)
  PROVE  JtagOutcome(o)
<1>1. PICK e : e = [d EXCEPT !.bits = 0]
  OBVIOUS
<1>2. JtagGood(e)
  BY <1>1, JtagDataGood
<1>3. PICK length : length = ShotLength(d, n)
  OBVIOUS
<1>4. length \in Nat
  BY <1>3 DEF ShotLength, JtagGood, JtagShape
<1>5. PICK p \in JtagRead(e, length, b) :
        o = IF p.ok THEN OkData(Answered(p.d, n), Positions(p.d.out, n)) ELSE p
  BY <1>1, <1>3 DEF JtagReadShot
<1>6. JtagOutcome(p)
  BY <1>2, <1>4, <1>5, JtagReadSafe
<1>7. PICK x : x = p.d
  OBVIOUS
<1>8. JtagGood(Answered(x, n))
  BY <1>6, <1>7, JtagDataGood DEF JtagOutcome, Answered
<1>9. PICK y, z : y = Answered(x, n) /\ z = Positions(p.d.out, n)
  OBVIOUS
<1>10. o = OkData(y, z) \/ o = p
  BY <1>5, <1>7, <1>9
<1>11. QED
  BY <1>6, <1>8, <1>9, <1>10, JtagOkData

-----------------------------------------------------------------------------
(* JTAG transactions.                                                      *)

LEMMA JtagHandlers ==
  ASSUME kind = "jtag", NEW d, NEW b, NEW n, NEW s, NEW bytes
  PROVE  /\ HandlePreBurst(d, b) = JtagPreBurst(d, b) /\ HandlePostBurst(d, b) = {Ok(d)}
         /\ WriteShotOf(d, bytes, s) = JtagWriteShot(d, bytes, s.b)
         /\ RequestReadOf(d, n) = {Ok(d)} /\ ReadShotOf(d, n, s) = JtagReadShot(d, n, s.b)
         /\ WaitWrittenOf(d) = {Ok(d)} /\ ExecuteCommand(d, b) = {Err(d)}
         /\ BurstAborted(d) = {JtagCleanup(d)}
  BY DEF HandlePreBurst, HandlePostBurst, WriteShotOf, RequestReadOf, ReadShotOf,
         WaitWrittenOf, ExecuteCommand, BurstAborted

LEMMA JtagAbortGood ==
  ASSUME kind = "jtag", NEW d, JtagGood(d), NEW b, NEW how,
         \E e \in BurstAborted(d) : Fail(e, b, how)
  PROVE  JtagGood(dev')
<1>1. dev' = JtagCleanup(d)
  BY JtagHandlers DEF Fail
<1>2. QED
  BY <1>1, JtagDataGood DEF JtagCleanup

LEMMA JtagOutcomeGood ==
  ASSUME kind = "jtag", NEW o, JtagOutcome(o), Abort(o.d) \/ (o.ok /\ dev' = o.d)
  PROVE  JtagGood(dev')
<1>1. CASE Abort(o.d)
  BY <1>1, JtagAbortGood DEF Abort, JtagOutcome
<1>2. CASE o.ok /\ dev' = o.d
  BY <1>2 DEF JtagOutcome
<1>3. QED
  BY <1>1, <1>2

LEMMA JtagStep ==
  ASSUME JtagGood(dev), Flow, kind = "jtag", [Next]_vars
  PROVE  JtagGood(dev')
<1>0. TypeOK /\ JtagOutcome(Ok(dev)) /\ JtagOutcome(Err(dev)) /\ kind # "i2c"
  BY JtagOk DEF Flow
<1>1. ASSUME NEW o, JtagOutcome(o), dev' = o.d PROVE JtagGood(dev')
  BY <1>1 DEF JtagOutcome
<1>2. CASE BeginTransaction \/ EndTransaction \/ SkipBurst \/ CopyInFails \/ UNCHANGED vars
  BY <1>0, <1>2 DEF BeginTransaction, EndTransaction, SkipBurst, CopyInFails, Fail, vars
<1>3. CASE StateChange
  <2>1. PICK o \in HandlePostBurst(dev, burst) : dev' = o.d
    BY <1>3 DEF StateChange, Fail
  <2>2. QED
    BY <1>0, <1>1, <2>1, JtagHandlers
<1>4. CASE Command
  <2>1. PICK o \in ExecuteCommand(dev, burst) : dev' = o.d
    BY <1>4 DEF Command, Fail
  <2>2. QED
    BY <1>0, <1>1, <2>1, JtagHandlers
<1>5. CASE StartBurst
  <2>1. PICK d : d = [dev EXCEPT !.got = <<>>, !.out = 0]
    OBVIOUS
  <2>2. JtagGood(d)
    BY <2>1, JtagDataGood
  <2>3. PICK o \in HandlePreBurst(d, burst) :
              \/ ~o.ok /\ \E e \in BurstAborted(o.d) : Fail(e, burst, "error")
              \/ o.ok /\ dev' = o.d
    BY <1>0, <1>5, <2>1, StartEffect
  <2>a. PICK b : b = burst
    OBVIOUS
  <2>b. o \in JtagPreBurst(d, b)
    BY <2>3, <2>a DEF HandlePreBurst
  <2>4. JtagOutcome(o)
    BY <2>2, <2>b, JtagPreSafe
  <2>5. CASE \E e \in BurstAborted(o.d) : Fail(e, burst, "error")
    BY <2>4, <2>5, JtagAbortGood DEF JtagOutcome
  <2>6. CASE o.ok /\ dev' = o.d
    BY <1>1, <2>4, <2>6
  <2>7. QED
    BY <2>3, <2>5, <2>6
<1>6. CASE WriteShot
  <2>1. PICK s : \E n \in Nat : \E o \in WriteShotOf(dev, Positions(t.b.len - t.rem, n), s) :
                   s.b = t.b /\ (Abort(o.d) \/ (o.ok /\ dev' = o.d))
    BY <1>0, <1>6, WriteEffect
  <2>2. PICK n \in Nat : \E o \in WriteShotOf(dev, Positions(t.b.len - t.rem, n), s) :
                   s.b = t.b /\ (Abort(o.d) \/ (o.ok /\ dev' = o.d))
    BY <2>1
  <2>3. PICK bytes : bytes = Positions(t.b.len - t.rem, n)
    OBVIOUS
  <2>4. PICK o \in WriteShotOf(dev, bytes, s) :
                   s.b = t.b /\ (Abort(o.d) \/ (o.ok /\ dev' = o.d))
    BY <2>2, <2>3
  <2>5. Len(bytes) \in Nat
    <3>1. bytes = [i \in 1 .. n |-> t.b.len - t.rem + i]
      BY <2>3 DEF Positions
    <3>2. Len(bytes) = n
      BY <3>1
    <3>3. QED
      BY <3>2
  <2>6. o \in JtagWriteShot(dev, bytes, t.b)
    BY <2>4, JtagHandlers
  <2>7. "SETLEN" \in t.b.flags => t.b.arg \in Nat
    <3>1. t.pc = "write" /\ kind \in Kinds
      BY <1>0, <1>6, WriteEffect DEF TypeOK
    <3>2. t.b \in Bursts(kind)
      BY <3>1 DEF Flow, UnderWay, BurstPcs
    <3>3. QED
      BY <3>1, <3>2, TransactionsAssumption
  <2>8. JtagOutcome(o)
    BY <2>5, <2>6, <2>7, JtagWriteShotSafe
  <2>9. QED
    BY <2>4, <2>8, JtagOutcomeGood
<1>7. CASE WaitQueueEmpty \/ DrainQueue \/ RequestRead \/ RefillRead
  <2>1. PICK o \in {Ok(dev)} : Abort(o.d) \/ (o.ok /\ dev' = o.d)
    <3>1. CASE WaitQueueEmpty \/ DrainQueue
      <4>1. PICK o \in WaitWrittenOf(dev) : Abort(o.d) \/ (o.ok /\ dev' = o.d)
        BY <1>0, <3>1, WaitEffect
      <4>2. o \in {Ok(dev)}
        BY <4>1, JtagHandlers
      <4>3. QED
        BY <4>1, <4>2
    <3>2. CASE RequestRead \/ RefillRead
      <4>1. PICK n : \E o \in RequestReadOf(dev, n) : Abort(o.d) \/ (o.ok /\ dev' = o.d)
        BY <1>0, <3>2, RequestEffect
      <4>2. RequestReadOf(dev, n) = {Ok(dev)}
        BY JtagHandlers
      <4>3. QED
        BY <4>1, <4>2
    <3>3. QED
      BY <1>7, <3>1, <3>2
  <2>2. QED
    BY <1>0, <2>1, JtagOutcomeGood
<1>8. CASE WriteDone \/ RequestsQueued \/ ReadDone
  BY <1>8 DEF WriteDone, RequestsQueued, ReadDone
<1>9. CASE ReadShot
  <2>1. PICK s : \E n \in Nat : \E o \in ReadShotOf(dev, n, s) : Abort(o.d) \/ (o.ok /\ dev' = o.d)
    BY <1>0, <1>9, ReadEffect
  <2>2. PICK n \in Nat : \E o \in ReadShotOf(dev, n, s) : Abort(o.d) \/ (o.ok /\ dev' = o.d)
    BY <2>1
  <2>3. PICK b : b = s.b
    OBVIOUS
  <2>4. PICK o \in JtagReadShot(dev, n, b) : Abort(o.d) \/ (o.ok /\ dev' = o.d)
    BY <2>2, <2>3, JtagHandlers
  <2>5. JtagOutcome(o)
    BY <2>4, JtagReadShotSafe
  <2>6. QED
    BY <2>4, <2>5, JtagOutcomeGood
<1>10. CASE PostBurst
  <2>1. PICK o \in HandlePostBurst(dev, t.b) : dev' = o.d
    BY <1>10 DEF PostBurst, Fail
  <2>2. QED
    BY <1>0, <1>1, <2>1, JtagHandlers
<1>11. CASE Execute
  BY <1>11 DEF Execute
<1>12. CASE Vanish
  BY <1>12, JtagDataGood DEF Vanish
<1>13. QED
  BY <1>2, <1>3, <1>4, <1>5, <1>6, <1>7, <1>8, <1>9, <1>10, <1>11, <1>12
     DEF Next, Driver, BurstStep

-----------------------------------------------------------------------------
(* The queues of spi_v2.                                                   *)

IsSeq(q) == \E S : q \in Seq(S)

\* The commands of the queue are all writes, or all reads.
Uniform(q, op) == \A i \in 1 .. Len(q) : q[i].op = op

LEMMA EmptySeq == IsSeq(<<>>) /\ Len(<<>>) = 0 /\ \A op : Uniform(<<>>, op)
<1>1. <<>> \in Seq({}) /\ Len(<<>>) = 0
  OBVIOUS
<1>2. QED
  BY <1>1 DEF IsSeq, Uniform

LEMMA LenSeq ==
  ASSUME NEW q, IsSeq(q)
  PROVE  Len(q) \in Nat /\ (q = <<>> <=> Len(q) = 0) /\ DOMAIN q = 1 .. Len(q)
<1>1. PICK S : q \in Seq(S)
  BY DEF IsSeq
<1>2. QED
  BY <1>1

LEMMA AppendSeq ==
  ASSUME NEW q, IsSeq(q), NEW c
  PROVE  /\ IsSeq(Append(q, c)) /\ Len(Append(q, c)) = Len(q) + 1
         /\ \A op : Uniform(q, op) /\ c.op = op => Uniform(Append(q, c), op)
<1>1. PICK S : q \in Seq(S)
  BY DEF IsSeq
<1>2. PICK T : T = S \cup {c}
  OBVIOUS
<1>3. q \in Seq(T) /\ c \in T
  BY <1>1, <1>2
<1>4. Append(q, c) \in Seq(T) /\ Len(Append(q, c)) = Len(q) + 1
  BY <1>3
<1>5. \A i \in 1 .. Len(q) + 1 : Append(q, c)[i] = IF i = Len(q) + 1 THEN c ELSE q[i]
  BY <1>3
<1>6. Len(q) \in Nat
  BY <1>3
<1>7. ASSUME NEW op, Uniform(q, op), c.op = op PROVE Uniform(Append(q, c), op)
  <2>1. PICK m \in Nat : m = Len(q)
    BY <1>6
  <2>0. PICK z : z = Append(q, c)
    OBVIOUS
  <2>2. \A i \in 1 .. m : q[i].op = op
    BY <1>7, <2>1 DEF Uniform
  <2>3. \A i \in 1 .. m + 1 : z[i] = IF i = m + 1 THEN c ELSE q[i]
    BY <1>5, <2>0, <2>1
  <2>4. \A i \in 1 .. m + 1 : z[i].op = op
    BY <1>7, <2>2, <2>3
  <2>5. QED
    BY <1>4, <2>0, <2>1, <2>4 DEF Uniform
<1>8. QED
  BY <1>4, <1>7 DEF IsSeq

LEMMA TailSeq ==
  ASSUME NEW q, IsSeq(q), q # <<>>
  PROVE  /\ IsSeq(Tail(q)) /\ Len(Tail(q)) = Len(q) - 1
         /\ \A op : Uniform(q, op) => Uniform(Tail(q), op) /\ Head(q).op = op
<1>1. PICK S : q \in Seq(S)
  BY DEF IsSeq
<1>2. PICK m \in Nat : m = Len(q)
  BY <1>1
<1>a. PICK z : z = Tail(q)
  OBVIOUS
<1>3. z \in Seq(S) /\ Len(z) = m - 1 /\ m > 0 /\ Head(q) = q[1]
  BY <1>1, <1>2, <1>a
<1>4. \A i \in 1 .. m - 1 : z[i] = q[i + 1]
  BY <1>1, <1>2, <1>a
<1>5. ASSUME NEW op, Uniform(q, op) PROVE Uniform(z, op) /\ Head(q).op = op
  <2>1. \A i \in 1 .. m : q[i].op = op
    BY <1>2, <1>5 DEF Uniform
  <2>2. \A i \in 1 .. m - 1 : z[i].op = op
    BY <1>4, <2>1
  <2>3. QED
    BY <1>3, <2>1, <2>2 DEF Uniform
<1>6. QED
  BY <1>2, <1>3, <1>5, <1>a DEF IsSeq

LEMMA ReadsCounted ==
  ASSUME NEW q, IsSeq(q)
  PROVE  /\ Uniform(q, "read") => Reads(q) = Len(q)
         /\ Uniform(q, "write") => Reads(q) = 0
<1>1. PICK m \in Nat : m = Len(q) /\ DOMAIN q = 1 .. m
  BY LenSeq
<1>2. ASSUME Uniform(q, "read") PROVE Reads(q) = Len(q)
  <2>1. {i \in DOMAIN q : q[i].op = "read"} = 1 .. m
    BY <1>1, <1>2 DEF Uniform
  <2>2. Cardinality(1 .. m) = m
    BY FS_Interval, 1 \in Int, m \in Int
  <2>3. QED
    BY <1>1, <2>1, <2>2 DEF Reads
<1>3. ASSUME Uniform(q, "write") PROVE Reads(q) = 0
  <2>1. {i \in DOMAIN q : q[i].op = "read"} = {}
    BY <1>1, <1>3 DEF Uniform
  <2>2. QED
    BY <2>1, FS_EmptySet DEF Reads
<1>4. QED
  BY <1>2, <1>3

LEMMA SmallMultiple ==
  ASSUME NEW d \in Int, NEW w \in Nat \ {0}, d * w < w, -w < d * w
  PROVE  d = 0
<1>1. CASE d >= 1
  <2>1. PICK e \in Nat : d = e + 1
    BY <1>1
  <2>2. d * w = e * w + w /\ e * w \in Nat
    BY <2>1
  <2>3. QED
    BY <2>2
<1>2. CASE d <= -1
  <2>1. PICK e \in Nat : d = -(e + 1)
    BY <1>2, -d - 1 \in Nat
  <2>2. d * w = -(e * w) - w /\ e * w \in Nat
    BY <2>1
  <2>3. QED
    BY <2>2
<1>3. QED
  BY <1>1, <1>2

LEMMA Divided ==
  ASSUME NEW x \in Nat, NEW w \in Nat \ {0}
  PROVE  \E j \in Nat, y \in 0 .. w - 1 : x = j * w + y /\ y = x % w
  OBVIOUS

LEMMA RemainderIs ==
  ASSUME NEW x \in Nat, NEW w \in Nat \ {0}, NEW k \in Nat, NEW r \in 0 .. w - 1, x = k * w + r
  PROVE  x % w = r
<1>1. PICK j \in Nat, y \in 0 .. w - 1 : x = j * w + y /\ y = x % w
  BY Divided
<1>2. PICK d \in Int : d = j - k
  OBVIOUS
<1>3. PICK a \in Int, b \in Int, c \in Int : a = j * w /\ b = k * w /\ c = d * w
  OBVIOUS
<1>4. c = a - b
  <2>1. d * w = (j * w) - (k * w)
    BY <1>2
  <2>2. QED
    BY <1>3, <2>1
<1>5. c < w /\ -w < c
  BY <1>1, <1>3, <1>4
<1>6. d = 0
  BY <1>3, <1>5, SmallMultiple
<1>7. a = b
  BY <1>2, <1>3, <1>6
<1>8. y = r
  BY <1>1, <1>3, <1>7
<1>9. QED
  BY <1>1, <1>8

LEMMA NextModulo ==
  ASSUME NEW q \in Nat, NEW w \in Nat \ {0}
  PROVE  /\ q % w \in 0 .. w - 1 /\ 0 % w = 0
         /\ (q + 1) % w = IF q % w = w - 1 THEN 0 ELSE (q % w) + 1
<1>1. q % w \in 0 .. w - 1 /\ 0 % w = 0
  OBVIOUS
<1>2. PICK k \in Nat, r \in 0 .. w - 1 : q = k * w + r /\ r = q % w
  BY Divided
<1>3. PICK x \in Nat : x = q + 1
  OBVIOUS
<1>4. CASE r = w - 1
  <2>1. PICK j \in Nat : j = k + 1
    OBVIOUS
  <2>2. j * w = k * w + w
    BY <2>1
  <2>3. x = j * w + 0 /\ 0 \in 0 .. w - 1
    BY <1>2, <1>3, <1>4, <2>2
  <2>4. x % w = 0
    BY <2>3, RemainderIs
  <2>5. QED
    BY <1>1, <1>2, <1>3, <1>4, <2>4
<1>5. CASE r # w - 1
  <2>1. PICK y \in 0 .. w - 1 : y = r + 1
    BY <1>5
  <2>2. x = k * w + y
    <3>1. PICK z \in Int : z = k * w
      OBVIOUS
    <3>2. q = z + r
      BY <1>2, <3>1
    <3>3. x = z + y
      BY <1>3, <2>1, <3>2
    <3>4. QED
      BY <3>1, <3>3
  <2>3. x % w = y
    BY <2>2, RemainderIs
  <2>4. QED
    BY <1>1, <1>2, <1>3, <1>5, <2>1, <2>3
<1>6. QED
  BY <1>4, <1>5

\* o requests are under way for rd bytes, and req bytes are still to be requested:
\* all requests but the last one of the burst are for m bytes.
Chunks(m, o, rd, req) ==
  IF req > 0 THEN rd = o * m ELSE rd <= o * m /\ o * m < rd + m

LEMMA ChunkRequest ==
  ASSUME NEW m \in Nat \ {0}, NEW o \in Nat, NEW rd \in Nat, NEW req \in Nat, req > 0,
         Chunks(m, o, rd, req), NEW n, n = Smaller(req, m)
  PROVE  Chunks(m, o + 1, rd + n, req - n)
<1>1. PICK z \in Nat : z = o * m
  OBVIOUS
<1>2. (o + 1) * m = z + m
  BY <1>1
<1>3. rd = z
  BY <1>1 DEF Chunks
<1>4. n \in Nat /\ IF req < m THEN n = req ELSE n = m
  BY DEF Smaller
<1>5. IF req - n > 0 THEN rd + n = z + m ELSE rd + n <= z + m /\ z + m < rd + n + m
  BY <1>3, <1>4
<1>6. QED
  BY <1>2, <1>5 DEF Chunks

LEMMA ChunkRead ==
  ASSUME NEW m \in Nat \ {0}, NEW o \in Nat, o > 0, NEW rd \in Nat, NEW req \in Nat,
         Chunks(m, o, rd, req), NEW n, n = Smaller(rd, m)
  PROVE  Chunks(m, o - 1, rd - n, req)
<1>1. PICK k \in Nat : o = k + 1
  BY o - 1 \in Nat
<1>2. PICK z \in Nat : z = k * m
  OBVIOUS
<1>3. o * m = z + m
  BY <1>1, <1>2
<1>4. IF req > 0 THEN rd = z + m ELSE rd <= z + m /\ z + m < rd + m
  BY <1>3 DEF Chunks
<1>5. n \in Nat /\ IF rd < m THEN n = rd ELSE n = m
  BY DEF Smaller
<1>a. k = 0 => z = 0
  BY <1>2
<1>b. k > 0 => z >= m
  <2>1. SUFFICES ASSUME k > 0 PROVE z >= m
    OBVIOUS
  <2>2. PICK j \in Nat : k = j + 1
    BY <2>1, k - 1 \in Nat
  <2>3. PICK y \in Nat : y = j * m
    OBVIOUS
  <2>4. z = y + m
    BY <1>2, <2>2, <2>3
  <2>5. QED
    BY <2>4
<1>6. IF req > 0 THEN rd - n = z ELSE rd - n <= z /\ z < rd - n + m
  BY <1>4, <1>5, <1>a, <1>b
<1>7. o - 1 = k
  BY <1>1
<1>8. QED
  BY <1>2, <1>6, <1>7 DEF Chunks

LEMMA ChunkDone ==
  ASSUME NEW m \in Nat \ {0}, NEW o \in Nat, Chunks(m, o, 0, 0)
  PROVE  o = 0
<1>1. o * m < m
  BY DEF Chunks
<1>2. -m < o * m
  OBVIOUS
<1>3. QED
  BY <1>1, <1>2, SmallMultiple

LEMMA ChunkNone ==
  ASSUME NEW m \in Nat \ {0}, NEW req \in Nat, req > 0
  PROVE  Chunks(m, 0, 0, req)
  BY DEF Chunks

-----------------------------------------------------------------------------
Outstanding(d) == Len(d.cmds) + Len(d.words)

Writing(d, s) ==
  /\ Uniform(d.cmds, "write") /\ d.words = <<>>
  /\ s.pc = "write" => Len(d.cmds) <= s.queued % L.writeQueue
  /\ s.pc \in {"wait", "drain"} => Len(d.cmds) <= L.writeQueue
  /\ s.pc = "post" => d.cmds = <<>>

Reading(d, s) ==
  /\ Uniform(d.cmds, "read")
  /\ s.pc \in {"request", "read", "refill"} =>
       /\ Chunks(L.maxRead, Outstanding(d), s.rd, s.req)
       /\ Outstanding(d) <= L.readQueue
       /\ s.pc = "request" => Outstanding(d) = s.queued
       /\ s.pc = "refill" => Outstanding(d) < L.readQueue
  /\ s.pc = "post" => d.cmds = <<>> /\ d.words = <<>>

QueueState(d, s) ==
  /\ s.pc \notin BurstPcs => d.cmds = <<>> /\ d.words = <<>>
  /\ s.pc \in BurstPcs => (s.b.type = "write" => Writing(d, s)) /\ (s.b.type = "read" => Reading(d, s))

Queues(d) == IsSeq(d.cmds) /\ IsSeq(d.words)

Within(d) ==
  /\ Len(d.cmds) <= L.writeQueue
  /\ Len(d.words) + Reads(d.cmds) <= L.readQueue
  /\ d.cmds # <<>> => d.cs

\* A board that is gone keeps its queues as they are.
QueueInv == Queues(dev) /\ Within(dev) /\ (~dev.gone => QueueState(dev, t))

LEMMA QueueLimits ==
  ASSUME kind = "spi_v2", kind \in Kinds
  PROVE  /\ L.writeQueue \in Nat \ {0} /\ L.readQueue \in Nat \ {0} /\ L.maxRead \in Nat \ {0}
         /\ L.readQueue <= L.writeQueue
<1>1. Limits(kind).readQueue <= Limits(kind).writeQueue
  BY TransactionsAssumption
<1>2. QED
  BY <1>1, LimitsTyped DEF L

LEMMA WithinEmpty ==
  ASSUME kind = "spi_v2", kind \in Kinds, NEW d, d.cmds = <<>>, d.words = <<>>
  PROVE  Queues(d) /\ Within(d)
<1>1. Queues(d) /\ Len(d.cmds) = 0 /\ Len(d.words) = 0 /\ Uniform(d.cmds, "write")
  BY EmptySeq DEF Queues
<1>2. Reads(d.cmds) = 0
  BY <1>1, ReadsCounted DEF Queues
<1>3. QED
  BY <1>1, <1>2, QueueLimits DEF Within

LEMMA WithinWriting ==
  ASSUME kind = "spi_v2", kind \in Kinds, NEW d, Queues(d), NEW s, s.queued \in Nat, Writing(d, s),
         s.pc \in {"write", "wait", "drain"}, d.cs
  PROVE  Within(d)
<1>1. Len(d.cmds) \in Nat /\ Reads(d.cmds) = 0 /\ Len(d.words) = 0
  BY ReadsCounted, LenSeq, EmptySeq DEF Queues, Writing
<1>2. PICK w \in Nat \ {0} : w = L.writeQueue
  BY QueueLimits
<1>3. s.queued % w \in 0 .. w - 1
  BY NextModulo
<1>4. Len(d.cmds) <= w
  BY <1>1, <1>2, <1>3 DEF Writing
<1>5. QED
  BY <1>1, <1>2, <1>4, QueueLimits DEF Within

LEMMA WithinReading ==
  ASSUME kind = "spi_v2", kind \in Kinds, NEW d, Queues(d), NEW s, Reading(d, s),
         s.pc \in {"request", "read", "refill"}, d.cs
  PROVE  Within(d)
<1>1. PICK c \in Nat, w \in Nat : c = Len(d.cmds) /\ w = Len(d.words)
  BY LenSeq DEF Queues
<1>2. Reads(d.cmds) = c
  BY <1>1, ReadsCounted DEF Queues, Reading
<1>3. PICK r \in Nat, m \in Nat : r = L.readQueue /\ m = L.writeQueue /\ r <= m
  BY QueueLimits
<1>4. c + w <= r
  BY <1>1, <1>3 DEF Reading, Outstanding
<1>5. c <= m /\ w + c <= r
  BY <1>3, <1>4
<1>6. QED
  BY <1>1, <1>2, <1>3, <1>5 DEF Within

-----------------------------------------------------------------------------
\* What the functions of spi_v2 do to the queues.
SameQueues(d, e) == e.cmds = d.cmds /\ e.words = d.words /\ e.gone = d.gone

LEMMA V2Handlers ==
  ASSUME kind = "spi_v2", NEW d, NEW b, NEW n, NEW s, NEW bytes
  PROVE  /\ HandlePreBurst(d, b) = SpiV2PreBurst(d, b.flags)
         /\ HandlePostBurst(d, b) = SpiV2PostBurst(d, b.flags)
         /\ WriteShotOf(d, bytes, s) = SpiV2WriteShot(d, bytes)
         /\ RequestReadOf(d, n) = SpiV2RequestRead(d, n)
         /\ ReadShotOf(d, n, s) = SpiV2ReadShot(d, n)
         /\ WaitWrittenOf(d) = SpiV2WaitWritten(d) /\ ExecuteCommand(d, b) = {Err(d)}
         /\ BurstAborted(d) = {d}
  BY DEF HandlePreBurst, HandlePostBurst, WriteShotOf, RequestReadOf, ReadShotOf,
         WaitWrittenOf, ExecuteCommand, BurstAborted

LEMMA V2Select ==
  ASSUME NEW d, SpiShape(d), NEW on \in BOOLEAN, NEW e, e = ChipSelect(d, on)
  PROVE  SameQueues(d, e) /\ (d.gone => e = d)
  BY DEF SpiShape, ChipSelect, SameQueues

LEMMA V2Post ==
  ASSUME kind = "spi_v2", NEW d, SpiShape(d), NEW b, NEW o \in HandlePostBurst(d, b)
  PROVE  o.ok = TRUE /\ SameQueues(d, o.d) /\ (d.gone => o.d = d)
<1>1. PICK e : e = ChipSelect(d, FALSE)
  OBVIOUS
<1>2. PICK x : x = b.flags
  OBVIOUS
<1>3. o \in SpiV2PostBurst(d, x)
  BY <1>2, V2Handlers
<1>4. o = Ok(d) \/ o = Ok(e)
  BY <1>1, <1>3 DEF SpiV2PostBurst
<1>5. SameQueues(d, e) /\ (d.gone => e = d) /\ SameQueues(d, d)
  BY <1>1, V2Select DEF SameQueues
<1>6. QED
  BY <1>4, <1>5, OkShape

LEMMA V2Queue ==
  ASSUME NEW d, SpiShape(d), NEW c, NEW e, e = SpiV2Queue(d, c)
  PROVE  /\ e.words = d.words /\ e.gone = d.gone /\ e.cs = d.cs
         /\ IF d.gone THEN e = d ELSE e.cmds = Append(d.cmds, c)
  BY DEF SpiShape, SpiV2Queue

-----------------------------------------------------------------------------
LEMMA QueueIntro ==
  ASSUME kind' = kind, Queues(dev'), Within(dev'), ~dev'.gone => QueueState(dev', t')
  PROVE  QueueInv'
<1>1. L' = L
  BY DEF L
<1>2. Within(dev)'
  BY <1>1, Zenon DEF Within
<1>3. ~dev'.gone => QueueState(dev, t)'
  BY <1>1, Zenon DEF QueueState, Writing, Reading
<1>4. Queues(dev)'
  BY Zenon DEF Queues
<1>5. QED
  BY <1>2, <1>3, <1>4, Zenon DEF QueueInv

LEMMA QueueSame ==
  ASSUME NEW d, NEW e, Queues(d), Within(d), e.cmds = d.cmds, e.words = d.words, e.cs = d.cs
  PROVE  Queues(e) /\ Within(e)
  BY DEF Queues, Within

\* Between bursts the queues of a board that is there are empty.
LEMMA QueueBetween ==
  ASSUME QueueInv, kind = "spi_v2", kind \in Kinds, kind' = kind, SameQueues(dev, dev'),
         dev.gone => dev' = dev, ~dev.gone => dev.cmds = <<>> /\ dev.words = <<>>,
         t'.pc \in {"none", "next"}
  PROVE  QueueInv'
<1>1. t'.pc \notin BurstPcs
  BY DEF BurstPcs
<1>2. CASE dev.gone
  <2>1. Queues(dev') /\ Within(dev')
    BY <1>2, QueueSame DEF QueueInv
  <2>2. QED
    BY <1>2, <2>1, QueueIntro
<1>3. CASE ~dev.gone
  <2>1. dev'.cmds = <<>> /\ dev'.words = <<>>
    BY <1>3 DEF SameQueues
  <2>2. Queues(dev') /\ Within(dev')
    BY <2>1, WithinEmpty
  <2>3. QueueState(dev', t')
    BY <1>1, <2>1 DEF QueueState
  <2>4. QED
    BY <2>2, <2>3, QueueIntro
<1>4. QED
  BY <1>2, <1>3

LEMMA QueueFail ==
  ASSUME QueueInv, kind = "spi_v2", kind \in Kinds, NEW b, NEW how, Fail(dev, b, how),
         dev.gone \/ t.pc \notin BurstPcs
  PROVE  QueueInv'
<1>1. kind' = kind /\ dev' = dev /\ t'.pc = "none"
  BY QuietShaped DEF Fail
<1>2. SameQueues(dev, dev')
  BY <1>1 DEF SameQueues
<1>3. ~dev.gone => dev.cmds = <<>> /\ dev.words = <<>>
  BY DEF QueueInv, QueueState
<1>4. QED
  BY <1>1, <1>2, <1>3, QueueBetween

LEMMA QueueOutside ==
  ASSUME QueueInv, SpiInv, Flow, kind = "spi_v2",
         BeginTransaction \/ EndTransaction \/ SkipBurst \/ CopyInFails \/ StateChange \/ Command
  PROVE  QueueInv'
<1>0. SpiShape(dev) /\ kind \in Kinds /\ t.pc \in {"none", "next"} /\ t.pc \notin BurstPcs
  BY DEF SpiInv, SpiGood, Flow, TypeOK, BeginTransaction, EndTransaction, SkipBurst,
         CopyInFails, StateChange, Command, HasBurst, BurstPcs
<1>1. ~dev.gone => dev.cmds = <<>> /\ dev.words = <<>>
  BY <1>0 DEF QueueInv, QueueState
<1>2. SameQueues(dev, dev)
  BY DEF SameQueues
<1>3. CASE BeginTransaction \/ EndTransaction \/ SkipBurst
  <2>1. dev' = dev /\ kind' = kind
    BY <1>3 DEF BeginTransaction, EndTransaction, SkipBurst
  <2>2. t'.pc \in {"none", "next"}
    BY <1>0, <1>3, QuietShaped DEF BeginTransaction, EndTransaction, SkipBurst
  <2>3. QED
    BY <1>0, <1>1, <1>2, <2>1, <2>2, QueueBetween
<1>4. CASE CopyInFails
  BY <1>0, <1>4, QueueFail DEF CopyInFails
<1>5. CASE StateChange
  <2>1. PICK o \in HandlePostBurst(dev, burst) :
          IF o.ok THEN dev' = o.d /\ t' = t /\ kind' = kind ELSE Fail(o.d, burst, "error")
    BY <1>5 DEF StateChange
  <2>2. o.ok = TRUE /\ SameQueues(dev, o.d) /\ (dev.gone => o.d = dev)
    BY <1>0, <2>1, V2Post
  <2>3. QED
    BY <1>0, <1>1, <2>1, <2>2, QueueBetween
<1>6. CASE Command
  <2>1. PICK o \in {Err(dev)} :
          IF o.ok THEN dev' = o.d ELSE Fail(o.d, burst, "error")
    BY <1>6 DEF Command, ExecuteCommand
  <2>2. Fail(dev, burst, "error")
    BY <2>1, ErrShape
  <2>3. QED
    BY <1>0, <2>2, QueueFail
<1>7. QED
  BY <1>3, <1>4, <1>5, <1>6

LEMMA QueuePost ==
  ASSUME QueueInv, SpiInv, Flow, kind = "spi_v2", PostBurst
  PROVE  QueueInv'
<1>0. SpiShape(dev) /\ kind \in Kinds /\ t.pc = "post" /\ t.pc \in BurstPcs
      /\ t.b.type \in {"write", "read"}
  BY DEF SpiInv, SpiGood, Flow, TypeOK, UnderWay, PostBurst, BurstPcs
<1>1. ~dev.gone => dev.cmds = <<>> /\ dev.words = <<>>
  BY <1>0 DEF QueueInv, QueueState, Writing, Reading
<1>2. PICK o \in HandlePostBurst(dev, t.b) :
        dev' = o.d /\ (t' = Quiet("none") \/ t' = Quiet("next")) /\ kind' = kind
  BY DEF PostBurst, Fail
<1>3. PICK b : b = t.b
  OBVIOUS
<1>4. SameQueues(dev, o.d) /\ (dev.gone => o.d = dev)
  BY <1>0, <1>2, <1>3, V2Post
<1>5. t'.pc \in {"none", "next"}
  BY <1>2, QuietShaped
<1>6. QED
  BY <1>0, <1>1, <1>2, <1>4, <1>5, QueueBetween

LEMMA QueueStart ==
  ASSUME QueueInv, SpiInv, Flow, kind = "spi_v2", StartBurst
  PROVE  QueueInv'
<1>0. SpiShape(dev) /\ kind \in Kinds /\ TypeOK
  BY DEF SpiInv, SpiGood, Flow, TypeOK
<1>1. PICK d : d = [dev EXCEPT !.got = <<>>, !.out = 0]
  OBVIOUS
<1>2. SpiShape(d) /\ SameQueues(dev, d) /\ d.cs = dev.cs
  BY <1>0, <1>1 DEF SpiShape, SameQueues
<1>3. t.pc = "next" /\ burst.type \in {"write", "read"} /\ burst.len > 0 /\ burst.len \in Nat
  BY <1>0, StartEffect
<1>4. PICK o \in HandlePreBurst(d, burst) :
              \/ ~o.ok
              \/ o.ok /\ dev' = o.d /\ Begun(t', burst) /\ kind' = kind
  BY <1>0, <1>1, StartEffect
<1>5. PICK e : e = ChipSelect(d, TRUE)
  OBVIOUS
<1>6. o = Ok(e)
  BY <1>4, <1>5 DEF HandlePreBurst, SpiV2PreBurst
<1>7. SameQueues(d, e) /\ (d.gone => e = d)
  BY <1>2, <1>5, V2Select
<1>8. dev' = e /\ Begun(t', burst) /\ kind' = kind
  BY <1>4, <1>6, OkShape
<1>9. CASE dev.gone
  <2>1. dev'.gone /\ dev'.cmds = dev.cmds /\ dev'.words = dev.words /\ dev'.cs = dev.cs
    BY <1>2, <1>7, <1>8, <1>9 DEF SameQueues
  <2>2. Queues(dev') /\ Within(dev')
    BY <2>1, QueueSame DEF QueueInv
  <2>3. QED
    BY <1>8, <2>1, <2>2, QueueIntro
<1>10. CASE ~dev.gone
  <2>1. dev'.cmds = <<>> /\ dev'.words = <<>>
    BY <1>2, <1>3, <1>7, <1>8, <1>10 DEF SameQueues, QueueInv, QueueState, BurstPcs
  <2>2. Queues(dev') /\ Within(dev')
    BY <1>0, <2>1, WithinEmpty
  <2>3. Outstanding(dev') = 0 /\ Len(dev'.cmds) = 0 /\ Uniform(dev'.cmds, "read")
        /\ Uniform(dev'.cmds, "write")
    BY <2>1, EmptySeq DEF Outstanding
  <2>4. t'.queued = 0 /\ t'.b = burst /\ t'.req = burst.len /\ t'.rd = 0
        /\ t'.pc = IF burst.type = "write" THEN "write" ELSE "request"
    BY <1>8 DEF Begun
  <2>5. PICK m \in Nat \ {0}, w \in Nat \ {0}, r \in Nat \ {0} :
          m = L.maxRead /\ w = L.writeQueue /\ r = L.readQueue
    BY <1>0, QueueLimits
  <2>6. CASE burst.type = "write"
    <3>1. 0 % w = 0
      BY NextModulo
    <3>2. Writing(dev', t')
      BY <2>1, <2>3, <2>4, <2>5, <2>6, <3>1 DEF Writing
    <3>3. QueueState(dev', t')
      BY <2>4, <2>6, <3>2 DEF QueueState, BurstPcs
    <3>4. QED
      BY <1>8, <2>2, <3>3, QueueIntro
  <2>7. CASE burst.type = "read"
    <3>1. Chunks(m, 0, 0, burst.len)
      BY <1>3, ChunkNone
    <3>2. Reading(dev', t')
      BY <2>1, <2>3, <2>4, <2>5, <2>7, <3>1 DEF Reading
    <3>3. QueueState(dev', t')
      BY <2>4, <2>7, <3>2 DEF QueueState, BurstPcs
    <3>4. QED
      BY <1>8, <2>2, <3>3, QueueIntro
  <2>8. QED
    BY <1>3, <2>6, <2>7
<1>11. QED
  BY <1>9, <1>10

\* A step that leaves the queues alone because the board is gone.
LEMMA QueueGone ==
  ASSUME QueueInv, kind = "spi_v2", kind' = kind, dev.gone, dev' = dev
  PROVE  QueueInv'
<1>1. Queues(dev') /\ Within(dev')
  BY QueueSame DEF QueueInv
<1>2. QED
  BY <1>1, QueueIntro

LEMMA QueueAbort ==
  ASSUME QueueInv, Flow, kind = "spi_v2", dev.gone, Abort(dev)
  PROVE  QueueInv'
<1>1. kind' = kind /\ dev' = dev
  BY DEF Abort, BurstAborted, Fail
<1>2. QED
  BY <1>1, QueueGone

LEMMA QueueWrite ==
  ASSUME QueueInv, SpiInv, Flow, kind = "spi_v2", WriteShot
  PROVE  QueueInv'
<1>0. SpiShape(dev) /\ kind \in Kinds /\ TypeOK /\ t.pc = "write" /\ t.b.type = "write"
  BY WriteEffect DEF SpiInv, SpiGood, Flow, TypeOK, UnderWay, BurstPcs
<1>1. PICK s : \E n \in Nat : \E o \in WriteShotOf(dev, Positions(t.b.len - t.rem, n), s) :
        \/ ~o.ok
        \/ /\ o.ok /\ dev' = o.d /\ Stays
           /\ At(t', IF (t.queued + 1) % L.writeQueue = 0 THEN "wait" ELSE "write")
           /\ t'.queued = t.queued + 1
  BY <1>0, WriteEffect
<1>2. PICK bytes : \E o \in WriteShotOf(dev, bytes, s) :
        \/ ~o.ok
        \/ /\ o.ok /\ dev' = o.d /\ Stays
           /\ At(t', IF (t.queued + 1) % L.writeQueue = 0 THEN "wait" ELSE "write")
           /\ t'.queued = t.queued + 1
  BY <1>1
<1>3. PICK c : c = [op |-> "write", bytes |-> bytes]
  OBVIOUS
<1>4. PICK e : e = SpiV2Queue(dev, c)
  OBVIOUS
<1>5. WriteShotOf(dev, bytes, s) = {Ok(e)}
  BY <1>3, <1>4 DEF WriteShotOf, SpiV2WriteShot
<1>6. /\ dev' = e /\ Stays /\ t'.queued = t.queued + 1
      /\ At(t', IF (t.queued + 1) % L.writeQueue = 0 THEN "wait" ELSE "write")
  BY <1>2, <1>5, OkShape
<1>7. e.words = dev.words /\ e.gone = dev.gone /\ e.cs = dev.cs
      /\ IF dev.gone THEN e = dev ELSE e.cmds = Append(dev.cmds, c)
  BY <1>0, <1>4, V2Queue
<1>8. CASE dev.gone
  BY <1>6, <1>7, <1>8, QueueGone DEF Stays
<1>9. CASE ~dev.gone
  <2>1. Writing(dev, t) /\ Queues(dev) /\ dev.cs
    BY <1>0, <1>9 DEF QueueInv, QueueState, SpiInv, BurstPcs
  <2>2. c.op = "write"
    BY <1>3
  <2>3. /\ IsSeq(e.cmds) /\ Len(e.cmds) = Len(dev.cmds) + 1 /\ Uniform(e.cmds, "write")
    BY <1>7, <1>9, <2>1, <2>2, AppendSeq DEF Queues, Writing
  <2>4. PICK q \in Nat, w \in Nat \ {0}, k \in Nat :
          q = t.queued /\ w = L.writeQueue /\ k = Len(dev.cmds)
    BY <1>0, <2>1, QueueLimits, LenSeq DEF TypeOK, Shaped, Queues
  <2>5. k <= q % w
    BY <1>0, <2>1, <2>4 DEF Writing
  <2>6. q % w \in 0 .. w - 1 /\ (q + 1) % w = IF q % w = w - 1 THEN 0 ELSE (q % w) + 1
    BY NextModulo
  <2>7. k + 1 <= w /\ ((q + 1) % w # 0 => k + 1 <= (q + 1) % w)
    BY <2>5, <2>6
  <2>8. t'.pc \in {"wait", "write"} /\ (t'.pc = "write" => (q + 1) % w # 0) /\ t'.b = t.b
        /\ t'.queued = q + 1
    BY <1>6, <2>4 DEF At
  <2>9. Writing(dev', t')
    BY <1>6, <1>7, <2>1, <2>3, <2>4, <2>7, <2>8 DEF Writing
  <2>10. QueueState(dev', t')
    BY <1>0, <2>8, <2>9 DEF QueueState, BurstPcs
  <2>11. Queues(dev') /\ dev'.cs
    BY <1>6, <1>7, <2>1, <2>3 DEF Queues
  <2>12. Within(dev')
    BY <1>0, <2>8, <2>9, <2>11, WithinWriting
  <2>13. QED
    BY <1>6, <2>10, <2>11, <2>12, QueueIntro DEF Stays
<1>10. QED
  BY <1>8, <1>9

LEMMA QueueWait ==
  ASSUME QueueInv, SpiInv, Flow, kind = "spi_v2", WaitQueueEmpty \/ DrainQueue
  PROVE  QueueInv'
<1>0. SpiShape(dev) /\ kind \in Kinds /\ TypeOK /\ t.pc \in {"wait", "drain"}
      /\ t.b.type = "write" /\ t.queued \in Nat
  BY WaitEffect DEF SpiInv, SpiGood, Flow, TypeOK, UnderWay, BurstPcs, Shaped
<1>1. PICK o \in WaitWrittenOf(dev) :
              \/ ~o.ok /\ Abort(o.d)
              \/ /\ o.ok /\ dev' = o.d /\ Stays
                 /\ At(t', IF t.pc = "wait" THEN "write" ELSE "post")
                 /\ t'.queued = t.queued
  BY <1>0, WaitEffect
<1>2. CASE dev.gone
  <2>1. o = Err(dev)
    BY <1>1, <1>2 DEF WaitWrittenOf, SpiV2WaitWritten
  <2>2. Abort(dev)
    BY <1>1, <2>1, ErrShape
  <2>3. QED
    BY <1>2, <2>2, QueueAbort
<1>3. CASE ~dev.gone
  <2>1. o = Ok(dev) /\ dev.cmds = <<>>
    BY <1>1, <1>3 DEF WaitWrittenOf, SpiV2WaitWritten
  <2>2. /\ dev' = dev /\ Stays /\ t'.queued = t.queued
        /\ At(t', IF t.pc = "wait" THEN "write" ELSE "post")
    BY <1>1, <2>1, OkShape
  <2>3. Writing(dev, t)
    BY <1>0, <1>3 DEF QueueInv, QueueState, BurstPcs
  <2>4. t'.pc \in {"write", "post"} /\ t'.b = t.b
    BY <2>2 DEF At
  <2>5. PICK w \in Nat \ {0} : w = L.writeQueue
    BY <1>0, QueueLimits
  <2>6. t.queued % w \in 0 .. w - 1 /\ Len(dev.cmds) = 0
    BY <1>0, <2>1, NextModulo, EmptySeq
  <2>7. Writing(dev', t')
    BY <2>1, <2>2, <2>3, <2>4, <2>5, <2>6 DEF Writing
  <2>8. QueueState(dev', t')
    BY <1>0, <2>4, <2>7 DEF QueueState, BurstPcs
  <2>9. Queues(dev') /\ Within(dev')
    BY <2>2, QueueSame DEF QueueInv
  <2>10. QED
    BY <2>2, <2>8, <2>9, QueueIntro DEF Stays
<1>4. QED
  BY <1>2, <1>3

LEMMA QueueDone ==
  ASSUME QueueInv, SpiInv, Flow, kind = "spi_v2", WriteDone \/ RequestsQueued \/ ReadDone
  PROVE  QueueInv'
<1>0. kind \in Kinds /\ TypeOK /\ t.queued \in Nat
  BY DEF Flow, TypeOK, Shaped
<1>1. dev' = dev /\ kind' = kind
      /\ t'.queued = t.queued /\ t'.req = t.req /\ t'.rd = t.rd
  BY <1>0, DoneEffect DEF Stays
<1>2. Queues(dev') /\ Within(dev')
  BY <1>1, QueueSame DEF QueueInv
<1>3. CASE dev.gone
  BY <1>1, <1>3, QueueGone
<1>4. CASE ~dev.gone /\ WriteDone
  <2>1. t.pc = "write" /\ t.b.type = "write" /\ t'.b = t.b
        /\ t'.pc = IF t.queued % L.writeQueue # 0 THEN "drain" ELSE "post"
    BY <1>0, <1>4, DoneEffect DEF At, Flow, UnderWay, BurstPcs
  <2>2. Writing(dev, t)
    BY <1>4, <2>1 DEF QueueInv, QueueState, BurstPcs
  <2>a. PICK w \in Nat \ {0}, k \in Nat : w = L.writeQueue /\ k = Len(dev.cmds)
    BY <1>0, QueueLimits, LenSeq DEF QueueInv, Queues
  <2>b. t.queued % w \in 0 .. w - 1
    BY <1>0, NextModulo
  <2>3. PICK x \in Nat : w = L.writeQueue /\ k = Len(dev.cmds) /\ x = t.queued % w /\ x < w
    BY <2>a, <2>b
  <2>4. k <= x /\ (k = 0 => dev.cmds = <<>>)
    BY <2>1, <2>2, <2>3, LenSeq DEF Writing, QueueInv, Queues
  <2>5. x = 0 => dev.cmds = <<>>
    BY <2>3, <2>4
  <2>6. k <= w
    BY <2>3, <2>4
  <2>7. Writing(dev', t')
    BY <1>1, <2>1, <2>2, <2>3, <2>5, <2>6 DEF Writing
  <2>8. QueueState(dev', t')
    BY <2>1, <2>7 DEF QueueState, BurstPcs
  <2>9. QED
    BY <1>1, <1>2, <2>8, QueueIntro
<1>5. CASE ~dev.gone /\ RequestsQueued
  <2>1. t.pc = "request" /\ t.b.type = "read" /\ t'.b = t.b /\ t'.pc = "read"
    BY <1>0, <1>5, DoneEffect DEF At, Flow, UnderWay, BurstPcs
  <2>2. Reading(dev, t)
    BY <1>5, <2>1 DEF QueueInv, QueueState, BurstPcs
  <2>3. Reading(dev', t')
    BY <1>1, <2>1, <2>2 DEF Reading
  <2>4. QueueState(dev', t')
    BY <2>1, <2>3 DEF QueueState, BurstPcs
  <2>5. QED
    BY <1>1, <1>2, <2>4, QueueIntro
<1>6. CASE ~dev.gone /\ ReadDone
  <2>1. t.pc = "read" /\ t.b.type = "read" /\ t'.b = t.b /\ t'.pc = "post" /\ t.rd = 0
    BY <1>0, <1>6, DoneEffect DEF At, Flow, UnderWay, BurstPcs
  <2>2. Reading(dev, t) /\ t.req = 0
    BY <1>6, <2>1 DEF QueueInv, QueueState, BurstPcs, Flow, ReadsOn
  <2>3. PICK m \in Nat \ {0}, k \in Nat, j \in Nat :
          m = L.maxRead /\ k = Len(dev.cmds) /\ j = Len(dev.words)
    BY <1>0, QueueLimits, LenSeq DEF QueueInv, Queues
  <2>4. PICK o \in Nat : o = k + j
    OBVIOUS
  <2>5. Chunks(m, o, 0, 0)
    BY <2>1, <2>2, <2>3, <2>4 DEF Reading, Outstanding
  <2>6. o = 0
    BY <2>5, ChunkDone
  <2>7. k = 0 /\ j = 0
    BY <2>4, <2>6
  <2>8. dev.cmds = <<>> /\ dev.words = <<>>
    BY <2>3, <2>7, LenSeq DEF QueueInv, Queues
  <2>9. Reading(dev', t')
    BY <1>1, <2>1, <2>2, <2>8 DEF Reading
  <2>10. QueueState(dev', t')
    BY <2>1, <2>9 DEF QueueState, BurstPcs
  <2>11. QED
    BY <1>1, <1>2, <2>10, QueueIntro
<1>7. QED
  BY <1>3, <1>4, <1>5, <1>6

LEMMA QueueRequest ==
  ASSUME QueueInv, SpiInv, Flow, kind = "spi_v2", RequestRead \/ RefillRead
  PROVE  QueueInv'
<1>0. SpiShape(dev) /\ kind \in Kinds /\ TypeOK /\ t.pc \in {"request", "refill"}
      /\ t.b.type = "read"
  BY RequestEffect DEF SpiInv, SpiGood, Flow, TypeOK, UnderWay, BurstPcs
<1>a. t.req > 0 /\ (t.pc = "request" => t.queued < L.readQueue)
  BY <1>0, RequestEffect DEF MayRequest, Flow, ReadsOn
<1>1. PICK n \in Nat : \E o \in RequestReadOf(dev, n) :
        /\ n = Smaller(t.req, L.maxRead)
        /\ \/ ~o.ok
           \/ /\ o.ok /\ dev' = o.d /\ Stays
              /\ At(t', IF t.pc = "request" THEN "request" ELSE "read")
              /\ t'.req = t.req - n /\ t'.rd = t.rd + n
              /\ t'.queued = IF t.pc = "request" THEN t.queued + 1 ELSE t.queued
  BY <1>0, RequestEffect
<1>2. PICK c : c = [op |-> "read", n |-> n]
  OBVIOUS
<1>3. PICK e : e = SpiV2Queue(dev, c)
  OBVIOUS
<1>4. RequestReadOf(dev, n) = {Ok(e)}
  BY <1>2, <1>3 DEF RequestReadOf, SpiV2RequestRead
<1>5. /\ dev' = e /\ Stays /\ n = Smaller(t.req, L.maxRead)
      /\ At(t', IF t.pc = "request" THEN "request" ELSE "read")
      /\ t'.req = t.req - n /\ t'.rd = t.rd + n
      /\ t'.queued = IF t.pc = "request" THEN t.queued + 1 ELSE t.queued
  BY <1>1, <1>4, OkShape
<1>6. e.words = dev.words /\ e.gone = dev.gone /\ e.cs = dev.cs
      /\ IF dev.gone THEN e = dev ELSE e.cmds = Append(dev.cmds, c)
  BY <1>0, <1>3, V2Queue
<1>7. CASE dev.gone
  BY <1>5, <1>6, <1>7, QueueGone DEF Stays
<1>8. CASE ~dev.gone
  <2>1. Reading(dev, t) /\ Queues(dev) /\ dev.cs
    BY <1>0, <1>8 DEF QueueInv, QueueState, SpiInv, BurstPcs
  <2>2. c.op = "read"
    BY <1>2
  <2>3. /\ IsSeq(e.cmds) /\ Len(e.cmds) = Len(dev.cmds) + 1 /\ Uniform(e.cmds, "read")
    BY <1>6, <1>8, <2>1, <2>2, AppendSeq DEF Queues, Reading
  <2>4. PICK k \in Nat, j \in Nat : k = Len(dev.cmds) /\ j = Len(dev.words)
    BY <2>1, LenSeq DEF Queues
  <2>5. PICK o \in Nat : o = k + j
    OBVIOUS
  <2>6. PICK m \in Nat \ {0}, r \in Nat \ {0} : m = L.maxRead /\ r = L.readQueue
    BY <1>0, QueueLimits
  <2>7. Outstanding(dev) = o
    BY <2>4, <2>5 DEF Outstanding
  <2>8. Outstanding(dev') = o + 1
    <3>1. Outstanding(dev') = (k + 1) + j
      BY <1>5, <1>6, <2>3, <2>4 DEF Outstanding
    <3>2. (k + 1) + j = o + 1
      BY <2>5
    <3>3. QED
      BY <3>1, <3>2
  <2>9. t.rd \in Nat /\ t.req \in Nat /\ t.queued \in Nat
    BY <1>0 DEF TypeOK, Shaped
  <2>10. Chunks(m, o, t.rd, t.req) /\ (t.pc = "request" => o = t.queued) /\ (t.pc = "refill" => o < r)
    BY <1>0, <2>1, <2>6, <2>7 DEF Reading
  <2>11. PICK y \in Nat, z \in Nat : y = t.rd /\ z = t.req
    BY <2>9
  <2>12. Chunks(m, o + 1, y + n, z - n)
    BY <1>5, <1>a, <2>6, <2>10, <2>11, ChunkRequest
  <2>13. o < r
    BY <1>0, <1>a, <2>6, <2>10
  <2>14. t'.b = t.b /\ t'.pc = IF t.pc = "request" THEN "request" ELSE "read"
    BY <1>5 DEF At
  <2>15. Reading(dev', t')
    <3>1. Uniform(dev'.cmds, "read")
      BY <1>5, <2>3
    <3>2. Chunks(L.maxRead, Outstanding(dev'), t'.rd, t'.req)
      BY <1>5, <2>6, <2>8, <2>11, <2>12
    <3>3. Outstanding(dev') <= L.readQueue
      BY <2>6, <2>8, <2>13
    <3>4. t'.pc = "request" => Outstanding(dev') = t'.queued
      BY <1>0, <1>5, <2>8, <2>10, <2>14
    <3>5. t'.pc \in {"request", "read"}
      BY <2>14
    <3>6. QED
      BY <3>1, <3>2, <3>3, <3>4, <3>5 DEF Reading
  <2>16. QueueState(dev', t')
    BY <1>0, <2>14, <2>15 DEF QueueState, BurstPcs
  <2>17. Queues(dev') /\ dev'.cs
    BY <1>5, <1>6, <2>1, <2>3 DEF Queues
  <2>18. Within(dev')
    BY <1>0, <2>14, <2>15, <2>17, WithinReading
  <2>19. QED
    BY <1>5, <2>16, <2>17, <2>18, QueueIntro DEF Stays
<1>9. QED
  BY <1>7, <1>8

LEMMA QueueRead ==
  ASSUME QueueInv, SpiInv, Flow, kind = "spi_v2", ReadShot
  PROVE  QueueInv'
<1>0. SpiShape(dev) /\ kind \in Kinds /\ TypeOK /\ t.pc = "read" /\ t.b.type = "read"
  BY ReadEffect DEF SpiInv, SpiGood, Flow, TypeOK, UnderWay, BurstPcs
<1>1. PICK s : \E n \in Nat : \E o \in ReadShotOf(dev, n, s) :
        /\ n = Smaller(t.rd, L.maxRead)
        /\ \/ ~o.ok
           \/ /\ o.ok /\ dev' = o.d /\ Stays
              /\ At(t', IF t.req > 0 THEN "refill" ELSE "read")
              /\ t'.rd = t.rd - n /\ t'.req = t.req
  BY <1>0, ReadEffect
<1>2. PICK n \in Nat : \E o \in SpiV2ReadShot(dev, n) :
        /\ n = Smaller(t.rd, L.maxRead)
        /\ \/ ~o.ok
           \/ /\ o.ok /\ dev' = o.d /\ Stays
              /\ At(t', IF t.req > 0 THEN "refill" ELSE "read")
              /\ t'.rd = t.rd - n /\ t'.req = t.req
  BY <1>1 DEF ReadShotOf
<1>3. PICK e : e = [dev EXCEPT !.words = Tail(@)]
  OBVIOUS
<1>4. PICK x : x = SpiV2Extract(Head(dev.words), n)
  OBVIOUS
<1>5. dev.words # <<>> /\ ~dev.gone /\ SpiV2ReadShot(dev, n) = {OkData(e, x)}
  BY <1>2, <1>3, <1>4 DEF SpiV2ReadShot
<1>6. /\ dev' = e /\ Stays /\ n = Smaller(t.rd, L.maxRead)
      /\ At(t', IF t.req > 0 THEN "refill" ELSE "read")
      /\ t'.rd = t.rd - n /\ t'.req = t.req
  <2>1. PICK o : o = OkData(e, x)
    OBVIOUS
  <2>2. o.d = e /\ o.ok = TRUE
    BY <2>1, OkDataShape
  <2>3. QED
    BY <1>2, <1>5, <2>1, <2>2, Zenon
<1>7. e.cmds = dev.cmds /\ e.words = Tail(dev.words) /\ e.cs = dev.cs
  BY <1>0, <1>3 DEF SpiShape
<1>8. Reading(dev, t) /\ Queues(dev) /\ dev.cs
  BY <1>0, <1>5 DEF QueueInv, QueueState, SpiInv, BurstPcs
<1>9. PICK k \in Nat, j \in Nat : k = Len(dev.cmds) /\ j = Len(dev.words)
  BY <1>8, LenSeq DEF Queues
<1>10. j > 0 /\ IsSeq(e.words) /\ Len(e.words) = j - 1
  BY <1>5, <1>7, <1>8, <1>9, TailSeq, LenSeq DEF Queues
<1>11. PICK o \in Nat : o = k + j /\ o > 0
  BY <1>10
<1>12. Outstanding(dev) = o
  BY <1>9, <1>11 DEF Outstanding
<1>13. Outstanding(dev') = o - 1
  <2>1. Outstanding(dev') = k + (j - 1)
    BY <1>6, <1>7, <1>9, <1>10 DEF Outstanding
  <2>2. k + (j - 1) = o - 1
    BY <1>11
  <2>3. QED
    BY <2>1, <2>2
<1>14. PICK m \in Nat \ {0}, r \in Nat \ {0} : m = L.maxRead /\ r = L.readQueue
  BY <1>0, QueueLimits
<1>15. PICK y \in Nat, z \in Nat : y = t.rd /\ z = t.req
  BY <1>0 DEF TypeOK, Shaped
<1>16. Chunks(m, o, y, z) /\ o <= r
  BY <1>0, <1>8, <1>12, <1>14, <1>15 DEF Reading
<1>17. Chunks(m, o - 1, y - n, z)
  BY <1>6, <1>11, <1>14, <1>15, <1>16, ChunkRead
<1>18. t'.b = t.b /\ t'.pc \in {"refill", "read"}
  BY <1>6 DEF At
<1>19. Reading(dev', t')
  <2>1. Uniform(dev'.cmds, "read")
    BY <1>6, <1>7, <1>8 DEF Reading
  <2>2. Chunks(L.maxRead, Outstanding(dev'), t'.rd, t'.req)
    BY <1>6, <1>13, <1>14, <1>15, <1>17
  <2>3. Outstanding(dev') <= L.readQueue /\ Outstanding(dev') < L.readQueue
    BY <1>11, <1>13, <1>14, <1>16
  <2>4. QED
    BY <1>18, <2>1, <2>2, <2>3 DEF Reading
<1>20. QueueState(dev', t')
  BY <1>0, <1>18, <1>19 DEF QueueState, BurstPcs
<1>21. Queues(dev') /\ dev'.cs
  BY <1>6, <1>7, <1>8, <1>10 DEF Queues
<1>22. Within(dev')
  BY <1>0, <1>18, <1>19, <1>21, WithinReading
<1>23. QED
  BY <1>6, <1>20, <1>21, <1>22, QueueIntro DEF Stays

\* The FPGA executes a command: a read moves from one queue to the other.
LEMMA QueueExecute ==
  ASSUME QueueInv, SpiInv, Flow, kind = "spi_v2", Execute
  PROVE  QueueInv'
<1>0. SpiShape(dev) /\ kind \in Kinds /\ TypeOK /\ kind' = kind /\ t' = t /\ ~dev.gone
      /\ dev.cmds # <<>> /\ dev' = SpiV2Execute(dev)
  BY DEF SpiInv, SpiGood, Flow, TypeOK, Execute
<1>1. Queues(dev) /\ QueueState(dev, t)
  BY <1>0 DEF QueueInv
<1>2. t.pc \in BurstPcs /\ t.b.type \in {"write", "read"} /\ t.pc # "post" /\ dev.cs
  BY <1>0, <1>1 DEF QueueState, Writing, Reading, Flow, UnderWay, SpiInv
<1>3. PICK k \in Nat, j \in Nat : k = Len(dev.cmds) /\ j = Len(dev.words)
  BY <1>1, LenSeq DEF Queues
<1>4. PICK c : c = Head(dev.cmds)
  OBVIOUS
<1>5. PICK e : e = [dev EXCEPT !.cmds = Tail(@)]
  OBVIOUS
<1>6. SpiShape(e) /\ e.cmds = Tail(dev.cmds) /\ e.words = dev.words /\ e.cs = dev.cs
      /\ e.gone = dev.gone
  BY <1>0, <1>5 DEF SpiShape
<1>7. IsSeq(e.cmds) /\ Len(e.cmds) = k - 1 /\ k > 0
      /\ \A op : Uniform(dev.cmds, op) => Uniform(e.cmds, op) /\ c.op = op
  BY <1>0, <1>1, <1>3, <1>4, <1>6, TailSeq, LenSeq DEF Queues
<1>8. CASE t.b.type = "write"
  <2>1. Writing(dev, t) /\ t.pc \in {"write", "wait", "drain"}
    BY <1>1, <1>2, <1>8 DEF QueueState, BurstPcs, Flow, UnderWay
  <2>2. c.op = "write" /\ Uniform(e.cmds, "write")
    BY <1>7, <2>1 DEF Writing
  <2>3. dev' = Received(e, c.bytes)
    BY <1>0, <1>4, <1>5, <2>2 DEF SpiV2Execute
  <2>4. dev'.cmds = e.cmds /\ dev'.words = e.words /\ dev'.cs = e.cs
    BY <1>6, <2>3 DEF Received, SpiShape
  <2>5. PICK q \in Nat, w \in Nat \ {0} : q = t.queued /\ w = L.writeQueue
    BY <1>0, QueueLimits DEF TypeOK, Shaped
  <2>a. q % w \in 0 .. w - 1
    BY NextModulo
  <2>6. (t.pc = "write" => k - 1 <= q % w) /\ (t.pc \in {"wait", "drain"} => k - 1 <= w)
    BY <1>3, <2>1, <2>5, <2>a DEF Writing
  <2>7. Writing(dev', t')
    BY <1>0, <1>2, <1>6, <1>7, <2>1, <2>2, <2>4, <2>5, <2>6 DEF Writing
  <2>8. QueueState(dev', t')
    BY <1>0, <1>2, <1>8, <2>7 DEF QueueState
  <2>9. Queues(dev') /\ dev'.cs
    BY <1>1, <1>2, <1>6, <1>7, <2>4 DEF Queues
  <2>10. t'.pc \in {"write", "wait", "drain"} /\ t'.queued \in Nat
    BY <1>0, <2>1, <2>5
  <2>11. Within(dev')
    BY <1>0, <2>7, <2>9, <2>10, WithinWriting
  <2>12. QED
    BY <1>0, <2>8, <2>9, <2>11, QueueIntro
<1>9. CASE t.b.type = "read"
  <2>1. Reading(dev, t) /\ t.pc \in {"request", "read", "refill"}
    BY <1>1, <1>2, <1>9 DEF QueueState, BurstPcs, Flow, UnderWay
  <2>2. c.op = "read" /\ Uniform(e.cmds, "read")
    BY <1>7, <2>1 DEF Reading
  <2>3. PICK x : x = Positions(dev.out, c.n)
    OBVIOUS
  <2>4. PICK f : f = [e EXCEPT !.words = Append(@, x)]
    OBVIOUS
  <2>5. SpiShape(f) /\ f.cmds = e.cmds /\ f.words = Append(dev.words, x) /\ f.cs = e.cs
    BY <1>6, <2>4 DEF SpiShape
  <2>6. dev' = Answered(f, c.n)
    BY <1>0, <1>4, <1>5, <2>2, <2>3, <2>4 DEF SpiV2Execute
  <2>7. dev'.cmds = e.cmds /\ dev'.words = Append(dev.words, x) /\ dev'.cs = e.cs
    BY <2>5, <2>6 DEF Answered, SpiShape
  <2>8. IsSeq(dev'.words) /\ Len(dev'.words) = j + 1
    BY <1>1, <1>3, <2>7, AppendSeq DEF Queues
  <2>9. Outstanding(dev') = Outstanding(dev)
    <3>1. Outstanding(dev) = k + j
      BY <1>3 DEF Outstanding
    <3>2. Outstanding(dev') = (k - 1) + (j + 1)
      BY <1>7, <2>7, <2>8 DEF Outstanding
    <3>3. (k - 1) + (j + 1) = k + j
      OBVIOUS
    <3>4. QED
      BY <3>1, <3>2, <3>3
  <2>10. Reading(dev', t')
    BY <1>0, <1>2, <2>1, <2>2, <2>7, <2>9 DEF Reading
  <2>11. QueueState(dev', t')
    BY <1>0, <1>2, <1>9, <2>10 DEF QueueState
  <2>12. Queues(dev') /\ dev'.cs
    BY <1>2, <1>6, <1>7, <2>7, <2>8 DEF Queues
  <2>13. t'.pc \in {"request", "read", "refill"}
    BY <1>0, <2>1
  <2>14. Within(dev')
    BY <1>0, <2>10, <2>12, <2>13, WithinReading
  <2>15. QED
    BY <1>0, <2>11, <2>12, <2>14, QueueIntro
<1>10. QED
  BY <1>2, <1>8, <1>9

LEMMA QueueVanish ==
  ASSUME QueueInv, SpiInv, kind = "spi_v2", Vanish
  PROVE  QueueInv'
<1>1. SpiShape(dev) /\ dev' = [dev EXCEPT !.gone = TRUE] /\ kind' = kind
  BY DEF SpiInv, SpiGood, Vanish
<1>2. dev'.cmds = dev.cmds /\ dev'.words = dev.words /\ dev'.cs = dev.cs /\ dev'.gone = TRUE
  BY <1>1 DEF SpiShape
<1>3. Queues(dev') /\ Within(dev')
  BY <1>2, QueueSame DEF QueueInv
<1>4. QED
  BY <1>1, <1>2, <1>3, QueueIntro

LEMMA QueueStep ==
  ASSUME QueueInv, SpiInv, Flow, kind = "spi_v2", [Next]_vars
  PROVE  QueueInv'
<1>1. CASE UNCHANGED vars
  <2>1. kind' = kind /\ dev' = dev /\ t' = t
    BY <1>1 DEF vars
  <2>2. QED
    BY <2>1, QueueIntro DEF QueueInv
<1>2. CASE Next
  BY <1>2, QueueOutside, QueueStart, QueueWrite, QueueWait, QueueDone, QueueRequest, QueueRead,
     QueuePost, QueueExecute, QueueVanish DEF Next, Driver, BurstStep
<1>3. QED
  BY <1>1, <1>2

LEMMA QueueInitInv == Init /\ kind = "spi_v2" => QueueInv
<1> SUFFICES ASSUME Init, kind = "spi_v2" PROVE QueueInv
  OBVIOUS
<1>1. dev.cmds = <<>> /\ dev.words = <<>> /\ kind \in Kinds
  BY DEF Init, DevInit, SpiInit
<1>2. t.pc = "none"
  BY QuietShaped DEF Init
<1>3. QED
  BY <1>1, <1>2, WithinEmpty DEF QueueInv, QueueState, BurstPcs

-----------------------------------------------------------------------------
(* All controllers.                                                        *)

LEMMA KindKept == [Next]_vars => kind' = kind
  BY DEF Next, Driver, BurstStep, BeginTransaction, EndTransaction, SkipBurst, CopyInFails,
         StateChange, Command, StartBurst, WriteShot, WaitQueueEmpty, DrainQueue, WriteDone,
         RequestRead, RefillRead, RequestsQueued, ReadShot, ReadDone, PostBurst, Execute,
         Vanish, Fail, Abort, vars

Devices ==
  /\ kind = "i2c" => I2cInv
  /\ kind \in SpiKinds => SpiInv
  /\ kind = "spi_v2" => QueueInv
  /\ kind = "bpi" => BpiGood(dev)
  /\ kind = "jtag" => JtagGood(dev)

LEMMA DevicesInvariant == Spec => [](Flow /\ Devices)
<1>1. Init => Devices
  <2>1. Init /\ kind = "bpi" => BpiGood(dev)
    <3>1. Init /\ kind = "bpi" => dev = BpiInit
      BY DEF Init, DevInit
    <3>2. BpiGood(BpiInit)
      BY DEF BpiGood, BpiShape, BankKnown, BpiInit
    <3>3. QED
      BY <3>1, <3>2
  <2>2. Init /\ kind = "jtag" => JtagGood(dev)
    <3>1. Init /\ kind = "jtag" =>
            \E tap \in {"Reset", "Idle", "PauseDR", "ShiftIR"} : dev = JtagInit(tap)
      BY DEF Init, DevInit
    <3>2. ASSUME NEW tap \in {"Reset", "Idle", "PauseDR", "ShiftIR"} PROVE JtagGood(JtagInit(tap))
      <4>1. tap \in Meaning("INVALID") /\ "INVALID" \in JtagStates6
        BY MeaningIs, TapStatesAre DEF JtagStates6
      <4>2. QED
        BY <4>1 DEF JtagGood, JtagShape, TapKnown, JtagInit
    <3>3. QED
      BY <3>1, <3>2
  <2>3. QED
    BY <2>1, <2>2, I2cInitInv, SpiInitInv, QueueInitInv DEF Devices
<1>2. Flow /\ Devices /\ [Next]_vars => Devices'
  <2> SUFFICES ASSUME Flow, Devices, [Next]_vars PROVE Devices'
    OBVIOUS
  <2>1. kind' = kind
    BY KindKept
  <2>2. kind = "spi_v2" => QueueInv'
    BY QueueStep DEF Devices, SpiKinds
  <2>3. QED
    BY <2>1, <2>2, I2cStep, SpiStep, BpiStep, JtagStep DEF Devices
<1>3. QED
  BY <1>1, <1>2, InitFlow, StepFlow, PTL DEF Spec

-----------------------------------------------------------------------------
(* What the controllers do to the bytes of a burst.                        *)

HasData(d) == {"got", "out", "gone"} \subseteq DOMAIN d
SameData(d, e) == HasData(e) /\ e.got = d.got /\ e.out = d.out /\ e.gone = d.gone

LEMMA SameDataItself ==
  ASSUME NEW d, HasData(d)
  PROVE  SameData(d, d)
  BY DEF SameData

LEMMA SameDataMore ==
  ASSUME NEW d, NEW e, NEW f, SameData(d, e), SameData(e, f)
  PROVE  SameData(d, f)
  BY DEF SameData

\* A shot that has succeeded: the target has got, or answered, its bytes.
LEMMA MovedData ==
  ASSUME NEW d, HasData(d), NEW x
  PROVE  /\ HasData(Received(d, x)) /\ Received(d, x).got = d.got \o x
         /\ Received(d, x).gone = d.gone
         /\ HasData(Answered(d, x)) /\ Answered(d, x).out = d.out + x
         /\ Answered(d, x).gone = d.gone
  BY DEF HasData, Received, Answered

LEMMA DrivenData ==
  ASSUME NEW d, HasData(d), NEW x
  PROVE  /\ HasData(Driven(d, x)) /\ Driven(d, x).gone = d.gone
         /\ ~d.gone => Driven(d, x).got = d.got \o x
  BY MovedData DEF Driven

\* The three ways to return.
LEMMA OkIs ==
  ASSUME NEW o, NEW e, o = Ok(e)
  PROVE  o.d = e /\ o.ok
  BY OkShape

LEMMA ErrIs ==
  ASSUME NEW o, NEW e, o = Err(e)
  PROVE  o.d = e /\ ~o.ok
  BY ErrShape

LEMMA OkDataIs ==
  ASSUME NEW o, NEW e, NEW x, o = OkData(e, x)
  PROVE  o.d = e /\ o.ok /\ o.data = x
  BY OkDataShape

\* SPI.
LEMMA SpiData ==
  ASSUME NEW d, HasData(d), NEW on
  PROVE  SameData(d, ChipSelect(d, on)) /\ SameData(d, SpiDualSelect(d, on))
<1>1. PICK c : c = ChipSelect(d, on)
  OBVIOUS
<1>2. SameData(d, c)
  BY <1>1 DEF HasData, SameData, ChipSelect
<1>3. SameData(c, [c EXCEPT !.chip = on])
  BY <1>2 DEF HasData, SameData
<1>4. SpiDualSelect(d, on) = d \/ SpiDualSelect(d, on) = [c EXCEPT !.chip = on]
  BY <1>1 DEF SpiDualSelect
<1>5. QED
  BY <1>1, <1>2, <1>3, <1>4, SameDataItself, SameDataMore

\* BPI.
LEMMA BpiFieldData ==
  ASSUME NEW d, HasData(d), NEW x, NEW y
  PROVE  /\ SameData(d, [d EXCEPT !.ops = x]) /\ SameData(d, [d EXCEPT !.addr = x])
         /\ SameData(d, [d EXCEPT !.bank = x]) /\ SameData(d, BpiInvalidate(d))
         /\ SameData(d, [d EXCEPT !.sel = x, !.bank = x, !.lost = y])
  BY DEF HasData, SameData, BpiInvalidate

LEMMA BpiPreData ==
  ASSUME NEW d, HasData(d), NEW flags, NEW o \in BpiPreBurst(d, flags)
  PROVE  SameData(d, o.d) /\ ("ops" \in DOMAIN d => o.d.ops = flags)
<1>1. PICK e : e = [d EXCEPT !.ops = flags]
  OBVIOUS
<1>2. SameData(d, e) /\ HasData(e)
  BY <1>1, BpiFieldData DEF SameData
<1>3. PICK s : s = IF "SELECT" \in flags THEN BpiInvalidate(e) ELSE e
  OBVIOUS
<1>4. SameData(d, s) /\ ("ops" \in DOMAIN d => s.ops = flags)
  <2>1. SameData(d, s)
    BY <1>2, <1>3, BpiFieldData, SameDataMore
  <2>2. "ops" \in DOMAIN d => s.ops = flags
    BY <1>1, <1>3 DEF BpiInvalidate
  <2>3. QED
    BY <2>1, <2>2
<1>5. o = Ok(s) \/ o = Err(s)
  BY <1>1, <1>3, Zenon DEF BpiPreBurst
<1>6. QED
  BY <1>4, <1>5, OkIs, ErrIs

LEMMA SelectBankData ==
  ASSUME NEW d, HasData(d), NEW b, NEW o \in SelectBank(d, b)
  PROVE  SameData(d, o.d)
<1>1. CASE o = Err(d)
  BY <1>1, ErrIs, SameDataItself
<1>2. CASE o = Ok([d EXCEPT !.sel = b, !.bank = b, !.lost = FALSE])
  <2>1. PICK e : e = [d EXCEPT !.sel = b, !.bank = b, !.lost = FALSE]
    OBVIOUS
  <2>2. SameData(d, e)
    BY <2>1, BpiFieldData
  <2>3. o = Ok(e)
    BY <1>2, <2>1
  <2>4. QED
    BY <2>2, <2>3, OkIs
<1>3. CASE \E real : o = Err([d EXCEPT !.bank = real])
  <2>1. PICK real : o = Err([d EXCEPT !.bank = real])
    BY <1>3
  <2>2. PICK e : e = [d EXCEPT !.bank = real]
    OBVIOUS
  <2>3. SameData(d, e)
    BY <2>2, BpiFieldData
  <2>4. o = Err(e)
    BY <2>1, <2>2
  <2>5. QED
    BY <2>3, <2>4, ErrIs
<1>4. QED
  BY <1>1, <1>2, <1>3 DEF SelectBank

\* A write of whole words of data sends all its bytes.
DataOnly(ops) == ops \cap BpiOperations = {"WRITEDATA"}
Whole(bytes) == WholeWords(bytes) = bytes /\ bytes \in Seq(Nat)

LEMMA DataOnlySent ==
  ASSUME NEW ops, NEW bytes, DataOnly(ops), Whole(bytes)
  PROVE  BpiSent(ops, bytes) = bytes
<1>1. "WRITEDATA" \in ops /\ "WRITECMD" \notin ops /\ "WRITECMDADDRESS" \notin ops
  BY DEF DataOnly, BpiOperations
<1>2. BpiSent(ops, bytes) = <<>> \o <<>> \o bytes
  BY <1>1 DEF BpiSent, Whole
<1>3. QED
  BY <1>2 DEF Whole

LEMMA EvenIsWhole ==
  ASSUME NEW a \in Nat, NEW n \in Nat, n % 2 = 0
  PROVE  Whole(Positions(a, n))
<1>1. PICK p : p = Positions(a, n)
  OBVIOUS
<1>2. p = [i \in 1 .. n |-> a + i] /\ p \in Seq(Nat) /\ Len(p) = n
  BY <1>1 DEF Positions
<1>3. n # 1 /\ 2 * (n \div 2) = n
  OBVIOUS
<1>4. WholeWords(p) = [i \in 1 .. n |-> p[i]]
  BY <1>2, <1>3 DEF WholeWords
<1>5. QED
  BY <1>1, <1>2, <1>4 DEF Whole

LEMMA BpiWriteData ==
  ASSUME NEW d, HasData(d), NEW bytes, NEW a, NEW o \in BpiWriteShot(d, bytes, a), o.ok
  PROVE  /\ HasData(o.d) /\ o.d.gone = d.gone
         /\ ~d.gone /\ DataOnly(d.ops) /\ Whole(bytes) => o.d.got = d.got \o bytes
<1>1. PICK e : e = IF "SETADDRESS" \in d.ops \/ "WRITECMDADDRESS" \in d.ops
                   THEN [d EXCEPT !.addr = a] ELSE d
  OBVIOUS
<1>2. SameData(d, e) /\ HasData(e)
  BY <1>1, BpiFieldData, SameDataItself DEF SameData
<1>3. PICK S : S = IF "WRITECMDADDRESS" \in d.ops THEN SetAddress(e, a) ELSE {Ok(e)}
  OBVIOUS
<1>4. PICK r \in S : o = IF r.ok THEN Ok(Driven(r.d, BpiSent(d.ops, bytes))) ELSE r
  BY <1>1, <1>3, Zenon DEF BpiWriteShot
<1>5. r = Ok(e) \/ \E b : r \in SelectBank(e, b)
  BY <1>3, <1>4 DEF SetAddress
<1>6. SameData(e, r.d)
  BY <1>2, <1>5, OkIs, SameDataItself, SelectBankData
<1>7. HasData(r.d) /\ r.d.got = d.got /\ r.d.gone = d.gone
  BY <1>2, <1>6 DEF SameData
<1>8. PICK x, y, sent : sent = BpiSent(d.ops, bytes) /\ x = r.d /\ y = Driven(r.d, sent)
  OBVIOUS
<1>9. /\ HasData(y) /\ y.gone = d.gone
      /\ ~d.gone => y.got = d.got \o sent
  <2>1. HasData(x) /\ x.got = d.got /\ x.gone = d.gone
    BY <1>7, <1>8
  <2>2. y = Driven(x, sent)
    BY <1>8
  <2>3. QED
    BY <2>1, <2>2, DrivenData
<1>10. CASE r.ok
  <2>1. o = Ok(y)
    BY <1>4, <1>8, <1>10
  <2>2. o.d = y
    BY <2>1, OkIs
  <2>3. QED
    BY <1>8, <1>9, <2>2, DataOnlySent
<1>11. CASE ~r.ok
  BY <1>4, <1>11
<1>12. QED
  BY <1>10, <1>11

\* I2C.
LEMMA OnWireData ==
  ASSUME NEW d, HasData(d), NEW cmds, NEW done
  PROVE  SameData(d, OnWire(d, cmds, done))
  BY DEF HasData, SameData, OnWire, Access

LEMMA I2cWriteData ==
  ASSUME NEW d, HasData(d), NEW bytes, NEW cmds, NEW o \in I2cWriteShot(d, bytes, cmds), o.ok
  PROVE  HasData(o.d) /\ o.d.got = d.got \o bytes
<1>1. PICK e : e = OnWire(d, cmds, TRUE)
  OBVIOUS
<1>2. HasData(e) /\ e.got = d.got
  BY <1>1, OnWireData DEF SameData
<1>3. PICK x : x = Received(e, bytes)
  OBVIOUS
<1>4. HasData(x) /\ x.got = d.got \o bytes
  BY <1>2, <1>3, MovedData
<1>5. o = Ok(x) \/ \E f : o = Err(f)
  BY <1>1, <1>3 DEF I2cWriteShot
<1>6. QED
  BY <1>4, <1>5, OkIs, ErrIs

LEMMA I2cReadData ==
  ASSUME NEW d, HasData(d), NEW cmds, NEW o \in I2cReadShot(d, cmds), o.ok
  PROVE  HasData(o.d) /\ o.d.out = d.out + 1 /\ o.data = Positions(d.out, 1)
<1>0. PICK w : w = OnWire(d, cmds, TRUE)
  OBVIOUS
<1>1. PICK e : e = Answered(w, 1)
  OBVIOUS
<1>b. HasData(w) /\ w.out = d.out
  BY <1>0, OnWireData DEF SameData
<1>2. HasData(e) /\ e.out = d.out + 1
  BY <1>1, <1>b DEF Answered, HasData
<1>a. PICK x : x = Positions(d.out, 1)
  OBVIOUS
<1>3. o = OkData(e, x) \/ \E f : o = Err(f)
  BY <1>0, <1>1, <1>a DEF I2cReadShot
<1>4. QED
  BY <1>2, <1>3, <1>a, OkDataIs, ErrIs

\* JTAG.
LEMMA JtagFieldData ==
  ASSUME NEW d, HasData(d), NEW x, NEW y, NEW z, NEW w
  PROVE  /\ SameData(d, [d EXCEPT !.rbits = x]) /\ SameData(d, [d EXCEPT !.tbits = x])
         /\ SameData(d, [d EXCEPT !.bits = x])
         /\ SameData(d, [d EXCEPT !.state = x, !.tap = y])
         /\ SameData(d, [d EXCEPT !.state = x, !.tap = y, !.rbits = z])
         /\ SameData(d, [d EXCEPT !.state = x, !.tap = y, !.rbits = z, !.tbits = w])
  BY DEF HasData, SameData

LEMMA SetStateData ==
  ASSUME NEW d, HasData(d), NEW target, NEW o \in SetState(d, target)
  PROVE  SameData(d, o.d)
<1>1. PICK x : x = Clock(d.tap, TmsPath(d.state, target))
  OBVIOUS
<1>2. PICK e : e = [d EXCEPT !.state = target, !.tap = x]
  OBVIOUS
<1>3. o = Ok(e) \/ o = Err(d)
  BY <1>1, <1>2 DEF SetState
<1>4. SameData(d, e) /\ SameData(d, d)
  BY <1>2, JtagFieldData, SameDataItself
<1>5. QED
  BY <1>3, <1>4, OkIs, ErrIs

LEMMA ShiftData ==
  ASSUME NEW d, HasData(d), NEW n, NEW b, NEW o \in Shift(d, n, b)
  PROVE  SameData(d, o.d)
<1>1. CASE d.gone
  <2>1. PICK e : e = [d EXCEPT !.rbits = 0]
    OBVIOUS
  <2>2. o = Err(e)
    BY <1>1, <2>1 DEF Shift
  <2>3. SameData(d, e)
    BY <2>1, JtagFieldData
  <2>4. QED
    BY <2>2, <2>3, ErrIs
<1>2. CASE ~d.gone /\ "RAW" \in b.flags
  <2>1. PICK x : o = Ok([d EXCEPT !.state = "INVALID", !.tap = x, !.rbits = n, !.tbits = 0])
    BY <1>2 DEF Shift
  <2>2. PICK e : e = [d EXCEPT !.state = "INVALID", !.tap = x, !.rbits = n, !.tbits = 0]
    OBVIOUS
  <2>3. SameData(d, e)
    BY <2>2, JtagFieldData
  <2>4. QED
    BY <2>1, <2>2, <2>3, OkIs
<1>3. CASE ~d.gone /\ "RAW" \notin b.flags
  <2>1. PICK s, x : s = (IF b.state = "IDLE" THEN d.state ELSE "EXIT")
                    /\ x = Clock(d.tap, ShiftTms(n, b.state))
    OBVIOUS
  <2>2. PICK e : e = [d EXCEPT !.state = s, !.tap = x, !.rbits = n]
    OBVIOUS
  <2>3. SameData(d, e)
    BY <2>2, JtagFieldData
  <2>4. o = Ok(e)
    BY <1>3, <2>1, <2>2 DEF Shift
  <2>5. QED
    BY <2>3, <2>4, OkIs
<1>4. QED
  BY <1>1, <1>2, <1>3

LEMMA JtagRawData ==
  ASSUME NEW d, HasData(d), NEW n, NEW b, NEW o \in JtagWriteRaw(d, n, b)
  PROVE  SameData(d, o.d)
<1>1. PICK e : e = [d EXCEPT !.tbits = n]
  OBVIOUS
<1>2. SameData(d, e) /\ HasData(e)
  BY <1>1, JtagFieldData DEF SameData
<1>3. o \in Shift(e, n, b) \/ o \in Shift(d, n, b) \/ o = Ok(e) \/ o = Err(d)
  BY <1>1 DEF JtagWriteRaw
<1>4. QED
  BY <1>2, <1>3, ShiftData, SameDataMore, SameDataItself, OkIs, ErrIs

LEMMA JtagInStateData ==
  ASSUME NEW d, HasData(d), NEW n, NEW b, NEW o \in JtagWriteInState(d, n, b)
  PROVE  SameData(d, o.d)
<1>1. CASE o = Err(d)
  BY <1>1, ErrIs, SameDataItself
<1>2. CASE o # Err(d)
  <2>1. PICK p \in SetState(d, b.state) : o \in IF p.ok THEN Shift(p.d, n, b) ELSE {p}
    BY <1>2 DEF JtagWriteInState
  <2>2. SameData(d, p.d) /\ HasData(p.d)
    BY <2>1, SetStateData DEF SameData
  <2>3. QED
    BY <2>1, <2>2, ShiftData, SameDataMore
<1>3. QED
  BY <1>1, <1>2

LEMMA JtagWriteData ==
  ASSUME NEW d, HasData(d), NEW length, NEW b, NEW o \in JtagWrite(d, length, b)
  PROVE  SameData(d, o.d)
<1>1. PICK n : n = LengthInBits(b, length)
  OBVIOUS
<1>2. o = Err(d) \/ o \in JtagWriteRaw(d, n, b) \/ o \in JtagWriteInState(d, n, b)
  BY <1>1 DEF JtagWrite
<1>3. QED
  BY <1>2, JtagRawData, JtagInStateData, SameDataItself, ErrIs

LEMMA TakenData ==
  ASSUME NEW o, HasData(o.d)
  PROVE  SameData(o.d, Taken(o).d)
<1>1. PICK d : d = o.d
  OBVIOUS
<1>2. PICK e : e = [d EXCEPT !.rbits = 0]
  OBVIOUS
<1>3. SameData(d, e) /\ SameData(d, d)
  BY <1>1, <1>2, JtagFieldData, SameDataItself
<1>4. Taken(o) = Ok(e) \/ Taken(o) = o
  BY <1>1, <1>2 DEF Taken
<1>5. QED
  BY <1>1, <1>3, <1>4, OkIs

LEMMA JtagReadBytes ==
  ASSUME NEW d, HasData(d), NEW length, NEW b, NEW o \in JtagRead(d, length, b)
  PROVE  SameData(d, o.d)
<1>1. \/ o = Err(d) \/ o = Taken(Ok(d))
      \/ \E p \in JtagWrite(d, length, b) : o = Taken(p)
  BY DEF JtagRead, Taken
<1>2. CASE o = Err(d) \/ o = Taken(Ok(d))
  BY <1>2, SameDataItself, TakenData, OkIs, ErrIs
<1>3. CASE \E p \in JtagWrite(d, length, b) : o = Taken(p)
  <2>1. PICK p \in JtagWrite(d, length, b) : o = Taken(p)
    BY <1>3
  <2>2. SameData(d, p.d) /\ HasData(p.d)
    BY JtagWriteData DEF SameData
  <2>3. QED
    BY <2>1, <2>2, TakenData, SameDataMore
<1>4. QED
  BY <1>1, <1>2, <1>3

LEMMA JtagWriteShotData ==
  ASSUME NEW d, HasData(d), NEW bytes, NEW b, NEW o \in JtagWriteShot(d, bytes, b), o.ok
  PROVE  HasData(o.d) /\ o.d.got = d.got \o bytes
<1>1. \E e : SameData(d, e) /\ o = Ok(Received(e, bytes))
  <2>1. CASE "SETLEN" \in b.flags
    <3>1. PICK e : e = [d EXCEPT !.bits = b.arg]
      OBVIOUS
    <3>2. SameData(d, e)
      BY <3>1, JtagFieldData
    <3>3. o = Ok(Received(e, bytes))
      BY <2>1, <3>1 DEF JtagWriteShot
    <3>4. QED
      BY <3>2, <3>3
  <2>2. CASE "SETLEN" \notin b.flags /\ "SETFREQ" \in b.flags
    <3>1. o = Ok(Received(d, bytes))
      BY <2>2 DEF JtagWriteShot
    <3>2. QED
      BY <3>1, SameDataItself
  <2>3. CASE "SETLEN" \notin b.flags /\ "SETFREQ" \notin b.flags
    <3>1. PICK e : e = [d EXCEPT !.bits = 0]
      OBVIOUS
    <3>2. SameData(d, e) /\ HasData(e)
      BY <3>1, JtagFieldData DEF SameData
    <3>3. PICK length : length = ShotLength(d, Len(bytes))
      OBVIOUS
    <3>4. PICK p \in JtagWrite(e, length, b) : o = IF p.ok THEN Ok(Received(p.d, bytes)) ELSE p
      BY <2>3, <3>1, <3>3 DEF JtagWriteShot
    <3>5. SameData(d, p.d)
      BY <3>2, <3>4, JtagWriteData, SameDataMore
    <3>6. QED
      BY <3>4, <3>5
  <2>4. QED
    BY <2>1, <2>2, <2>3
<1>2. PICK e, x : SameData(d, e) /\ x = Received(e, bytes) /\ o = Ok(x)
  BY <1>1
<1>3. HasData(x) /\ x.got = d.got \o bytes
  BY <1>2, MovedData DEF SameData
<1>4. QED
  BY <1>2, <1>3, OkIs

LEMMA JtagReadShotData ==
  ASSUME NEW d, HasData(d), NEW n, NEW b, NEW o \in JtagReadShot(d, n, b), o.ok
  PROVE  HasData(o.d) /\ o.d.out = d.out + n /\ o.data = Positions(d.out, n)
<1>1. PICK e : e = [d EXCEPT !.bits = 0]
  OBVIOUS
<1>2. SameData(d, e) /\ HasData(e)
  BY <1>1, JtagFieldData DEF SameData
<1>3. PICK length : length = ShotLength(d, n)
  OBVIOUS
<1>5. PICK p \in JtagRead(e, length, b) :
        o = IF p.ok THEN OkData(Answered(p.d, n), Positions(p.d.out, n)) ELSE p
  BY <1>1, <1>3 DEF JtagReadShot
<1>6. HasData(p.d) /\ p.d.out = d.out
  BY <1>2, <1>5, JtagReadBytes DEF SameData
<1>7. PICK x, y : x = Answered(p.d, n) /\ y = Positions(d.out, n)
  OBVIOUS
<1>8. o = OkData(x, y)
  BY <1>5, <1>6, <1>7
<1>9. HasData(x) /\ x.out = d.out + n
  <2>1. PICK q : q = p.d
    OBVIOUS
  <2>2. HasData(q) /\ q.out = d.out /\ x = Answered(q, n)
    BY <1>6, <1>7, <2>1
  <2>3. QED
    BY <2>2, MovedData
<1>10. QED
  BY <1>7, <1>8, <1>9, OkDataIs

-----------------------------------------------------------------------------
(* The function pointers.                                                  *)

AllKinds == {"spi_v2", "spi_dual", "spi_bs", "bpi", "jtag", "i2c"}

\* Before the first shot nothing has moved.
LEMMA PreData ==
  ASSUME kind \in AllKinds, NEW d, HasData(d), NEW b, NEW o \in HandlePreBurst(d, b)
  PROVE  SameData(d, o.d)
<1>1. CASE kind \in SpiKinds
  <2>1. PICK x, y : x = ChipSelect(d, TRUE) /\ y = SpiDualSelect(d, TRUE)
    OBVIOUS
  <2>2. o = Ok(x) \/ o = Ok(y)
    BY <1>1, <2>1 DEF HandlePreBurst, SpiV2PreBurst, SpiDualPreBurst, SpiBsPreBurst, SpiKinds
  <2>3. SameData(d, x) /\ SameData(d, y)
    BY <2>1, SpiData
  <2>4. QED
    BY <2>2, <2>3, OkIs
<1>2. CASE kind = "bpi"
  BY <1>2, BpiPreData DEF HandlePreBurst
<1>3. CASE kind = "jtag"
  <2>1. o \in SetState(d, "RESET") \/ o = Ok(d)
    BY <1>3 DEF HandlePreBurst, JtagPreBurst
  <2>2. QED
    BY <2>1, SetStateData, SameDataItself, OkIs
<1>4. CASE kind = "i2c"
  BY <1>4, SameDataItself, OkIs DEF HandlePreBurst
<1>5. QED
  BY <1>1, <1>2, <1>3, <1>4 DEF AllKinds, SpiKinds

\* The controllers that notice it when a board is gone, and those that do not with a
\* board that is there.
Reaches(d) == kind \in {"spi_v2", "jtag", "i2c"} \/ ~d.gone

LEMMA WriteShotData ==
  ASSUME kind \in AllKinds, kind # "spi_v2", NEW d, HasData(d), NEW bytes, NEW s,
         NEW o \in WriteShotOf(d, bytes, s), o.ok
  PROVE  /\ HasData(o.d) /\ (Reaches(o.d) <=> Reaches(d))
         /\ Reaches(d) /\ (kind = "bpi" => DataOnly(d.ops) /\ Whole(bytes))
              => o.d.got = d.got \o bytes
<1>1. CASE kind \in {"spi_dual", "spi_bs"}
  <2>1. PICK x : x = Driven(d, bytes)
    OBVIOUS
  <2>2. o = Ok(x) \/ o = Err(d)
    BY <1>1, <2>1 DEF WriteShotOf, SpiDualWriteShot, SpiBsWriteShot
  <2>3. HasData(x) /\ x.gone = d.gone /\ (~d.gone => x.got = d.got \o bytes)
    BY <2>1, DrivenData
  <2>4. o.d = x
    BY <2>2, OkIs, ErrIs
  <2>5. QED
    BY <1>1, <2>3, <2>4 DEF Reaches
<1>2. CASE kind = "bpi"
  <2>1. PICK a : a = s.b.arg
    OBVIOUS
  <2>2. o \in BpiWriteShot(d, bytes, a)
    BY <1>2, <2>1 DEF WriteShotOf
  <2>3. /\ HasData(o.d) /\ o.d.gone = d.gone
        /\ ~d.gone /\ DataOnly(d.ops) /\ Whole(bytes) => o.d.got = d.got \o bytes
    BY <2>2, BpiWriteData
  <2>4. QED
    BY <1>2, <2>3 DEF Reaches
<1>3. CASE kind = "jtag"
  <2>1. PICK b : b = s.b
    OBVIOUS
  <2>2. o \in JtagWriteShot(d, bytes, b)
    BY <1>3, <2>1 DEF WriteShotOf
  <2>3. QED
    BY <1>3, <2>2, JtagWriteShotData DEF Reaches
<1>4. CASE kind = "i2c"
  <2>1. PICK c : c = WriteCmds(s.flags, s.first, s.final)
    OBVIOUS
  <2>2. o \in I2cWriteShot(d, bytes, c)
    BY <1>4, <2>1 DEF WriteShotOf
  <2>3. QED
    BY <1>4, <2>2, I2cWriteData DEF Reaches
<1>5. QED
  BY <1>1, <1>2, <1>3, <1>4 DEF AllKinds

LEMMA ReadShotData ==
  ASSUME kind \in AllKinds, kind \notin {"spi_v2", "bpi"}, NEW d, HasData(d), NEW n, NEW s,
         kind = "i2c" => n = 1, NEW o \in ReadShotOf(d, n, s), o.ok
  PROVE  /\ HasData(o.d) /\ (Reaches(o.d) <=> Reaches(d))
         /\ Reaches(d) => o.d.out = d.out + n /\ o.data = Positions(d.out, n)
<1>1. CASE kind \in {"spi_dual", "spi_bs"}
  <2>a. PICK x, y, z : /\ x = Answered(d, n) /\ y = Positions(d.out, n)
                       /\ z = [i \in 1 .. n |-> NoByte]
    OBVIOUS
  <2>1. o = Err(d) \/ o = IF d.gone THEN OkData(d, z) ELSE OkData(x, y)
    BY <1>1, <2>a DEF ReadShotOf, SpiDualReadShot, SpiBsReadShot, Sampled
  <2>2. HasData(x) /\ x.out = d.out + n /\ x.gone = d.gone
    BY <2>a, MovedData
  <2>3. CASE d.gone
    <3>1. o.d = d
      BY <2>1, <2>3, OkDataIs, ErrIs
    <3>2. QED
      BY <1>1, <2>3, <3>1 DEF Reaches
  <2>4. CASE ~d.gone
    <3>1. o.d = x /\ o.data = y
      BY <2>1, <2>4, OkDataIs, ErrIs
    <3>2. QED
      BY <1>1, <2>a, <2>2, <2>4, <3>1 DEF Reaches
  <2>5. QED
    BY <2>3, <2>4
<1>3. CASE kind = "jtag"
  <2>1. PICK b : b = s.b
    OBVIOUS
  <2>2. o \in JtagReadShot(d, n, b)
    BY <1>3, <2>1 DEF ReadShotOf
  <2>3. QED
    BY <1>3, <2>2, JtagReadShotData DEF Reaches
<1>4. CASE kind = "i2c"
  <2>1. PICK c : c = ReadCmds(s.flags, s.final)
    OBVIOUS
  <2>2. o \in I2cReadShot(d, c)
    BY <1>4, <2>1 DEF ReadShotOf
  <2>3. QED
    BY <1>4, <2>2, I2cReadData DEF Reaches
<1>5. QED
  BY <1>1, <1>3, <1>4 DEF AllKinds

\* The functions that only spi_v2 has leave the others as they are.
LEMMA OtherQueues ==
  ASSUME kind # "spi_v2", NEW d, NEW n, NEW o \in RequestReadOf(d, n) \cup WaitWrittenOf(d)
  PROVE  o.ok /\ o.d = d
  BY OkIs DEF RequestReadOf, WaitWrittenOf

-----------------------------------------------------------------------------
(* The bytes of a burst in order, and the shots it is cut into.            *)

LEMMA PositionsSeq ==
  ASSUME NEW a \in Nat, NEW n \in Nat
  PROVE  /\ Positions(a, n) \in Seq(Nat) /\ Len(Positions(a, n)) = n
         /\ DOMAIN Positions(a, n) = 1 .. n
         /\ \A i \in 1 .. n : Positions(a, n)[i] = a + i
  BY DEF Positions

LEMMA PositionsNone == Positions(0, 0) = <<>>
  BY DEF Positions

LEMMA PositionsJoin ==
  ASSUME NEW k \in Nat, NEW n \in Nat
  PROVE  Positions(0, k) \o Positions(k, n) = Positions(0, k + n)
<1>1. PICK p, q, r : p = Positions(0, k) /\ q = Positions(k, n) /\ r = Positions(0, k + n)
  OBVIOUS
<1>2. /\ p \in Seq(Nat) /\ Len(p) = k /\ \A i \in 1 .. k : p[i] = i
      /\ q \in Seq(Nat) /\ Len(q) = n /\ \A i \in 1 .. n : q[i] = k + i
      /\ r \in Seq(Nat) /\ Len(r) = k + n /\ \A i \in 1 .. k + n : r[i] = i
  <2>1. p = [i \in 1 .. k |-> 0 + i]
    BY <1>1 DEF Positions
  <2>2. q = [i \in 1 .. n |-> k + i]
    BY <1>1 DEF Positions
  <2>3. r = [i \in 1 .. (k + n) |-> 0 + i]
    BY <1>1 DEF Positions
  <2>4. p \in Seq(Nat) /\ Len(p) = k /\ \A i \in 1 .. k : p[i] = i
    BY <2>1
  <2>5. q \in Seq(Nat) /\ Len(q) = n /\ \A i \in 1 .. n : q[i] = k + i
    BY <2>2
  <2>6. r \in Seq(Nat) /\ Len(r) = k + n /\ \A i \in 1 .. k + n : r[i] = i
    BY <2>3
  <2>7. QED
    BY <2>4, <2>5, <2>6
<1>3. \A i \in 1 .. k + n : (p \o q)[i] = i
  BY <1>2
<1>4. p \o q \in Seq(Nat) /\ Len(p \o q) = k + n
  BY <1>2
<1>5. p \o q = r
  BY <1>2, <1>3, <1>4
<1>6. QED
  BY <1>1, <1>5

\* spi_v2: a shot picks all the bytes of the word that answers its request.
LEMMA ExtractAll ==
  ASSUME NEW a \in Nat, NEW n \in Nat
  PROVE  SpiV2Extract(Positions(a, n), n) = Positions(a, n)
<1>1. PICK p : p = Positions(a, n)
  OBVIOUS
<1>2. Len(p) = n /\ DOMAIN p = 1 .. n /\ p = [i \in 1 .. n |-> a + i]
  BY <1>1, PositionsSeq DEF Positions
<1>3. SpiV2Extract(p, n) = [i \in 1 .. n |-> p[i]]
  <2>1. \A i \in 1 .. n : Len(p) - n + i = i
    BY <1>2
  <2>2. QED
    BY <1>2, <2>1 DEF SpiV2Extract
<1>4. QED
  BY <1>1, <1>2, <1>3

\* What a queue holds for the n bytes from position a on.
Fits(tag, x, a, n) ==
  CASE tag = "write" -> x = [op |-> "write", bytes |-> Positions(a, n)]
    [] tag = "read"  -> x = [op |-> "read", n |-> n]
    [] tag = "word"  -> x = Positions(a, n)

\* The queue q holds the shots of m bytes that make up the positions from a to e of
\* a burst of len bytes; shot i of them begins at f[i - 1].
Linked(tag, q, f, len, m) ==
  \A i \in 1 .. Len(q) :
    /\ f[i - 1] < len
    /\ f[i] = f[i - 1] + Smaller(len - f[i - 1], m)
    /\ Fits(tag, q[i], f[i - 1], Smaller(len - f[i - 1], m))

Chain(tag, q, a, e, len, m) ==
  \E f \in [0 .. Len(q) -> Nat] : f[0] = a /\ f[Len(q)] = e /\ Linked(tag, q, f, len, m)

LEMMA ChainEmpty ==
  ASSUME NEW tag, NEW a \in Nat, NEW len, NEW m
  PROVE  Chain(tag, <<>>, a, a, len, m)
<1>1. PICK f : f = [i \in 0 .. 0 |-> a]
  OBVIOUS
<1>2. f \in [0 .. 0 -> Nat] /\ f[0] = a
  BY <1>1
<1>3. PICK q : q = <<>>
  OBVIOUS
<1>4. Len(q) = 0
  BY <1>3
<1>5. Linked(tag, q, f, len, m)
  BY <1>4 DEF Linked
<1>6. Chain(tag, q, a, a, len, m)
  BY <1>2, <1>4, <1>5 DEF Chain
<1>7. QED
  BY <1>3, <1>6

LEMMA ChainNone ==
  ASSUME NEW tag, NEW q, q = <<>>, NEW a, NEW e, NEW len, NEW m, Chain(tag, q, a, e, len, m)
  PROVE  a = e
<1>1. Len(q) = 0
  OBVIOUS
<1>2. QED
  BY <1>1 DEF Chain

LEMMA ChainAppend ==
  ASSUME NEW tag, NEW q, IsSeq(q), NEW a, NEW e \in Nat, NEW len \in Nat, NEW m \in Nat,
         Chain(tag, q, a, e, len, m), e < len, NEW n \in Nat, n = Smaller(len - e, m), NEW x,
         Fits(tag, x, e, n)
  PROVE  Chain(tag, Append(q, x), a, e + n, len, m)
<1>1. PICK k \in Nat : k = Len(q)
  BY LenSeq
<1>2. PICK f \in [0 .. k -> Nat] : f[0] = a /\ f[k] = e /\ Linked(tag, q, f, len, m)
  BY <1>1 DEF Chain
<1>3. PICK z : z = Append(q, x)
  OBVIOUS
<1>4. Len(z) = k + 1 /\ \A i \in 1 .. k + 1 : z[i] = IF i = k + 1 THEN x ELSE q[i]
  <2>1. PICK S : q \in Seq(S)
    BY DEF IsSeq
  <2>2. PICK T : T = S \cup {x}
    OBVIOUS
  <2>3. q \in Seq(T) /\ x \in T
    BY <2>1, <2>2
  <2>4. QED
    BY <1>1, <1>3, <2>3
<1>5. PICK g : g = [i \in 0 .. k + 1 |-> IF i = k + 1 THEN e + n ELSE f[i]]
  OBVIOUS
<1>6. g \in [0 .. k + 1 -> Nat] /\ g[k + 1] = e + n /\ \A i \in 0 .. k : g[i] = f[i]
  BY <1>2, <1>5
<1>7. g[0] = a /\ g[k] = e
  BY <1>2, <1>6
<1>8. ASSUME NEW i \in 1 .. k + 1
      PROVE  /\ g[i - 1] < len
             /\ g[i] = g[i - 1] + Smaller(len - g[i - 1], m)
             /\ Fits(tag, z[i], g[i - 1], Smaller(len - g[i - 1], m))
  <2>1. CASE i = k + 1
    <3>1. i - 1 = k /\ z[i] = x /\ g[i] = e + n
      BY <1>4, <1>6, <2>1
    <3>2. QED
      BY <1>7, <3>1
  <2>2. CASE i # k + 1
    <3>1. i \in 1 .. k /\ i - 1 \in 0 .. k /\ i \in 0 .. k
      BY <2>2
    <3>2. z[i] = q[i] /\ g[i] = f[i] /\ g[i - 1] = f[i - 1]
      BY <1>4, <1>6, <2>2, <3>1
    <3>3. QED
      BY <1>1, <1>2, <3>1, <3>2 DEF Linked
  <2>3. QED
    BY <2>1, <2>2
<1>9. Linked(tag, z, g, len, m)
  BY <1>4, <1>8 DEF Linked
<1>10. QED
  BY <1>3, <1>4, <1>6, <1>7, <1>9 DEF Chain

LEMMA ChainHead ==
  ASSUME NEW tag, NEW q, IsSeq(q), q # <<>>, NEW a, NEW e, NEW len \in Nat, NEW m \in Nat,
         Chain(tag, q, a, e, len, m)
  PROVE  /\ a \in Nat /\ a < len
         /\ Fits(tag, Head(q), a, Smaller(len - a, m))
         /\ Chain(tag, Tail(q), a + Smaller(len - a, m), e, len, m)
<1>1. PICK k \in Nat : Len(q) = k + 1
  <2>1. Len(q) \in Nat /\ Len(q) # 0
    BY LenSeq
  <2>2. QED
    BY <2>1, Len(q) - 1 \in Nat
<1>2. PICK f \in [0 .. k + 1 -> Nat] : f[0] = a /\ f[k + 1] = e /\ Linked(tag, q, f, len, m)
  BY <1>1 DEF Chain
<1>3. PICK z : z = Tail(q)
  OBVIOUS
<1>4. Len(z) = k /\ Head(q) = q[1] /\ \A i \in 1 .. k : z[i] = q[i + 1]
  <2>1. PICK S : q \in Seq(S)
    BY DEF IsSeq
  <2>2. QED
    BY <1>1, <1>3, <2>1
<1>5. PICK g : g = [i \in 0 .. k |-> f[i + 1]]
  OBVIOUS
<1>6. g \in [0 .. k -> Nat] /\ \A i \in 0 .. k : g[i] = f[i + 1]
  BY <1>2, <1>5
<1>7. \A i \in 1 .. k + 1 :
        /\ f[i - 1] < len
        /\ f[i] = f[i - 1] + Smaller(len - f[i - 1], m)
        /\ Fits(tag, q[i], f[i - 1], Smaller(len - f[i - 1], m))
  BY <1>1, <1>2 DEF Linked
<1>8. a \in Nat /\ a < len /\ f[1] = a + Smaller(len - a, m)
      /\ Fits(tag, q[1], a, Smaller(len - a, m))
  <2>1. 1 \in 1 .. k + 1 /\ 1 - 1 = 0
    OBVIOUS
  <2>2. QED
    BY <1>2, <1>7, <2>1
<1>9. ASSUME NEW i \in 1 .. k
      PROVE  /\ g[i - 1] < len
             /\ g[i] = g[i - 1] + Smaller(len - g[i - 1], m)
             /\ Fits(tag, z[i], g[i - 1], Smaller(len - g[i - 1], m))
  <2>1. i - 1 \in 0 .. k /\ i \in 0 .. k /\ i + 1 \in 1 .. k + 1 /\ i + 1 - 1 = i
        /\ i - 1 + 1 = i
    OBVIOUS
  <2>2. g[i - 1] = f[i] /\ g[i] = f[i + 1] /\ z[i] = q[i + 1]
    BY <1>4, <1>6, <2>1
  <2>3. QED
    BY <1>7, <2>1, <2>2
<1>10. Linked(tag, z, g, len, m)
  BY <1>4, <1>9 DEF Linked
<1>11. g[0] = f[1] /\ g[k] = e
  BY <1>2, <1>6
<1>12. Chain(tag, z, f[1], e, len, m)
  BY <1>4, <1>6, <1>10, <1>11 DEF Chain
<1>13. QED
  BY <1>3, <1>4, <1>8, <1>12

-----------------------------------------------------------------------------
(* What module Transfer sees of a burst.                                   *)

Size == IF InBurst THEN t.b.len ELSE 0
Bytes == IF ~InBurst THEN <<>> ELSE IF t.b.type = "write" THEN dev.got ELSE t.buf
Result == IF InBurst THEN "run" ELSE IF last.how = "ok" /\ Reached THEN "ok" ELSE "error"

Refines == [Promise!TransferNext]_(Promise!tvars)

LEMMA StutterStep ==
  ASSUME Size' = Size, Bytes' = Bytes, Result' = Result
  PROVE  Refines
  BY DEF Refines, Promise!tvars, Size, Bytes, Result

LEMMA OtherStep ==
  ASSUME ~InBurst, ~InBurst'
  PROVE  Refines
<1>1. Size = 0 /\ Size' = 0 /\ Bytes' = Bytes /\ Result' \in {"ok", "error"}
  BY DEF Size, Bytes, Result
<1>2. Promise!Other
  BY <1>1 DEF Promise!Other, Size, Bytes, Result
<1>3. QED
  BY <1>2 DEF Refines, Promise!TransferNext

LEMMA StartStep ==
  ASSUME ~InBurst, InBurst', t'.b.len \in 1 .. LongestBurst, Bytes' = <<>>
  PROVE  Refines
<1>1. Size = 0 /\ Size' \in 1 .. LongestBurst /\ Bytes' = <<>> /\ Result' = "run"
  BY DEF Size, Result
<1>2. Promise!Start
  BY <1>1 DEF Promise!Start, Size, Bytes, Result
<1>3. QED
  BY <1>2 DEF Refines, Promise!TransferNext

LEMMA MoveStep ==
  ASSUME InBurst, InBurst', NEW len \in Nat, t.b.len = len, t'.b.len = len,
         NEW k \in Nat, NEW n \in Nat, n > 0, k + n <= len,
         Bytes = Positions(0, k), Bytes' = Positions(0, k) \o Positions(k, n)
  PROVE  Refines
<1>1. Size = len /\ Size' = len /\ Result' = Result
  BY DEF Size, Result
<1>2. Len(Bytes) = k
  BY PositionsSeq
<1>3. Bytes' = Bytes \o [i \in 1 .. n |-> Len(Bytes) + i] /\ n \in 1 .. (Size - Len(Bytes))
  BY <1>1, <1>2 DEF Positions
<1>4. Size > 0
  BY <1>1
<1>5. Promise!Move
  BY <1>1, <1>3, <1>4 DEF Promise!Move, Size, Bytes, Result
<1>6. QED
  BY <1>5 DEF Refines, Promise!TransferNext

LEMMA ReturnStep ==
  ASSUME InBurst, ~InBurst', t.b.len \in Nat, t.b.len > 0,
         Result' = "ok" => Len(Bytes) = t.b.len
  PROVE  Refines
<1>1. /\ Size > 0 /\ Size' = 0 /\ Bytes' = <<>>
      /\ \/ Result' = "ok" /\ Len(Bytes) = Size
         \/ Result' = "error"
  BY DEF Size, Bytes, Result
<1>2. Promise!Return
  BY <1>1 DEF Promise!Return, Size, Bytes, Result
<1>3. QED
  BY <1>2 DEF Refines, Promise!TransferNext

-----------------------------------------------------------------------------
(* Where the bytes of a burst are.                                         *)

\* spi_v2, writes: the target has the first k bytes, and as long as the board is there
\* the queue holds the others that have been written; it is empty at the end.
QueuedWrites(d, s) ==
  \E k \in Nat :
    /\ d.got = Positions(0, k)
    /\ ~d.gone => Chain("write", d.cmds, k, s.b.len - s.rem, s.b.len, L.maxWrite)
    /\ s.pc = "post" \/ (s.pc = "write" /\ s.queued % L.writeQueue = 0)
         => k = s.b.len - s.rem

\* bpi: the one shot of a data write.
OneShot(d, s) ==
  kind = "bpi" /\ s.rem > 0 => d.ops = s.b.flags /\ s.rem = s.b.len

WriteMoves(d, s) ==
  /\ s.rem <= s.b.len /\ (s.pc \in {"drain", "post"} => s.rem = 0)
  /\ OneShot(d, s)
  /\ kind # "spi_v2" => d.got = Positions(0, s.b.len - s.rem)
  /\ kind = "spi_v2" => QueuedWrites(d, s)

\* spi_v2, reads: the words that have been answered follow the bytes that have been
\* read, and the requests that are queued follow those words.
QueuedReads(d, s) ==
  /\ d.out \in Nat
  /\ Chain("word", d.words, s.b.len - (s.req + s.rd), d.out, s.b.len, L.maxRead)
  /\ Chain("read", d.cmds, d.out, s.b.len - s.req, s.b.len, L.maxRead)

ReadMoves(d, s) ==
  /\ s.req + s.rd <= s.b.len /\ (s.pc = "post" => s.req + s.rd = 0)
  /\ s.buf = Positions(0, s.b.len - (s.req + s.rd))
  /\ kind # "spi_v2" => d.out = s.b.len - (s.req + s.rd)
  /\ kind = "spi_v2" => (~d.gone => QueuedReads(d, s))

DataState(d, s) ==
  /\ s.b.type = "write" => WriteMoves(d, s)
  /\ s.b.type = "read" /\ kind # "bpi" => ReadMoves(d, s)

DataInv == InBurst => DataState(dev, t)

LEMMA DataIntro ==
  ASSUME kind' = kind, InBurst' => DataState(dev', t')
  PROVE  DataInv'
<1>1. L' = L
  BY DEF L
<1>2. InBurst' => DataState(dev, t)'
  BY <1>1, Zenon DEF DataState, WriteMoves, ReadMoves, OneShot, QueuedWrites, QueuedReads
<1>3. QED
  BY <1>2, Zenon DEF DataInv

\* The burst s, on the device d, is one with a promise.
Promised(s, d) == s.pc \in BurstPcs /\ MovesAll(s.b) /\ Reaches(d)

LEMMA Basics ==
  ASSUME Flow
  PROVE  /\ kind \in Kinds /\ kind \in AllKinds /\ TypeOK
         /\ InBurst <=> Promised(t, dev)
         /\ t.pc \in BurstPcs =>
              /\ t.b.len \in Nat /\ t.b.len > 0 /\ t.b.len <= LongestBurst
              /\ t.b.type \in {"write", "read"}
         /\ t.rem \in Nat /\ t.queued \in Nat /\ t.req \in Nat /\ t.rd \in Nat
         /\ t.pc \in {"none", "next"} \cup BurstPcs
<1>1. kind \in Kinds /\ TypeOK /\ Shaped(t) /\ UnderWay
  BY DEF Flow, TypeOK
<1>2. kind \in AllKinds
  BY <1>1, TransactionsAssumption DEF AllKinds
<1>3. /\ t.rem \in Nat /\ t.queued \in Nat /\ t.req \in Nat /\ t.rd \in Nat
      /\ t.pc \in {"none", "next"} \cup BurstPcs
  BY <1>1 DEF Shaped
<1>4. ASSUME t.pc \in BurstPcs
      PROVE  /\ t.b.len \in Nat /\ t.b.len > 0 /\ t.b.len <= LongestBurst
             /\ t.b.type \in {"write", "read"}
  <2>1. t.b \in Bursts(kind) /\ t.b.len > 0 /\ t.b.type \in {"write", "read"}
    BY <1>1, <1>4 DEF UnderWay
  <2>2. t.b.len \in 0 .. LongestBurst /\ LongestBurst \in Nat
    BY <1>1, <2>1, TransactionsAssumption
  <2>3. QED
    BY <2>1, <2>2
<1>5. InBurst <=> Promised(t, dev)
  <2>1. t.pc \notin {"none", "next"} <=> t.pc \in BurstPcs
    BY <1>3 DEF BurstPcs
  <2>2. QED
    BY <2>1 DEF InBurst, Promised, Reached, Reaches
<1>6. QED
  BY <1>1, <1>2, <1>3, <1>4, <1>5

\* The same, after a step.
LEMMA BasicsNext ==
  ASSUME Flow', kind' = kind
  PROVE  /\ InBurst' <=> Promised(t', dev')
         /\ t'.pc \in {"none", "next"} \cup BurstPcs
<1>1. t'.pc \in {"none", "next"} \cup BurstPcs
  BY DEF Flow, TypeOK, Shaped
<1>2. t'.pc \notin {"none", "next"} <=> t'.pc \in BurstPcs
  BY <1>1 DEF BurstPcs
<1>3. L' = L
  BY DEF L
<1>4. MovesAll(t.b)' <=> MovesAll(t'.b)
  BY <1>3 DEF MovesAll
<1>5. Reached' <=> Reaches(dev')
  BY DEF Reached, Reaches
<1>6. InBurst' <=> Promised(t', dev')
  BY <1>2, <1>4, <1>5 DEF InBurst, Promised
<1>7. QED
  BY <1>1, <1>6

LEMMA DeviceHasData ==
  ASSUME Devices, kind \in AllKinds
  PROVE  HasData(dev)
<1>1. CASE kind \in SpiKinds
  BY <1>1 DEF Devices, SpiInv, SpiGood, SpiShape, HasData
<1>2. CASE kind = "bpi"
  BY <1>2 DEF Devices, BpiGood, BpiShape, HasData
<1>3. CASE kind = "jtag"
  BY <1>3 DEF Devices, JtagGood, JtagShape, HasData
<1>4. CASE kind = "i2c"
  BY <1>4 DEF Devices, I2cInv, I2cGood, I2cShape, HasData
<1>5. QED
  BY <1>1, <1>2, <1>3, <1>4 DEF AllKinds, SpiKinds

\* What every step of the proof establishes.
Moves == DataInv' /\ Refines

\* A burst that is aborted returns with an error.
LEMMA AbortMoves ==
  ASSUME Flow, Flow', t.pc \in BurstPcs, NEW d, Abort(d)
  PROVE  Moves
<1>1. t'.pc = "none" /\ kind' = kind /\ last'.how = "error"
  BY QuietShaped DEF Abort, Fail
<1>2. t'.pc \notin BurstPcs
  BY <1>1 DEF BurstPcs
<1>4. ~InBurst'
  BY <1>1, <1>2, BasicsNext DEF Promised
<1>3. DataInv'
  BY <1>1, <1>4, DataIntro
<1>5. t.b.len \in Nat /\ t.b.len > 0
  BY Basics
<1>6. CASE InBurst
  <2>1. Result' # "ok"
    BY <1>1, <1>4 DEF Result
  <2>2. QED
    BY <1>3, <1>4, <1>5, <1>6, <2>1, ReturnStep DEF Moves
<1>7. CASE ~InBurst
  BY <1>3, <1>4, <1>7, OtherStep DEF Moves
<1>8. QED
  BY <1>6, <1>7

\* Between bursts.
LEMMA OutsideMoves ==
  ASSUME Flow, Flow', kind' = kind, t.pc \in {"none", "next"}, t'.pc \in {"none", "next"}
  PROVE  Moves
<1>1. t.pc \notin BurstPcs /\ t'.pc \notin BurstPcs
  BY DEF BurstPcs
<1>2. ~InBurst /\ ~InBurst'
  BY <1>1, Basics, BasicsNext DEF Promised
<1>3. QED
  BY <1>2, DataIntro, OtherStep DEF Moves

\* A burst with a promise goes on, and nothing of it has moved.
LEMMA SameMoves ==
  ASSUME Flow, Flow', kind' = kind, InBurst, InBurst', t'.b = t.b,
         t.b.type = "write" => dev'.got = dev.got,
         t.b.type = "read" => t'.buf = t.buf
  PROVE  Refines
<1>1. t.b.type = "write" \/ t.b.type = "read"
  BY Basics DEF Promised
<1>2. Size' = Size /\ Result' = Result /\ Bytes' = Bytes
  BY <1>1 DEF Size, Bytes, Result
<1>3. QED
  BY <1>2, StutterStep

\* A burst without a promise gets none while it goes on.
LEMMA UnpromisedMoves ==
  ASSUME Flow, Flow', kind' = kind, t.pc \in BurstPcs, t'.b = t.b, ~InBurst,
         MovesAll(t.b) /\ Reaches(dev') => Reaches(dev)
  PROVE  Moves
<1>1. ~InBurst'
  BY Basics, BasicsNext DEF Promised
<1>2. QED
  BY <1>1, DataIntro, OtherStep DEF Moves

\* A burst with a promise keeps it while it goes on and the board is there, or missed.
LEMMA PromiseKept ==
  ASSUME Flow, Flow', kind' = kind, InBurst, t'.pc \in BurstPcs, t'.b = t.b, Reaches(dev')
  PROVE  InBurst'
  BY Basics, BasicsNext DEF Promised

\* The first step of a burst.
LEMMA StartMoves ==
  ASSUME Flow, Flow', Devices, StartBurst
  PROVE  Moves
<1>0. kind \in Kinds /\ kind \in AllKinds /\ TypeOK /\ HasData(dev)
  BY Basics, DeviceHasData
<1>1. /\ t.pc = "next" /\ burst.type \in {"write", "read"} /\ burst.len > 0
      /\ burst \in Bursts(kind)
  BY <1>0, StartEffect
<1>2. PICK len \in 1 .. LongestBurst : len = burst.len
  <2>1. burst.len \in 0 .. LongestBurst /\ LongestBurst \in Nat
    BY <1>0, <1>1, TransactionsAssumption
  <2>2. QED
    BY <1>1, <2>1
<1>3. PICK d : d = [dev EXCEPT !.got = <<>>, !.out = 0]
  OBVIOUS
<1>4. HasData(d) /\ d.got = <<>> /\ d.out = 0
  BY <1>0, <1>3 DEF HasData
<1>5. PICK o \in HandlePreBurst(d, burst) :
        \/ \E e : Fail(e, burst, "error")
        \/ dev' = o.d /\ Begun(t', burst) /\ UNCHANGED <<kind, last>>
  BY <1>0, <1>3, StartEffect
<1>6. CASE \E e : Fail(e, burst, "error")
  <2>1. kind' = kind /\ t'.pc = "none"
    BY <1>6, QuietShaped DEF Fail
  <2>2. QED
    BY <1>1, <2>1, OutsideMoves
<1>7. CASE dev' = o.d /\ Begun(t', burst) /\ UNCHANGED <<kind, last>>
  <2>1. SameData(d, dev')
    BY <1>0, <1>4, <1>5, <1>7, PreData
  <2>2. dev'.got = <<>> /\ dev'.out = 0
    BY <1>4, <2>1 DEF SameData
  <2>3. PICK b : b = burst
    OBVIOUS
  <2>4. /\ t'.b = b /\ t'.pc = (IF b.type = "write" THEN "write" ELSE "request")
        /\ t'.rem = len /\ t'.req = len /\ t'.rd = 0 /\ t'.queued = 0 /\ t'.buf = <<>>
        /\ b.len = len /\ b.type \in {"write", "read"}
    BY <1>1, <1>2, <1>7, <2>3 DEF Begun
  <2>a. kind = "bpi" => dev'.ops = b.flags
    <3>1. SUFFICES ASSUME kind = "bpi" PROVE dev'.ops = b.flags
      OBVIOUS
    <3>2. BpiShape(dev)
      BY <3>1 DEF Devices, BpiGood
    <3>3. "ops" \in DOMAIN d
      BY <1>3, <3>2 DEF BpiShape
    <3>4. PICK f : f = burst.flags
      OBVIOUS
    <3>5. o \in BpiPreBurst(d, f)
      BY <1>5, <3>1, <3>4 DEF HandlePreBurst
    <3>6. o.d.ops = f
      BY <1>4, <3>3, <3>5, BpiPreData
    <3>7. QED
      BY <1>7, <2>3, <3>4, <3>6
  <2>5. len - len = 0 /\ len + 0 = len /\ len - (len + 0) = 0
    OBVIOUS
  <2>6. kind = "spi_v2" /\ ~dev'.gone => dev'.cmds = <<>> /\ dev'.words = <<>>
    <3>1. SUFFICES ASSUME kind = "spi_v2", ~dev'.gone PROVE dev'.cmds = <<>> /\ dev'.words = <<>>
      OBVIOUS
    <3>2. SpiShape(dev) /\ QueueInv
      BY <3>1 DEF Devices, SpiInv, SpiGood, SpiKinds
    <3>3. SpiShape(d) /\ SameQueues(dev, d)
      BY <1>3, <3>2 DEF SpiShape, SameQueues
    <3>4. PICK e : e = ChipSelect(d, TRUE)
      OBVIOUS
    <3>5. dev' = e
      <4>1. o = Ok(e)
        BY <1>5, <3>1, <3>4 DEF HandlePreBurst, SpiV2PreBurst
      <4>2. QED
        BY <1>7, <4>1, OkIs
    <3>6. SameQueues(d, dev')
      BY <3>3, <3>4, <3>5, V2Select
    <3>7. ~dev.gone /\ t.pc \notin BurstPcs
      BY <1>1, <3>1, <3>3, <3>6 DEF SameQueues, BurstPcs
    <3>8. dev.cmds = <<>> /\ dev.words = <<>>
      BY <3>2, <3>7 DEF QueueInv, QueueState
    <3>9. QED
      BY <3>3, <3>6, <3>8 DEF SameQueues
  <2>7. DataState(dev', t')
    <3>1. CASE b.type = "write"
      <4>1. kind = "spi_v2" /\ ~dev'.gone =>
              Chain("write", dev'.cmds, 0, 0, len, L.maxWrite)
        BY <2>6, ChainEmpty
      <4>2. kind = "spi_v2" => QueuedWrites(dev', t')
        <5>1. dev'.got = Positions(0, 0) /\ 0 \in Nat
          BY <2>2, PositionsNone
        <5>2. t'.b.len - t'.rem = 0 /\ t'.b.len = len
          BY <2>4, <2>5
        <5>3. QED
          BY <4>1, <5>1, <5>2 DEF QueuedWrites
      <4>3. OneShot(dev', t')
        BY <2>4, <2>a DEF OneShot
      <4>4. WriteMoves(dev', t')
        BY <2>2, <2>4, <2>5, <3>1, <4>2, <4>3, PositionsNone DEF WriteMoves
      <4>5. QED
        BY <2>4, <3>1, <4>4 DEF DataState
    <3>2. CASE b.type = "read"
      <4>1. t'.b.len - (t'.req + t'.rd) = 0 /\ t'.b.len - t'.req = 0 /\ t'.b.len = len
        BY <2>4, <2>5
      <4>2. kind = "spi_v2" /\ ~dev'.gone => QueuedReads(dev', t')
        <5>1. kind = "spi_v2" /\ ~dev'.gone =>
                /\ Chain("word", dev'.words, 0, 0, len, L.maxRead)
                /\ Chain("read", dev'.cmds, 0, 0, len, L.maxRead)
          BY <2>6, ChainEmpty
        <5>2. QED
          BY <2>2, <4>1, <5>1 DEF QueuedReads
      <4>3. ReadMoves(dev', t')
        BY <2>2, <2>4, <2>5, <3>2, <4>1, <4>2, PositionsNone DEF ReadMoves
      <4>4. QED
        BY <2>4, <3>2, <4>3 DEF DataState
    <3>3. QED
      BY <2>4, <3>1, <3>2
  <2>8. DataInv'
    BY <1>7, <2>7, DataIntro
  <2>9. ~InBurst
    BY <1>1, Basics DEF BurstPcs, Promised
  <2>10. CASE InBurst'
    <3>1. Bytes' = <<>>
      BY <2>2, <2>4, <2>10 DEF Bytes
    <3>2. t'.b.len \in 1 .. LongestBurst
      BY <2>4
    <3>3. QED
      BY <2>8, <2>9, <2>10, <3>1, <3>2, StartStep DEF Moves
  <2>11. CASE ~InBurst'
    BY <2>8, <2>9, <2>11, OtherStep DEF Moves
  <2>12. QED
    BY <2>10, <2>11
<1>8. QED
  BY <1>5, <1>6, <1>7

\* One more shot is written, or queued.
LEMMA WriteMovesOn ==
  ASSUME Flow, Flow', Devices, DataInv, WriteShot
  PROVE  Moves
<1>0. /\ kind \in Kinds /\ kind \in AllKinds /\ TypeOK /\ HasData(dev) /\ t.pc = "write"
      /\ t.pc \in BurstPcs /\ t.b.type = "write"
  <2>1. t.pc = "write"
    BY DEF WriteShot
  <2>2. kind \in Kinds /\ kind \in AllKinds /\ TypeOK
    BY Basics
  <2>3. t.pc \in BurstPcs /\ t.b.type = "write"
    BY <2>1 DEF Flow, UnderWay, BurstPcs
  <2>4. HasData(dev)
    BY <2>2, DeviceHasData
  <2>5. QED
    BY <2>1, <2>2, <2>3, <2>4
<1>a. PICK s : \E n \in Nat : \E o \in WriteShotOf(dev, Positions(t.b.len - t.rem, n), s) :
        /\ n = Smaller(t.rem, L.maxWrite) /\ n > 0 /\ n <= t.rem
        /\ \/ ~o.ok /\ Abort(o.d)
           \/ /\ o.ok /\ dev' = o.d /\ Stays
              /\ At(t', IF (t.queued + 1) % L.writeQueue = 0 THEN "wait" ELSE "write")
              /\ t'.queued = t.queued + 1 /\ t'.rem = t.rem - n
  BY <1>0, WriteEffect
<1>b. PICK n \in Nat : \E o \in WriteShotOf(dev, Positions(t.b.len - t.rem, n), s) :
        /\ n = Smaller(t.rem, L.maxWrite) /\ n > 0 /\ n <= t.rem
        /\ \/ ~o.ok /\ Abort(o.d)
           \/ /\ o.ok /\ dev' = o.d /\ Stays
              /\ At(t', IF (t.queued + 1) % L.writeQueue = 0 THEN "wait" ELSE "write")
              /\ t'.queued = t.queued + 1 /\ t'.rem = t.rem - n
  BY <1>a
<1>1. PICK o \in WriteShotOf(dev, Positions(t.b.len - t.rem, n), s) :
        /\ n = Smaller(t.rem, L.maxWrite) /\ n > 0 /\ n <= t.rem
        /\ \/ ~o.ok /\ Abort(o.d)
           \/ /\ o.ok /\ dev' = o.d /\ Stays
              /\ At(t', IF (t.queued + 1) % L.writeQueue = 0 THEN "wait" ELSE "write")
              /\ t'.queued = t.queued + 1 /\ t'.rem = t.rem - n
  BY <1>b
<1>2. CASE Abort(o.d)
  BY <1>0, <1>2, AbortMoves
<1>3. CASE /\ o.ok /\ dev' = o.d /\ Stays
           /\ At(t', IF (t.queued + 1) % L.writeQueue = 0 THEN "wait" ELSE "write")
           /\ t'.queued = t.queued + 1 /\ t'.rem = t.rem - n
  <2>1. PICK len \in Nat, rem \in Nat : len = t.b.len /\ rem = t.rem
    BY <1>0, Basics
  <2>a. t'.b = t.b /\ t'.pc \in BurstPcs /\ kind' = kind /\ last' = last
    BY <1>3 DEF At, Stays, BurstPcs
  <2>b. Reaches(dev') <=> Reaches(dev)
    <3>1. CASE kind = "spi_v2"
      BY <3>1 DEF Reaches
    <3>2. CASE kind # "spi_v2"
      <4>1. PICK x : x = Positions(t.b.len - t.rem, n)
        OBVIOUS
      <4>2. o \in WriteShotOf(dev, x, s)
        BY <1>1, <4>1
      <4>3. Reaches(o.d) <=> Reaches(dev)
        BY <1>0, <1>3, <3>2, <4>2, WriteShotData
      <4>4. QED
        BY <1>3, <4>3
    <3>3. QED
      BY <3>1, <3>2
  <2>c. CASE ~InBurst
    BY <1>0, <2>a, <2>b, <2>c, UnpromisedMoves
  <2>d. SUFFICES ASSUME InBurst PROVE Moves
    BY <2>c
  <2>e. MovesAll(t.b) /\ Reaches(dev) /\ Reaches(dev')
    BY <2>b, <2>d, Basics DEF Promised
  <2>2. rem <= len /\ WriteMoves(dev, t) /\ rem > 0 /\ n <= rem
    BY <1>0, <1>1, <2>1, <2>d DEF DataInv, DataState, WriteMoves
  <2>3. PICK e \in Nat : e = len - rem
    BY <2>2
  <2>4. e + n \in Nat /\ len - (rem - n) = e + n /\ e + n <= len /\ e < len /\ len - e = rem
    BY <2>2, <2>3
  <2>5. /\ t'.b = t.b /\ t'.rem = rem - n /\ t'.pc \in {"wait", "write"} /\ t'.pc \in BurstPcs
        /\ t'.b.len = len /\ kind' = kind /\ last' = last
        /\ (t'.pc = "write" => t'.queued % L.writeQueue # 0)
    BY <1>3, <2>1 DEF At, Stays, BurstPcs
  <2>6. rem - n <= len
    BY <2>2
  <2>7. InBurst /\ InBurst'
    BY <2>5, <2>d, <2>e, PromiseKept
  <2>8. CASE kind # "spi_v2"
    <3>1. dev.got = Positions(0, e)
      BY <2>1, <2>2, <2>3, <2>8 DEF WriteMoves
    <3>2. PICK x : x = Positions(e, n)
      OBVIOUS
    <3>3. o \in WriteShotOf(dev, x, s)
      BY <1>1, <2>1, <2>3, <3>2
    <3>a. kind = "bpi" => DataOnly(dev.ops) /\ Whole(x) /\ t'.rem = 0
      <4>1. SUFFICES ASSUME kind = "bpi" PROVE DataOnly(dev.ops) /\ Whole(x) /\ t'.rem = 0
        OBVIOUS
      <4>2. dev.ops = t.b.flags /\ rem = len
        BY <2>1, <2>2, <4>1 DEF WriteMoves, OneShot
      <4>3. DataOnly(t.b.flags) /\ len % 2 = 0 /\ len <= L.maxWrite
        BY <2>1, <2>e, <4>1 DEF MovesAll, DataOnly
      <4>4. n = len
        BY <1>1, <2>1, <4>2, <4>3 DEF Smaller
      <4>5. Whole(x)
        BY <3>2, <4>3, <4>4, EvenIsWhole
      <4>6. QED
        BY <2>5, <4>2, <4>3, <4>4, <4>5
    <3>4. dev'.got = Positions(0, e) \o x
      <4>1. HasData(dev) /\ kind \in AllKinds /\ kind # "spi_v2" /\ o.ok
        BY <1>0, <1>3, <2>8
      <4>2. o.d.got = dev.got \o x
        BY <2>e, <3>3, <3>a, <4>1, WriteShotData
      <4>3. QED
        BY <1>3, <3>1, <4>2
    <3>5. dev'.got = Positions(0, e + n)
      BY <3>2, <3>4, PositionsJoin
    <3>6. WriteMoves(dev', t')
      <4>1. OneShot(dev', t')
        BY <3>a DEF OneShot
      <4>2. QED
        BY <2>4, <2>5, <2>6, <2>8, <3>5, <4>1 DEF WriteMoves
    <3>7. DataInv'
      BY <1>0, <2>5, <3>6, DataIntro DEF DataState
    <3>8. Bytes = Positions(0, e) /\ Bytes' = Positions(0, e) \o Positions(e, n)
      BY <1>0, <2>5, <2>7, <3>1, <3>2, <3>4 DEF Bytes
    <3>9. Refines
      BY <1>1, <2>1, <2>4, <2>5, <2>7, <3>8, MoveStep
    <3>10. QED
      BY <3>7, <3>9 DEF Moves
  <2>9. CASE kind = "spi_v2"
    <3>1. SpiShape(dev) /\ Queues(dev)
      BY <2>9 DEF Devices, SpiInv, SpiGood, SpiKinds, QueueInv
    <3>2. PICK c : c = [op |-> "write", bytes |-> Positions(e, n)]
      OBVIOUS
    <3>3. PICK g : g = SpiV2Queue(dev, c)
      OBVIOUS
    <3>4. dev' = g
      <4>1. PICK x : x = Positions(e, n)
        OBVIOUS
      <4>2. o \in SpiV2WriteShot(dev, x)
        <5>1. o \in WriteShotOf(dev, x, s)
          BY <1>1, <2>1, <2>3, <4>1
        <5>2. QED
          BY <2>9, <5>1 DEF WriteShotOf
      <4>3. o = Ok(g)
        BY <3>2, <3>3, <4>1, <4>2 DEF SpiV2WriteShot
      <4>4. QED
        BY <1>3, <4>3, OkIs
    <3>5. dev'.gone = dev.gone /\ dev'.got = dev.got
          /\ (~dev.gone => dev'.cmds = Append(dev.cmds, c))
      BY <3>1, <3>3, <3>4 DEF SpiShape, SpiV2Queue
    <3>6. PICK k \in Nat :
            /\ dev.got = Positions(0, k)
            /\ ~dev.gone => Chain("write", dev.cmds, k, e, len, L.maxWrite)
      BY <2>1, <2>2, <2>3, <2>9 DEF WriteMoves, QueuedWrites
    <3>7. ~dev'.gone => Chain("write", dev'.cmds, k, e + n, len, L.maxWrite)
      <4>1. SUFFICES ASSUME ~dev.gone PROVE Chain("write", dev'.cmds, k, e + n, len, L.maxWrite)
        BY <3>5
      <4>2. IsSeq(dev.cmds)
        BY <3>1 DEF Queues
      <4>3. Fits("write", c, e, n)
        BY <3>2 DEF Fits
      <4>4. PICK m \in Nat : m = L.maxWrite
        BY <1>0, LimitsTyped
      <4>5. n = Smaller(len - e, m)
        BY <1>1, <2>1, <2>4, <4>4
      <4>6. Chain("write", Append(dev.cmds, c), k, e + n, len, m)
        BY <2>4, <3>6, <4>1, <4>2, <4>3, <4>4, <4>5, ChainAppend
      <4>7. QED
        BY <3>5, <4>1, <4>4, <4>6
    <3>8. QueuedWrites(dev', t')
      <4>1. t'.b.len - t'.rem = e + n
        BY <2>4, <2>5
      <4>2. t'.pc # "post" /\ ~(t'.pc = "write" /\ t'.queued % L.writeQueue = 0)
        BY <2>5
      <4>3. QED
        BY <2>5, <3>5, <3>6, <3>7, <4>1, <4>2 DEF QueuedWrites
    <3>9. WriteMoves(dev', t')
      BY <2>5, <2>6, <2>9, <3>8 DEF WriteMoves, OneShot
    <3>10. DataInv'
      BY <1>0, <2>5, <3>9, DataIntro DEF DataState
    <3>11. Refines
      BY <1>0, <2>5, <2>7, <3>5, SameMoves
    <3>12. QED
      BY <3>10, <3>11 DEF Moves
  <2>10. QED
    BY <2>8, <2>9
<1>4. QED
  BY <1>1, <1>2, <1>3

\* The queue has run empty.
LEMMA WaitMoves ==
  ASSUME Flow, Flow', Devices, DataInv, WaitQueueEmpty \/ DrainQueue
  PROVE  Moves
<1>0. kind \in Kinds /\ kind \in AllKinds /\ TypeOK
  BY Basics
<1>1. PICK o \in WaitWrittenOf(dev) :
        \/ ~o.ok /\ Abort(o.d)
        \/ /\ o.ok /\ dev' = o.d /\ Stays
           /\ At(t', IF t.pc = "wait" THEN "write" ELSE "post")
           /\ t'.rem = t.rem /\ t'.queued = t.queued
  BY <1>0, WaitEffect
<1>2. t.pc \in {"wait", "drain"} /\ t.pc \in BurstPcs /\ t.b.type = "write"
  BY <1>0, WaitEffect DEF Flow, UnderWay, BurstPcs
<1>3. CASE Abort(o.d)
  BY <1>2, <1>3, AbortMoves
<1>4. CASE /\ o.ok /\ dev' = o.d /\ Stays
           /\ At(t', IF t.pc = "wait" THEN "write" ELSE "post")
           /\ t'.rem = t.rem /\ t'.queued = t.queued
  <2>1. dev' = dev /\ (kind = "spi_v2" => ~dev.gone /\ dev.cmds = <<>>)
    <3>1. CASE kind # "spi_v2"
      BY <1>4, <3>1, OtherQueues
    <3>2. CASE kind = "spi_v2"
      BY <1>1, <1>4, <3>2, OkIs, ErrIs DEF WaitWrittenOf, SpiV2WaitWritten
    <3>3. QED
      BY <3>1, <3>2
  <2>2. /\ t'.b = t.b /\ t'.rem = t.rem /\ t'.pc \in BurstPcs /\ kind' = kind /\ last' = last
        /\ (t.pc = "wait" => t'.pc = "write") /\ (t.pc = "drain" => t'.pc = "post")
    BY <1>2, <1>4 DEF At, Stays, BurstPcs
  <2>a. Reaches(dev') <=> Reaches(dev)
    BY <2>1
  <2>b. CASE ~InBurst
    BY <1>2, <2>2, <2>a, <2>b, UnpromisedMoves
  <2>c. SUFFICES ASSUME InBurst PROVE Moves
    BY <2>b
  <2>d. InBurst'
    BY <2>2, <2>a, <2>c, Basics, PromiseKept DEF Promised
  <2>3. WriteMoves(dev, t)
    BY <1>2, <2>c DEF DataInv, DataState
  <2>4. kind = "spi_v2" => QueuedWrites(dev', t')
    <3>1. SUFFICES ASSUME kind = "spi_v2" PROVE QueuedWrites(dev', t')
      OBVIOUS
    <3>2. PICK k \in Nat :
            /\ dev.got = Positions(0, k)
            /\ ~dev.gone => Chain("write", dev.cmds, k, t.b.len - t.rem, t.b.len, L.maxWrite)
      BY <2>3, <3>1 DEF WriteMoves, QueuedWrites
    <3>3. k = t.b.len - t.rem
      BY <2>1, <3>1, <3>2, ChainNone
    <3>4. QED
      BY <2>1, <2>2, <3>2, <3>3 DEF QueuedWrites
  <2>5. WriteMoves(dev', t')
    BY <1>2, <2>1, <2>2, <2>3, <2>4 DEF WriteMoves, OneShot
  <2>6. DataInv'
    BY <1>2, <2>2, <2>5, DataIntro DEF DataState
  <2>7. Refines
    BY <1>2, <2>1, <2>2, <2>c, <2>d, SameMoves
  <2>8. QED
    BY <2>6, <2>7 DEF Moves
<1>5. QED
  BY <1>1, <1>3, <1>4

\* The ends of the loops.
LEMMA DoneMoves ==
  ASSUME Flow, Flow', Devices, DataInv, WriteDone \/ RequestsQueued \/ ReadDone
  PROVE  Moves
<1>0. kind \in Kinds /\ kind \in AllKinds /\ TypeOK
      /\ t.rem \in Nat /\ t.queued \in Nat /\ t.req \in Nat /\ t.rd \in Nat
  BY Basics
<1>1. /\ dev' = dev /\ Stays
      /\ t'.rem = t.rem /\ t'.queued = t.queued /\ t'.req = t.req /\ t'.rd = t.rd
      /\ t'.buf = t.buf
  BY <1>0, DoneEffect
<1>2. t'.b = t.b /\ t.pc \in BurstPcs /\ t'.pc \in BurstPcs /\ kind' = kind /\ last' = last
  <2>1. t.pc \in {"write", "request", "read"} /\ t'.b = t.b /\ t'.pc \in {"drain", "post", "read"}
    BY <1>0, DoneEffect DEF At
  <2>2. QED
    BY <1>1, <2>1 DEF Stays, BurstPcs
<1>a. CASE ~InBurst
  BY <1>1, <1>2, <1>a, UnpromisedMoves
<1>b. SUFFICES ASSUME InBurst PROVE Moves
  BY <1>a
<1>c. InBurst'
  BY <1>1, <1>2, <1>b, Basics, PromiseKept DEF Promised
<1>3. Refines
  BY <1>1, <1>2, <1>b, <1>c, SameMoves
<1>4. CASE WriteDone
  <2>1. t.pc = "write" /\ t.rem = 0
        /\ t'.pc = IF t.queued % L.writeQueue # 0 THEN "drain" ELSE "post"
    BY <1>0, <1>4, DoneEffect DEF At
  <2>2. t.b.type = "write"
    BY <1>2, <2>1 DEF Flow, UnderWay
  <2>3. WriteMoves(dev, t)
    BY <1>b, <2>2 DEF DataInv, DataState
  <2>4. kind = "spi_v2" => QueuedWrites(dev', t')
    <3>1. SUFFICES ASSUME kind = "spi_v2" PROVE QueuedWrites(dev', t')
      OBVIOUS
    <3>2. PICK k \in Nat :
            /\ dev.got = Positions(0, k)
            /\ ~dev.gone => Chain("write", dev.cmds, k, t.b.len - t.rem, t.b.len, L.maxWrite)
            /\ t.queued % L.writeQueue = 0 => k = t.b.len - t.rem
      BY <2>1, <2>3, <3>1 DEF WriteMoves, QueuedWrites
    <3>3. t'.pc # "write" /\ (t'.pc = "post" => k = t.b.len - t.rem)
      BY <2>1, <3>2
    <3>4. QED
      BY <1>1, <1>2, <3>2, <3>3 DEF QueuedWrites
  <2>5. WriteMoves(dev', t')
    BY <1>1, <1>2, <2>1, <2>3, <2>4 DEF WriteMoves, OneShot
  <2>6. DataInv'
    BY <1>2, <2>2, <2>5, DataIntro DEF DataState
  <2>7. QED
    BY <1>3, <2>6 DEF Moves
<1>5. CASE RequestsQueued \/ ReadDone
  <2>1. t.pc \in {"request", "read"} /\ t'.pc \in {"read", "post"}
        /\ (t'.pc = "post" => t.pc = "read" /\ t.rd = 0)
    BY <1>0, <1>5, DoneEffect DEF At
  <2>2. t.b.type = "read"
    BY <1>2, <2>1 DEF Flow, UnderWay
  <2>3. t'.pc = "post" => t.req + t.rd = 0
    BY <1>0, <2>1 DEF Flow, ReadsOn
  <2>4. ASSUME kind # "bpi" PROVE ReadMoves(dev', t')
    <3>1. ReadMoves(dev, t)
      BY <1>b, <2>2, <2>4 DEF DataInv, DataState
    <3>2. kind = "spi_v2" /\ ~dev.gone => QueuedReads(dev', t')
      BY <1>1, <1>2, <3>1 DEF ReadMoves, QueuedReads
    <3>3. QED
      BY <1>1, <1>2, <2>3, <3>1, <3>2 DEF ReadMoves
  <2>5. DataInv'
    BY <1>2, <2>2, <2>4, DataIntro DEF DataState
  <2>6. QED
    BY <1>3, <2>5 DEF Moves
<1>6. QED
  BY <1>4, <1>5

\* One more shot is requested.
LEMMA RequestMoves ==
  ASSUME Flow, Flow', Devices, DataInv, RequestRead \/ RefillRead
  PROVE  Moves
<1>0. kind \in Kinds /\ kind \in AllKinds /\ TypeOK
      /\ t.rem \in Nat /\ t.queued \in Nat /\ t.req \in Nat /\ t.rd \in Nat
  BY Basics
<1>1. t.pc \in {"request", "refill"} /\ (t.pc = "request" => MayRequest)
  BY <1>0, RequestEffect
<1>2. t.pc \in BurstPcs /\ t.b.type = "read" /\ t.req > 0
  BY <1>1 DEF Flow, UnderWay, ReadsOn, BurstPcs, MayRequest
<1>a. PICK n \in Nat : \E o \in RequestReadOf(dev, n) :
        /\ n = Smaller(t.req, L.maxRead) /\ n <= t.req
        /\ \/ ~o.ok /\ Abort(o.d)
           \/ /\ o.ok /\ dev' = o.d /\ Stays
              /\ At(t', IF t.pc = "request" THEN "request" ELSE "read")
              /\ t'.req = t.req - n /\ t'.rd = t.rd + n /\ t'.buf = t.buf
  BY <1>0, RequestEffect
<1>3. PICK o \in RequestReadOf(dev, n) :
        /\ n = Smaller(t.req, L.maxRead) /\ n <= t.req
        /\ \/ ~o.ok /\ Abort(o.d)
           \/ /\ o.ok /\ dev' = o.d /\ Stays
              /\ At(t', IF t.pc = "request" THEN "request" ELSE "read")
              /\ t'.req = t.req - n /\ t'.rd = t.rd + n /\ t'.buf = t.buf
  BY <1>a
<1>4. CASE Abort(o.d)
  BY <1>2, <1>4, AbortMoves
<1>5. CASE /\ o.ok /\ dev' = o.d /\ Stays
           /\ At(t', IF t.pc = "request" THEN "request" ELSE "read")
           /\ t'.req = t.req - n /\ t'.rd = t.rd + n /\ t'.buf = t.buf
  <2>1. /\ t'.b = t.b /\ t'.pc \in {"request", "read"} /\ t'.pc \in BurstPcs
        /\ kind' = kind /\ last' = last
    BY <1>5 DEF At, Stays, BurstPcs
  <2>a. Reaches(dev') <=> Reaches(dev)
    <3>1. CASE kind = "spi_v2"
      BY <3>1 DEF Reaches
    <3>2. CASE kind # "spi_v2"
      BY <1>5, <3>2, OtherQueues
    <3>3. QED
      BY <3>1, <3>2
  <2>b. CASE ~InBurst
    BY <1>2, <2>1, <2>a, <2>b, UnpromisedMoves
  <2>c. SUFFICES ASSUME InBurst PROVE Moves
    BY <2>b
  <2>d. InBurst'
    BY <2>1, <2>a, <2>c, Basics, PromiseKept DEF Promised
  <2>2. Refines
    BY <1>2, <1>5, <2>1, <2>c, <2>d, SameMoves
  <2>3. PICK len \in Nat, req \in Nat, rd \in Nat : len = t.b.len /\ req = t.req /\ rd = t.rd
    BY <1>0, <1>2, Basics
  <2>4. t'.req + t'.rd = req + rd
    BY <1>3, <1>5, <2>3
  <2>5. ASSUME kind # "bpi" PROVE ReadMoves(dev', t')
    <3>1. ReadMoves(dev, t)
      BY <1>2, <2>5, <2>c DEF DataInv, DataState
    <3>2. t'.b.len - (t'.req + t'.rd) = len - (req + rd) /\ t'.req + t'.rd <= len
          /\ t'.b.len = len /\ t'.buf = Positions(0, len - (req + rd)) /\ t'.pc # "post"
      BY <1>5, <2>1, <2>3, <2>4, <3>1 DEF ReadMoves
    <3>3. CASE kind # "spi_v2"
      <4>1. dev' = dev
        BY <1>5, <3>3, OtherQueues
      <4>2. QED
        BY <2>3, <3>1, <3>2, <3>3, <4>1 DEF ReadMoves
    <3>4. CASE kind = "spi_v2"
      <4>1. SpiShape(dev) /\ Queues(dev)
        BY <3>4 DEF Devices, SpiInv, SpiGood, SpiKinds, QueueInv
      <4>2. PICK c : c = [op |-> "read", n |-> n]
        OBVIOUS
      <4>3. PICK g : g = SpiV2Queue(dev, c)
        OBVIOUS
      <4>4. dev' = g
        <5>1. o = Ok(g)
          BY <3>4, <4>2, <4>3 DEF RequestReadOf, SpiV2RequestRead
        <5>2. QED
          BY <1>5, <5>1, OkIs
      <4>5. dev'.gone = dev.gone /\ dev'.out = dev.out /\ dev'.words = dev.words
            /\ (~dev.gone => dev'.cmds = Append(dev.cmds, c))
        BY <4>1, <4>3, <4>4 DEF SpiShape, SpiV2Queue
      <4>6. ASSUME ~dev.gone PROVE QueuedReads(dev', t')
        <5>1. /\ dev.out \in Nat
              /\ Chain("word", dev.words, len - (req + rd), dev.out, len, L.maxRead)
              /\ Chain("read", dev.cmds, dev.out, len - req, len, L.maxRead)
          BY <2>3, <3>1, <3>4, <4>6 DEF ReadMoves, QueuedReads
        <5>2. req <= len
          BY <2>3, <3>1 DEF ReadMoves
        <5>3. PICK e \in Nat : e = len - req
          BY <5>2
        <5>4. e < len /\ len - e = req /\ len - (req - n) = e + n
          BY <1>2, <1>3, <2>3, <5>2, <5>3
        <5>5. PICK m \in Nat : m = L.maxRead
          BY <1>0, LimitsTyped
        <5>6. n = Smaller(len - e, m)
          BY <1>3, <2>3, <5>4, <5>5
        <5>7. IsSeq(dev.cmds) /\ Fits("read", c, e, n)
          BY <4>1, <4>2 DEF Queues, Fits
        <5>8. Chain("read", Append(dev.cmds, c), dev.out, e + n, len, m)
          BY <5>1, <5>3, <5>4, <5>5, <5>6, <5>7, ChainAppend
        <5>9. t'.b.len - t'.req = e + n
          BY <1>5, <2>3, <3>2, <5>4
        <5>10. QED
          BY <2>3, <3>2, <4>5, <4>6, <5>1, <5>5, <5>8, <5>9 DEF QueuedReads
      <4>7. QED
        BY <3>2, <3>4, <4>5, <4>6 DEF ReadMoves
    <3>5. QED
      BY <3>3, <3>4
  <2>6. DataInv'
    BY <1>2, <2>1, <2>5, DataIntro DEF DataState
  <2>7. QED
    BY <2>2, <2>6 DEF Moves
<1>6. QED
  BY <1>3, <1>4, <1>5

\* One more shot is read.
LEMMA ReadMovesOn ==
  ASSUME Flow, Flow', Devices, DataInv, ReadShot
  PROVE  Moves
<1>0. kind \in Kinds /\ kind \in AllKinds /\ TypeOK
      /\ t.req \in Nat /\ t.rd \in Nat
  BY Basics
<1>1. t.pc = "read" /\ t.rd > 0
  BY DEF ReadShot
<1>2. t.pc \in BurstPcs /\ t.b.type = "read"
  BY <1>1 DEF Flow, UnderWay, BurstPcs
<1>a. PICK s : \E n \in Nat : \E o \in ReadShotOf(dev, n, s) :
        /\ n = Smaller(t.rd, L.maxRead) /\ n > 0 /\ n <= t.rd
        /\ \/ ~o.ok /\ Abort(o.d)
           \/ /\ o.ok /\ dev' = o.d /\ Stays
              /\ At(t', IF t.req > 0 THEN "refill" ELSE "read")
              /\ t'.rd = t.rd - n /\ t'.req = t.req /\ t'.buf = t.buf \o o.data
  BY <1>0, ReadEffect
<1>b. PICK n \in Nat : \E o \in ReadShotOf(dev, n, s) :
        /\ n = Smaller(t.rd, L.maxRead) /\ n > 0 /\ n <= t.rd
        /\ \/ ~o.ok /\ Abort(o.d)
           \/ /\ o.ok /\ dev' = o.d /\ Stays
              /\ At(t', IF t.req > 0 THEN "refill" ELSE "read")
              /\ t'.rd = t.rd - n /\ t'.req = t.req /\ t'.buf = t.buf \o o.data
  BY <1>a
<1>3. PICK o \in ReadShotOf(dev, n, s) :
        /\ n = Smaller(t.rd, L.maxRead) /\ n > 0 /\ n <= t.rd
        /\ \/ ~o.ok /\ Abort(o.d)
           \/ /\ o.ok /\ dev' = o.d /\ Stays
              /\ At(t', IF t.req > 0 THEN "refill" ELSE "read")
              /\ t'.rd = t.rd - n /\ t'.req = t.req /\ t'.buf = t.buf \o o.data
  BY <1>b
<1>4. CASE Abort(o.d)
  BY <1>2, <1>4, AbortMoves
<1>5. CASE /\ o.ok /\ dev' = o.d /\ Stays
           /\ At(t', IF t.req > 0 THEN "refill" ELSE "read")
           /\ t'.rd = t.rd - n /\ t'.req = t.req /\ t'.buf = t.buf \o o.data
  <2>1. /\ t'.b = t.b /\ t'.pc \in {"refill", "read"} /\ t'.pc \in BurstPcs
        /\ kind' = kind /\ last' = last
    BY <1>5 DEF At, Stays, BurstPcs
  <2>b. kind = "i2c" => n = 1
    <3>1. kind = "i2c" => L.maxRead = 1
      BY <1>0, TransactionsAssumption DEF L
    <3>2. QED
      BY <1>0, <1>1, <1>3, <3>1 DEF Smaller
  <2>c. kind # "bpi" => (Reaches(dev') <=> Reaches(dev))
    <3>1. CASE kind \in {"spi_v2", "bpi"}
      BY <3>1 DEF Reaches
    <3>2. CASE kind \notin {"spi_v2", "bpi"}
      <4>1. HasData(dev)
        BY <1>0, DeviceHasData
      <4>2. Reaches(o.d) <=> Reaches(dev)
        BY <1>0, <1>3, <1>5, <2>b, <3>2, <4>1, ReadShotData
      <4>3. QED
        BY <1>5, <4>2
    <3>3. QED
      BY <3>1, <3>2
  <2>2. CASE ~InBurst
    <3>1. MovesAll(t.b) => kind # "bpi"
      BY <1>2 DEF MovesAll
    <3>2. QED
      BY <1>2, <2>1, <2>2, <2>c, <3>1, UnpromisedMoves
  <2>3. CASE InBurst
    <3>a. kind # "bpi" /\ Reaches(dev) /\ Reaches(dev')
      BY <1>2, <2>3, <2>c, Basics DEF Promised, MovesAll
    <3>1. ReadMoves(dev, t)
      BY <1>2, <2>3, <3>a DEF DataInv, DataState
    <3>2. PICK len \in Nat, req \in Nat, rd \in Nat : len = t.b.len /\ req = t.req /\ rd = t.rd
      BY <1>0, <1>2, Basics
    <3>3. req + rd <= len /\ t.buf = Positions(0, len - (req + rd))
      BY <3>1, <3>2 DEF ReadMoves
    <3>4. PICK k \in Nat : k = len - (req + rd)
      BY <3>2, <3>3
    <3>b. n <= rd /\ rd > 0
      BY <1>1, <1>3, <3>2
    <3>5. k + n <= len /\ len - (req + (rd - n)) = k + n /\ req + (rd - n) <= len /\ k < len
          /\ len - k = req + rd
      BY <3>b, <3>3, <3>4
    <3>6. /\ o.data = Positions(k, n)
          /\ kind # "spi_v2" => dev'.out = k + n
          /\ kind = "spi_v2" /\ ~dev'.gone => QueuedReads(dev', t')
      <4>1. CASE kind # "spi_v2"
        <5>1. HasData(dev) /\ dev.out = k
          BY <1>0, <3>1, <3>2, <3>4, <4>1, DeviceHasData DEF ReadMoves
        <5>2. QED
          BY <1>0, <1>3, <1>5, <2>b, <3>a, <4>1, <5>1, ReadShotData
      <4>2. CASE kind = "spi_v2"
        <5>1. SpiShape(dev) /\ Queues(dev) /\ QueueInv
          BY <4>2 DEF Devices, SpiInv, SpiGood, SpiKinds, QueueInv
        <5>2. PICK e : e = [dev EXCEPT !.words = Tail(@)]
          OBVIOUS
        <5>3. PICK x : x = SpiV2Extract(Head(dev.words), n)
          OBVIOUS
        <5>4. dev.words # <<>> /\ ~dev.gone /\ o = OkData(e, x)
          BY <4>2, <5>2, <5>3 DEF ReadShotOf, SpiV2ReadShot
        <5>5. dev' = e /\ o.data = x
          BY <1>5, <5>4, OkDataIs
        <5>6. e.cmds = dev.cmds /\ e.words = Tail(dev.words) /\ e.out = dev.out /\ e.gone = dev.gone
          BY <5>1, <5>2 DEF SpiShape
        <5>7. /\ dev.out \in Nat
              /\ Chain("word", dev.words, k, dev.out, len, L.maxRead)
              /\ Chain("read", dev.cmds, dev.out, len - req, len, L.maxRead)
          BY <3>1, <3>2, <3>4, <4>2, <5>4 DEF ReadMoves, QueuedReads
        <5>8. PICK m \in Nat \ {0} : m = L.maxRead
          BY <1>0, LimitsTyped
        <5>9. Smaller(len - k, m) = n
          <6>1. Reading(dev, t)
            BY <1>2, <5>1, <5>4 DEF QueueInv, QueueState
          <6>2. PICK i \in Nat, j \in Nat : i = Len(dev.cmds) /\ j = Len(dev.words)
            BY <5>1, LenSeq DEF Queues
          <6>3. j > 0
            BY <5>1, <5>4, <6>2, LenSeq DEF Queues
          <6>4. PICK q \in Nat : q = i + j /\ q > 0
            BY <6>3
          <6>5. Chunks(m, q, rd, req)
            BY <1>1, <3>2, <5>8, <6>1, <6>2, <6>4 DEF Reading, Outstanding
          <6>6. req > 0 => rd >= m
            <7>1. PICK p \in Nat : q = p + 1
              BY <6>4, q - 1 \in Nat
            <7>2. PICK z \in Nat : z = p * m
              OBVIOUS
            <7>3. q * m = z + m
              BY <7>1, <7>2
            <7>4. QED
              BY <6>5, <7>3 DEF Chunks
          <6>7. n = Smaller(rd, m) /\ len - k = req + rd
            BY <1>3, <3>2, <3>5, <5>8
          <6>8. QED
            BY <6>6, <6>7 DEF Smaller
        <5>10. IsSeq(dev.words)
          BY <5>1 DEF Queues
        <5>11. /\ Fits("word", Head(dev.words), k, n)
               /\ Chain("word", Tail(dev.words), k + n, dev.out, len, m)
          BY <5>4, <5>7, <5>8, <5>9, <5>10, ChainHead
        <5>12. x = Positions(k, n)
          BY <5>3, <5>11, ExtractAll DEF Fits
        <5>13. t'.b.len - (t'.req + t'.rd) = k + n /\ t'.b.len = len /\ t'.req = req
          BY <1>5, <2>1, <3>2, <3>5
        <5>14. QueuedReads(dev', t')
          BY <5>5, <5>6, <5>7, <5>8, <5>11, <5>13 DEF QueuedReads
        <5>15. QED
          BY <4>2, <5>5, <5>12, <5>14
      <4>3. QED
        BY <4>1, <4>2
    <3>7. t'.buf = Positions(0, k) \o Positions(k, n)
      BY <1>5, <3>3, <3>4, <3>6
    <3>8. t'.buf = Positions(0, k + n)
      BY <3>7, PositionsJoin
    <3>9. /\ t'.b.len - (t'.req + t'.rd) = k + n /\ t'.b.len = len /\ t'.req + t'.rd <= len
          /\ t'.pc # "post"
      BY <1>5, <2>1, <3>2, <3>5
    <3>10. ReadMoves(dev', t')
      BY <3>6, <3>8, <3>9 DEF ReadMoves
    <3>11. DataInv'
      BY <1>2, <2>1, <3>10, DataIntro DEF DataState
    <3>12. InBurst /\ InBurst'
      BY <2>1, <2>3, <3>a, PromiseKept
    <3>13. Bytes = Positions(0, k) /\ Bytes' = Positions(0, k) \o Positions(k, n)
      BY <1>2, <2>1, <3>3, <3>4, <3>7, <3>12 DEF Bytes
    <3>14. Refines
      BY <1>3, <2>1, <3>2, <3>5, <3>12, <3>13, MoveStep
    <3>15. QED
      BY <3>11, <3>14 DEF Moves
  <2>4. QED
    BY <2>2, <2>3
<1>6. QED
  BY <1>3, <1>4, <1>5

\* The burst returns.
LEMMA PostMoves ==
  ASSUME Flow, Flow', Devices, DataInv, PostBurst
  PROVE  Moves
<1>0. kind \in Kinds /\ t.rem \in Nat /\ t.req \in Nat /\ t.rd \in Nat
  BY Basics
<1>1. t.pc = "post" /\ t.pc \in BurstPcs
  BY DEF PostBurst, BurstPcs
<1>2. t.b.len \in Nat /\ t.b.len > 0 /\ t.b.type \in {"write", "read"}
  BY <1>1, Basics
<1>3. PICK o : \/ Fail(o.d, t.b, "copy")
               \/ dev' = o.d /\ t' = Quiet("next") /\ UNCHANGED <<kind, txn, count>>
  BY Zenon DEF PostBurst
<1>4. kind' = kind /\ t'.pc \in {"none", "next"}
  BY <1>3, QuietShaped DEF Fail
<1>5. t'.pc \notin BurstPcs
  BY <1>4 DEF BurstPcs
<1>6. DataInv' /\ ~InBurst'
  <2>1. ~InBurst'
    BY <1>4, <1>5, BasicsNext DEF Promised
  <2>2. QED
    BY <1>4, <2>1, DataIntro
<1>7. CASE ~InBurst
  BY <1>6, <1>7, OtherStep DEF Moves
<1>8. CASE InBurst
  <2>1. Bytes = Positions(0, t.b.len)
    <3>1. CASE t.b.type = "write"
      <4>1. WriteMoves(dev, t) /\ Bytes = dev.got
        BY <1>1, <1>8, <3>1 DEF DataInv, DataState, Bytes
      <4>2. t.rem = 0 /\ t.b.len - t.rem = t.b.len
        BY <1>0, <1>1, <1>2, <4>1 DEF WriteMoves
      <4>3. dev.got = Positions(0, t.b.len)
        BY <1>1, <4>1, <4>2 DEF WriteMoves, QueuedWrites
      <4>4. QED
        BY <4>1, <4>3
    <3>2. CASE t.b.type = "read"
      <4>1. ReadMoves(dev, t) /\ Bytes = t.buf
        <5>1. kind # "bpi"
          BY <1>8, <3>2, Basics DEF Promised, MovesAll
        <5>2. QED
          BY <1>8, <3>2, <5>1 DEF DataInv, DataState, Bytes
      <4>2. t.b.len - (t.req + t.rd) = t.b.len
        BY <1>0, <1>1, <1>2, <4>1 DEF ReadMoves
      <4>3. QED
        BY <4>1, <4>2 DEF ReadMoves
    <3>3. QED
      BY <1>2, <3>1, <3>2
  <2>2. Len(Bytes) = t.b.len
    BY <1>2, <2>1, PositionsSeq
  <2>3. QED
    BY <1>2, <1>6, <1>8, <2>2, ReturnStep DEF Moves
<1>9. QED
  BY <1>7, <1>8

\* The FPGA of spi_v2 carries out the oldest shot.
LEMMA ExecuteMoves ==
  ASSUME Flow, Flow', Devices, DataInv, Execute
  PROVE  Moves
<1>0. /\ kind = "spi_v2" /\ kind' = kind /\ t' = t /\ last' = last /\ ~dev.gone
      /\ dev.cmds # <<>> /\ dev' = SpiV2Execute(dev)
  BY DEF Execute
<1>1. SpiShape(dev) /\ Queues(dev) /\ QueueState(dev, t) /\ kind \in Kinds /\ TypeOK
  BY <1>0, Basics DEF Devices, SpiInv, SpiGood, SpiKinds, QueueInv
<1>2. t.pc \in BurstPcs
  BY <1>0, <1>1 DEF QueueState
<1>3. t.b.type \in {"write", "read"} /\ InBurst /\ InBurst'
  BY <1>0, <1>2, Basics, BasicsNext DEF Promised, MovesAll, Reaches
<1>4. PICK len \in Nat : len = t.b.len
  BY <1>2, Basics
<1>5. PICK c : c = Head(dev.cmds)
  OBVIOUS
<1>6. PICK e : e = [dev EXCEPT !.cmds = Tail(@)]
  OBVIOUS
<1>7. SpiShape(e) /\ e.cmds = Tail(dev.cmds) /\ e.words = dev.words
      /\ e.gone = dev.gone /\ e.got = dev.got /\ e.out = dev.out
  BY <1>1, <1>6 DEF SpiShape
<1>8. IsSeq(dev.cmds) /\ IsSeq(dev.words)
  BY <1>1 DEF Queues
<1>9. CASE t.b.type = "write"
  <2>1. PICK m \in Nat \ {0} : m = L.maxWrite
    BY <1>1, LimitsTyped
  <2>2. PICK k \in Nat :
          dev.got = Positions(0, k) /\ Chain("write", dev.cmds, k, len - t.rem, len, m)
    <3>1. WriteMoves(dev, t)
      BY <1>3, <1>9 DEF DataInv, DataState
    <3>2. QED
      BY <1>0, <1>4, <2>1, <3>1 DEF WriteMoves, QueuedWrites
  <2>3. PICK n : n = Smaller(len - k, m)
    OBVIOUS
  <2>4. /\ k < len /\ Fits("write", c, k, n)
        /\ Chain("write", Tail(dev.cmds), k + n, len - t.rem, len, m)
    BY <1>0, <1>5, <1>8, <2>2, <2>3, ChainHead
  <2>5. n \in Nat /\ n > 0 /\ k + n <= len
    BY <2>3, <2>4 DEF Smaller
  <2>6. PICK x : x = Positions(k, n)
    OBVIOUS
  <2>7. c = [op |-> "write", bytes |-> x]
    BY <2>4, <2>6 DEF Fits
  <2>8. dev' = Received(e, x)
    BY <1>0, <1>5, <1>6, <2>7 DEF SpiV2Execute
  <2>9. dev'.got = dev.got \o x /\ dev'.cmds = Tail(dev.cmds) /\ dev'.gone = dev.gone
    BY <1>7, <2>8 DEF Received, SpiShape
  <2>10. dev'.got = Positions(0, k + n)
    BY <2>2, <2>5, <2>6, <2>9, PositionsJoin
  <2>11. t.pc # "post" /\ ~(t.pc = "write" /\ t.queued % L.writeQueue = 0)
    <3>1. Writing(dev, t)
      BY <1>1, <1>2, <1>9 DEF QueueState
    <3>2. Len(dev.cmds) \in Nat /\ Len(dev.cmds) # 0
      BY <1>0, <1>8, LenSeq
    <3>3. QED
      BY <1>0, <3>1, <3>2 DEF Writing
  <2>12. QueuedWrites(dev', t')
    <3>1. k + n \in Nat
      BY <2>5
    <3>2. Chain("write", dev'.cmds, k + n, t'.b.len - t'.rem, t'.b.len, L.maxWrite)
      BY <1>0, <1>4, <2>1, <2>4, <2>9
    <3>3. QED
      BY <1>0, <2>10, <2>11, <3>1, <3>2 DEF QueuedWrites
  <2>13. DataInv'
    <3>1. WriteMoves(dev, t)
      BY <1>3, <1>9 DEF DataInv, DataState
    <3>2. WriteMoves(dev', t')
      BY <1>0, <2>12, <3>1 DEF WriteMoves, OneShot
    <3>3. QED
      BY <1>0, <1>9, <3>2, DataIntro DEF DataState
  <2>14. Bytes = Positions(0, k) /\ Bytes' = Positions(0, k) \o Positions(k, n)
    BY <1>0, <1>3, <1>9, <2>2, <2>6, <2>9 DEF Bytes
  <2>15. t'.b.len = len
    BY <1>0, <1>4
  <2>16. Refines
    BY <1>3, <1>4, <2>5, <2>14, <2>15, MoveStep
  <2>17. QED
    BY <2>13, <2>16 DEF Moves
<1>10. CASE t.b.type = "read"
  <2>1. PICK m \in Nat \ {0} : m = L.maxRead
    BY <1>1, LimitsTyped
  <2>2. ReadMoves(dev, t)
    BY <1>0, <1>3, <1>10 DEF DataInv, DataState
  <2>3. PICK k \in Nat : k = dev.out
    BY <1>0, <2>2 DEF ReadMoves, QueuedReads
  <2>4. /\ Chain("word", dev.words, len - (t.req + t.rd), k, len, m)
        /\ Chain("read", dev.cmds, k, len - t.req, len, m)
    BY <1>0, <1>4, <2>1, <2>2, <2>3 DEF ReadMoves, QueuedReads
  <2>5. PICK n : n = Smaller(len - k, m)
    OBVIOUS
  <2>6. /\ k < len /\ Fits("read", c, k, n)
        /\ Chain("read", Tail(dev.cmds), k + n, len - t.req, len, m)
    BY <1>0, <1>5, <1>8, <2>4, <2>5, ChainHead
  <2>7. n \in Nat
    BY <2>5, <2>6 DEF Smaller
  <2>8. c = [op |-> "read", n |-> n]
    BY <2>6 DEF Fits
  <2>9. PICK x : x = Positions(k, n)
    OBVIOUS
  <2>10. Fits("word", x, k, n)
    BY <2>9 DEF Fits
  <2>11. Chain("word", Append(dev.words, x), len - (t.req + t.rd), k + n, len, m)
    BY <1>8, <2>4, <2>5, <2>6, <2>7, <2>10, ChainAppend
  <2>12. PICK f : f = [e EXCEPT !.words = Append(@, x)]
    OBVIOUS
  <2>13. SpiShape(f) /\ f.cmds = e.cmds /\ f.words = Append(dev.words, x)
         /\ f.gone = e.gone /\ f.out = e.out
    BY <1>7, <2>12 DEF SpiShape
  <2>14. dev' = Answered(f, n)
    <3>1. c.op = "read" /\ c.n = n /\ x = Positions(dev.out, n)
      BY <2>3, <2>8, <2>9
    <3>2. dev' = Answered(f, c.n)
      BY <1>0, <1>5, <1>6, <2>12, <3>1 DEF SpiV2Execute
    <3>3. QED
      BY <3>1, <3>2
  <2>15. dev'.cmds = Tail(dev.cmds) /\ dev'.words = Append(dev.words, x)
         /\ dev'.out = k + n /\ dev'.gone = dev.gone
    BY <1>7, <2>3, <2>13, <2>14 DEF Answered, SpiShape
  <2>16. QueuedReads(dev', t')
    <3>1. k + n \in Nat
      BY <2>7
    <3>2. QED
      BY <1>0, <1>4, <2>1, <2>6, <2>11, <2>15, <3>1 DEF QueuedReads
  <2>17. ReadMoves(dev', t')
    BY <1>0, <2>2, <2>16 DEF ReadMoves
  <2>18. DataInv'
    BY <1>0, <1>10, <2>17, DataIntro DEF DataState
  <2>19. Refines
    BY <1>0, <1>3, <1>10, SameMoves
  <2>20. QED
    BY <2>18, <2>19 DEF Moves
<1>11. QED
  BY <1>3, <1>9, <1>10

\* The board disappears: what is queued stays where it is, and a controller that does
\* not notice it can promise nothing any more.
LEMMA VanishMoves ==
  ASSUME Flow, Flow', Devices, DataInv, Vanish
  PROVE  Moves
<1>1. kind' = kind /\ t' = t /\ last' = last /\ dev' = [dev EXCEPT !.gone = TRUE]
  BY DEF Vanish
<1>2. dev'.got = dev.got /\ dev'.out = dev.out /\ dev'.gone = TRUE
  <2>1. HasData(dev)
    BY Basics, DeviceHasData
  <2>2. QED
    BY <1>1, <2>1 DEF HasData
<1>3. CASE t.pc \notin BurstPcs
  <2>1. t.pc \in {"none", "next"} /\ t'.pc \in {"none", "next"}
    BY <1>1, <1>3, Basics
  <2>2. QED
    BY <1>1, <2>1, OutsideMoves
<1>4. CASE t.pc \in BurstPcs /\ ~InBurst
  <2>1. Reaches(dev') => Reaches(dev)
    BY <1>2 DEF Reaches
  <2>2. QED
    BY <1>1, <1>4, <2>1, UnpromisedMoves
<1>5. CASE InBurst /\ kind \notin {"spi_v2", "jtag", "i2c"}
  <2>1. ~Reaches(dev') /\ ~Reached'
    BY <1>1, <1>2, <1>5 DEF Reaches, Reached
  <2>2. ~InBurst' /\ Result' # "ok"
    BY <2>1 DEF InBurst, Result
  <2>3. DataInv'
    BY <1>1, <2>2, DataIntro
  <2>4. t.b.len \in Nat /\ t.b.len > 0
    BY <1>5, Basics DEF Promised
  <2>5. QED
    BY <1>5, <2>2, <2>3, <2>4, ReturnStep DEF Moves
<1>6. CASE InBurst /\ kind \in {"spi_v2", "jtag", "i2c"}
  <2>1. DataState(dev, t) /\ t'.pc \in BurstPcs
    BY <1>1, <1>6, Basics DEF DataInv, Promised
  <2>2. ASSUME WriteMoves(dev, t) PROVE WriteMoves(dev', t')
    <3>1. kind = "spi_v2" => QueuedWrites(dev', t')
      BY <1>1, <1>2, <2>2 DEF WriteMoves, QueuedWrites
    <3>2. QED
      BY <1>1, <1>2, <1>6, <2>2, <3>1 DEF WriteMoves, OneShot
  <2>3. ASSUME ReadMoves(dev, t) PROVE ReadMoves(dev', t')
    BY <1>1, <1>2, <2>3 DEF ReadMoves
  <2>4. DataInv'
    BY <1>1, <2>1, <2>2, <2>3, DataIntro DEF DataState
  <2>5. InBurst'
    BY <1>1, <1>6, <2>1, PromiseKept DEF Reaches
  <2>6. Refines
    BY <1>1, <1>2, <1>6, <2>5, SameMoves
  <2>7. QED
    BY <2>4, <2>6 DEF Moves
<1>7. QED
  BY <1>3, <1>4, <1>5, <1>6

\* Transactions, and requests that move no bytes.
LEMMA BetweenMoves ==
  ASSUME Flow, Flow', kind' = kind,
         \/ BeginTransaction \/ EndTransaction \/ SkipBurst
         \/ CopyInFails \/ StateChange \/ Command
  PROVE  Moves
<1>1. t.pc \in {"none", "next"}
  BY DEF BeginTransaction, EndTransaction, SkipBurst, CopyInFails, StateChange, Command, HasBurst
<1>2. t'.pc \in {"none", "next"}
  <2>1. CASE BeginTransaction \/ EndTransaction \/ SkipBurst
    BY <1>1, <2>1, QuietShaped DEF BeginTransaction, EndTransaction, SkipBurst
  <2>2. CASE CopyInFails
    BY <2>2, QuietShaped DEF CopyInFails, Fail
  <2>3. CASE StateChange \/ Command
    <3>1. t' = t \/ t' = Quiet("none")
      BY <2>3 DEF StateChange, Command, Fail
    <3>2. QED
      BY <1>1, <3>1, QuietShaped
  <2>4. QED
    BY <2>1, <2>2, <2>3
<1>3. QED
  BY <1>1, <1>2, OutsideMoves

LEMMA MovesStep ==
  ASSUME Flow, Flow', Devices, DataInv, [Next]_vars
  PROVE  Moves
<1>1. kind' = kind
  BY KindKept
<1>2. CASE UNCHANGED vars
  <2>1. dev' = dev /\ t' = t /\ last' = last
    BY <1>2 DEF vars
  <2>2. Reached' <=> Reached
    BY <1>1, <2>1 DEF Reached
  <2>3. InBurst' <=> InBurst
    BY <1>1, <2>1, Basics, BasicsNext DEF Promised
  <2>4. Size' = Size /\ Bytes' = Bytes /\ Result' = Result
    BY <2>1, <2>2, <2>3 DEF Size, Bytes, Result
  <2>5. DataInv'
    BY <1>1, <2>1, <2>3, DataIntro DEF DataInv
  <2>6. QED
    BY <2>4, <2>5, StutterStep DEF Moves
<1>3. CASE Next
  BY <1>1, <1>3, BetweenMoves, StartMoves, WriteMovesOn, WaitMoves, DoneMoves, RequestMoves,
     ReadMovesOn, PostMoves, ExecuteMoves, VanishMoves DEF Next, Driver, BurstStep
<1>4. QED
  BY <1>2, <1>3

-----------------------------------------------------------------------------
(* The theorems.                                                           *)

\* Switching banks never leaves another I2C bus in the middle of a transfer, unless the
\* hardware refused the STOP condition or the board is gone: for any number of busses
\* and any transactions.
THEOREM BussesIdle == Spec => []InactiveBussesIdle
<1>1. Devices => InactiveBussesIdle
  BY DEF Devices, I2cInv, I2cGood, OthersIdle, InactiveBussesIdle
<1>2. QED
  BY <1>1, DevicesInvariant, PTL

\* The bank that bpi_controller.c believes to be selected is the selected one, unless a
\* switch failed unnoticed.
THEOREM BankCacheIsTrue == Spec => []BankCacheTrue
<1>1. Devices => BankCacheTrue
  BY DEF Devices, BpiGood, BankKnown, BankCacheTrue
<1>2. QED
  BY <1>1, DevicesInvariant, PTL

\* Between bursts the target is selected exactly if that was asked for, and released by
\* an aborted burst; after a transaction that ended properly no I2C bank is activated.
THEOREM TargetReleased == Spec => []ReleasedAsAsked
<1>1. Flow /\ Devices => ReleasedAsAsked
  <2> SUFFICES ASSUME Flow, Devices, t.pc \in {"none", "next"}
               PROVE  CASE kind \in {"spi_v2", "spi_dual", "spi_bs"} -> dev.gone \/ SpiSelected
                        [] kind = "i2c" -> dev.gone \/ I2cReleased
                        [] OTHER -> TRUE
    BY DEF ReleasedAsAsked
  <2>0. t.pc \notin BurstPcs
    BY DEF BurstPcs
  <2>1. kind \in SpiKinds => dev.gone \/ SpiSelected
    BY <2>0 DEF Devices, SpiInv
  <2>2. kind = "i2c" => dev.gone \/ I2cReleased
    BY <2>0 DEF Devices, I2cInv, StopDue, ActiveIdle, BitOff, Returned, I2cReleased
  <2>3. QED
    BY <2>1, <2>2 DEF SpiKinds
<1>2. QED
  BY <1>1, DevicesInvariant, PTL

\* self->state of the JTAG controller says where the TAP really is, after any sequence of
\* transfers of any length, aborted bursts and raw accesses: the TMS sequence of every
\* path of set_state, and of the shift loop for every number of bits, arrives there.
THEOREM TapIsTracked == Spec => []TapTracked
<1>1. Devices => TapTracked
  BY DEF Devices, JtagGood, TapKnown, TapTracked
<1>2. QED
  BY <1>1, DevicesInvariant, PTL

\* The two FIFOs of the spi_v2 FPGA are never asked to hold more than they can, for every
\* depth and every length of bursts, and chip select stays asserted as long as a command
\* is queued: shots are queued ahead of their execution, and the driver only counts them.
THEOREM QueuesStayWithinLimits == Spec => []QueuesWithinLimits
<1>1. Devices => QueuesWithinLimits
  BY DEF Devices, QueueInv, Within, QueuesWithinLimits
<1>2. QED
  BY <1>1, DevicesInvariant, PTL

\* write_burst and read_burst keep the promise of controller_base.h on every controller,
\* for every length of burst, depth of queue and size of shot: the bytes arrive in order
\* and once, and STATUS_OK means that all of them have, although spi_v2 queues shots
\* ahead and takes the answers later, and whatever the interleaving with the FPGA and
\* with a board that disappears.  What has no such promise is left out by MovesAll and
\* Reached: of bpi everything but a write of whole data words in one shot, and the boards
\* that are gone without the controller noticing it.
THEOREM BurstsImplementTransfer == Spec => BurstsKeepPromise
<1>1. Init => DataInv /\ Promise!TransferInit
  <2> SUFFICES ASSUME Init PROVE DataInv /\ Promise!TransferInit
    OBVIOUS
  <2>1. t.pc = "none" /\ last.how = "ok"
    BY QuietShaped DEF Init
  <2>2. ~InBurst
    BY <2>1 DEF InBurst
  <2>3. Reached
    <3>1. dev \in DevInit(kind) /\ kind \in AllKinds
      BY TransactionsAssumption DEF Init, AllKinds
    <3>2. kind \in {"spi_dual", "spi_bs"} => ~dev.gone
      BY <3>1 DEF DevInit, SpiInit
    <3>3. kind = "bpi" => ~dev.gone
      BY <3>1 DEF DevInit, BpiInit
    <3>4. QED
      BY <3>1, <3>2, <3>3 DEF Reached, AllKinds
  <2>4. QED
    BY <2>1, <2>2, <2>3 DEF DataInv, Promise!TransferInit
<1>2. Flow /\ Flow' /\ Devices /\ DataInv /\ [Next]_vars =>
        DataInv' /\ [Promise!TransferNext]_(Promise!tvars)
  BY MovesStep DEF Moves, Refines
<1>3. QED
  BY <1>1, <1>2, DevicesInvariant, PTL DEF Spec, BurstsKeepPromise, Promise!TransferSpec
=============================================================================
