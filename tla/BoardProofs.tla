---------------------------- MODULE BoardProofs -----------------------------
(***************************************************************************)
(* Proofs about Board, for any number of boards, processes and files: the  *)
(* numbers of the boards, what probe and removal leave behind, and who may *)
(* leave a channel or an interrupt running.  The inductive invariant IInv  *)
(* has four parts: types, Numbers, Holdings (what a board holds at each    *)
(* stage of its life) and Files (who has a file open, and on what).        *)
(***************************************************************************)
EXTENDS Board, FiniteSetTheorems, SequenceTheorems, TLAPS

\* What menable_pci_probe itself takes, or the PCI core frees with the device.
Core == {"number", "cdev", "device", "regions", "bar", "link"}
Resources == Core \cup Page \cup {"uiqs", "irq", "dmas", "peripherals", "messaging"}

BoardRec ==
  [at : {"absent", "probing", "dropping", "failing", "failed", "hollow", "up", "removing",
         "unregister", "removed"},
   told : BOOLEAN, step : Nat, idx : Nat, held : SUBSET Resources,
   state : {"UNINITIALISED", "READY", "DEAD"}, changing : BOOLEAN, releasing : BOOLEAN,
   use : Nat, irq : BOOLEAN, chan : Procs \cup {"none", "nobody"}, cnt : [Procs -> Nat],
   marked : SUBSET Procs, undeclared : BOOLEAN]

\* The places of a process with a file open, and those of one that has closed its last.
Inside == {"group", "in", "pp", "removed", "wait", "drop", "reset", "add", "changed",
           "write", "init"}
Closing == {"mem", "del"}
ProcRec == [pc : {"none"} \cup Inside \cup Closing, on : Boards \cup {"none"}, files : Nat]

\* The type invariant: menable_pci_probe, the file operations and the ioctls keep board and
\* process records in these sets.
TypeOK ==
  /\ maxidx \in Nat
  /\ board \in [Boards -> BoardRec]
  /\ proc \in [Procs -> ProcRec]
  /\ count \in [probes : Nat, faults : Nat, calls : Nat]

StepRec == [takes : Resources, gives : SUBSET Resources, told : BOOLEAN]
FamilyLadder(x) == IF Family[x] = "me5" THEN Me5Ladder ELSE Me6Ladder

\* The steps of menable_pci_probe before the probe function of the family.
LEMMA CoreSteps ==
  /\ CoreLadder \in Seq(StepRec) /\ Len(CoreLadder) = 4
  /\ CoreLadder[1] = Step("cdev", {}, TRUE)
  /\ CoreLadder[2] = Step("device", {"cdev"}, TRUE)
  /\ CoreLadder[3] = Step("regions", {}, TRUE)
  /\ CoreLadder[4] = Step("bar", {}, FALSE)
BY DEF CoreLadder, Step, StepRec, Resources, Core

\* The steps of me5_probe.
LEMMA Me5Steps ==
  /\ Me5Ladder \in Seq(StepRec) /\ Len(Me5Ladder) = 7
  /\ Me5Ladder[1] = Step("data", {}, TRUE)
  /\ Me5Ladder[2] = Step("pool", {"data"}, TRUE)
  /\ Me5Ladder[3] = Step("page", {"data", "pool"}, TRUE)
  /\ Me5Ladder[4] = Step("uiqs", Page, TRUE)
  /\ Me5Ladder[5] = Step("irq", Page \cup {"uiqs"}, TRUE)
  /\ Me5Ladder[6] = Step("peripherals", {}, TRUE)
  /\ Me5Ladder[7] = Step("dmas", Page \cup {"uiqs", "irq"}, TRUE)
BY DEF Me5Ladder, Me5Uiqs, Me5Irq, Me5Dmas, Step, StepRec, Resources, Core, Page

\* The steps of me6_probe.
LEMMA Me6Steps ==
  /\ Me6Ladder \in Seq(StepRec) /\ Len(Me6Ladder) = 8
  /\ Me6Ladder[1] = Step("data", {}, FALSE)
  /\ Me6Ladder[2] = Step("messaging", {"data"}, TRUE)
  /\ Me6Ladder[3] = Step("uiqs", {"data"}, TRUE)
  /\ Me6Ladder[4] = Step("pool", {"data", "uiqs"}, FALSE)
  /\ Me6Ladder[5] = Step("page", {"data", "uiqs", "pool"}, FALSE)
  /\ Me6Ladder[6] = Step("irq", Page \cup {"uiqs"}, TRUE)
  /\ Me6Ladder[7] = Step("dmas", Page \cup {"uiqs", "irq"}, TRUE)
  /\ Me6Ladder[8] = Step("peripherals", Page \cup {"uiqs", "irq"}, TRUE)
BY DEF Me6Ladder, Me6Messaging, Me6Uiqs, Me6Irq, Me6Dmas, Me6Peripherals, Step, StepRec, Resources, Core, Page

\* The ladder of a board, step by step.
LEMMA LadderAt ==
  ASSUME NEW x \in Boards
  PROVE  /\ FamilyLadder(x) \in Seq(StepRec)
         /\ Ladder(x) \in Seq(StepRec) /\ Len(Ladder(x)) = Len(FamilyLadder(x)) + 5
         /\ \A i \in 1 .. 4 : Ladder(x)[i] = CoreLadder[i]
         /\ \A i \in 5 .. Len(FamilyLadder(x)) + 4 : Ladder(x)[i] = FamilyLadder(x)[i - 4]
         /\ Ladder(x)[Len(FamilyLadder(x)) + 5] = Link(x)
<1> DEFINE F == FamilyLadder(x)
           C == CoreLadder
           k == Link(x)
           l == Ladder(x)
<1>1. F \in Seq(StepRec) /\ C \in Seq(StepRec) /\ Len(C) = 4
  BY CoreSteps, Me5Steps, Me6Steps DEF FamilyLadder
<1>2. k \in StepRec
  BY DEF Link, ExitFrees, Me5Exit, Me6Exit, Page, Step, StepRec, Resources, Core
<1>3. l = (C \o F) \o <<k>>
  BY DEF Ladder, FamilyLadder
<1> SUFFICES /\ F \in Seq(StepRec)
             /\ l \in Seq(StepRec) /\ Len(l) = Len(F) + 5
             /\ \A i \in 1 .. 4 : l[i] = C[i]
             /\ \A i \in 5 .. Len(F) + 4 : l[i] = F[i - 4]
             /\ l[Len(F) + 5] = k
  OBVIOUS
<1> HIDE DEF F, C, k, l
<1> DEFINE m == C \o F
<1>4. /\ m \in Seq(StepRec) /\ Len(m) = Len(C) + Len(F)
      /\ \A i \in 1 .. Len(C) + Len(F) : m[i] = IF i <= Len(C) THEN C[i] ELSE F[i - Len(C)]
  BY <1>1, ConcatProperties
<1> HIDE DEF m
<1>5. l = Append(m, k)
  BY <1>2, <1>3, <1>4, AppendIsConcat DEF m
<1>6. Len(F) \in Nat
  BY <1>1
<1>7. QED
  BY <1>1, <1>2, <1>4, <1>5, <1>6, AppendProperties

\* What a board may hold when its probe has come to step i.
Taken(x, i) == {"number"} \cup {Ladder(x)[j].takes : j \in 1 .. i - 1}
\* What a board may hold at all.
Everything(x) == Core \cup ExitFrees(x) \cup {"dmas"}
\* The error paths leave no more than this for menable_pci_probe to free.
Unwound(x, i) ==
  LET s == Ladder(x)[i]
  IN  (i <= 2 \/ s.told \/ s.takes = "bar") => Taken(x, i) \ s.gives \subseteq Core \cup MayLeak(x)

\* A ladder is a sequence of steps, 12 of them for me5 and 13 for me6.
LEMMA LadderRec ==
  ASSUME NEW x \in Boards
  PROVE  /\ Len(Ladder(x)) = IF Family[x] = "me5" THEN 12 ELSE 13
         /\ \A i \in 1 .. Len(Ladder(x)) : Ladder(x)[i] \in StepRec
<1>1. Len(FamilyLadder(x)) = IF Family[x] = "me5" THEN 7 ELSE 8
  BY Me5Steps, Me6Steps DEF FamilyLadder
<1>2. Ladder(x) \in Seq(StepRec) /\ Len(Ladder(x)) = Len(FamilyLadder(x)) + 5
  BY LadderAt
<1>3. QED
  BY <1>1, <1>2, ElementOfSeq

\* A step adds what it takes.
LEMMA TakenNext ==
  ASSUME NEW x, NEW i \in Nat \ {0}
  PROVE  Taken(x, i + 1) = Taken(x, i) \cup {Ladder(x)[i].takes}
BY DEF Taken

\* The error paths of menable_pci_probe leave only what belongs to the PCI core.
LEMMA CoreUnwinds ==
  ASSUME NEW x \in Boards
  PROVE  /\ \A i \in 1 .. 4 : Unwound(x, i) /\ "number" \notin Ladder(x)[i].gives
         /\ Taken(x, 5) \subseteq Core
<1>1. \A j \in 1 .. 4 : Ladder(x)[j] = CoreLadder[j]
  BY LadderAt
<1>2. \A j \in 1 .. 4 : CoreLadder[j].takes \in Core
  BY CoreSteps DEF Step, Core
<1>3. \A i \in 1 .. 5 : Taken(x, i) \subseteq Core
  BY <1>1, <1>2 DEF Taken, Core
<1>4. \A i \in 1 .. 4 : "number" \notin CoreLadder[i].gives
  BY CoreSteps DEF Step
<1>5. QED
  BY <1>1, <1>3, <1>4 DEF Unwound



\* The ladder of a me5 board, step by step.
LEMMA Me5LadderAt ==
  ASSUME NEW x \in Boards, Family[x] = "me5"
  PROVE  /\ Ladder(x)[5] = Step("data", {}, TRUE)
        /\ Ladder(x)[6] = Step("pool", {"data"}, TRUE)
        /\ Ladder(x)[7] = Step("page", {"data", "pool"}, TRUE)
        /\ Ladder(x)[8] = Step("uiqs", Page, TRUE)
        /\ Ladder(x)[9] = Step("irq", Page \cup {"uiqs"}, TRUE)
        /\ Ladder(x)[10] = Step("peripherals", {}, TRUE)
        /\ Ladder(x)[11] = Step("dmas", Page \cup {"uiqs", "irq"}, TRUE)
         /\ Ladder(x)[12] = Link(x)
<1>1. FamilyLadder(x) = Me5Ladder /\ Len(Me5Ladder) = 7
  BY Me5Steps DEF FamilyLadder
<1> DEFINE l == Ladder(x)
           k == Link(x)
           m == Me5Ladder
<1>2. (\A j \in 5 .. Len(m) + 4 : l[j] = m[j - 4]) /\ l[Len(m) + 5] = k
  BY <1>1, LadderAt
<1>3. /\ l[5] = m[1] /\ l[6] = m[2] /\ l[7] = m[3] /\ l[8] = m[4] /\ l[9] = m[5]
      /\ l[10] = m[6] /\ l[11] = m[7] /\ l[12] = k
  <2> HIDE DEF l, k, m
  <2>1. Len(m) = 7
    BY <1>1 DEF m
  <2>2. Len(m) + 4 = 11 /\ Len(m) + 5 = 12
    BY <2>1
  <2>3. (\A j \in 5 .. 11 : l[j] = m[j - 4]) /\ l[12] = k
    BY <1>2, <2>2
  <2>4. QED
    BY <2>3
<1>4. QED
  BY <1>3, Me5Steps

\* The error labels of me5_probe leave no more than MayLeak.
LEMMA Me5Unwinds ==
  ASSUME NEW x \in Boards, Family[x] = "me5", NEW i \in 5 .. 11
  PROVE  /\ Ladder(x)[i].takes # "peripherals" => Unwound(x, i)
         /\ "number" \notin Ladder(x)[i].gives
         /\ Taken(x, 12) \subseteq Everything(x)
<1> DEFINE T(j, R) == Taken(x, j) \subseteq Core \cup R
<1>2. T(5, {})
  BY CoreUnwinds
<1>3. T(6, {"data"})
  BY <1>2, Me5LadderAt, TakenNext DEF Step
<1>4. T(7, {"data", "pool"})
  BY <1>3, Me5LadderAt, TakenNext DEF Step
<1>5. T(8, {"data", "pool", "page"})
  BY <1>4, Me5LadderAt, TakenNext DEF Step
<1>6. T(9, {"data", "pool", "page", "uiqs"})
  BY <1>5, Me5LadderAt, TakenNext DEF Step
<1>7. T(10, {"data", "pool", "page", "uiqs", "irq"})
  BY <1>6, Me5LadderAt, TakenNext DEF Step
<1>8. T(11, {"data", "pool", "page", "uiqs", "irq", "peripherals"})
  BY <1>7, Me5LadderAt, TakenNext DEF Step
<1>9. T(12, {"data", "pool", "page", "uiqs", "irq", "peripherals", "dmas"})
  BY <1>8, Me5LadderAt, TakenNext DEF Step
<1>10. "number" \notin Ladder(x)[i].gives
  BY Me5LadderAt DEF Step, Page
<1>11. Taken(x, 12) \subseteq Everything(x)
  BY <1>9 DEF Everything, ExitFrees, Me5Exit, Me6Exit, Page
<1>12. Ladder(x)[i].takes # "peripherals" => Unwound(x, i)
  <2>1. CASE i = 5
    BY <1>2, <2>1, Me5LadderAt DEF Unwound, MayLeak, Step, Page
  <2>2. CASE i = 6
    BY <1>3, <2>2, Me5LadderAt DEF Unwound, MayLeak, Step, Page
  <2>3. CASE i = 7
    BY <1>4, <2>3, Me5LadderAt DEF Unwound, MayLeak, Step, Page
  <2>4. CASE i = 8
    BY <1>5, <2>4, Me5LadderAt DEF Unwound, MayLeak, Step, Page
  <2>5. CASE i = 9
    BY <1>6, <2>5, Me5LadderAt DEF Unwound, MayLeak, Step, Page
  <2>6. CASE i = 10
    BY <1>7, <2>6, Me5LadderAt DEF Unwound, MayLeak, Step, Page
  <2>7. CASE i = 11
    BY <1>8, <2>7, Me5LadderAt DEF Unwound, MayLeak, Step, Page
  <2>8. QED
    BY <2>1, <2>2, <2>3, <2>4, <2>5, <2>6, <2>7
<1>13. QED
  BY <1>10, <1>11, <1>12

\* The ladder of a me6 board, step by step.
LEMMA Me6LadderAt ==
  ASSUME NEW x \in Boards, Family[x] = "me6"
  PROVE  /\ Ladder(x)[5] = Step("data", {}, FALSE)
        /\ Ladder(x)[6] = Step("messaging", {"data"}, TRUE)
        /\ Ladder(x)[7] = Step("uiqs", {"data"}, TRUE)
        /\ Ladder(x)[8] = Step("pool", {"data", "uiqs"}, FALSE)
        /\ Ladder(x)[9] = Step("page", {"data", "uiqs", "pool"}, FALSE)
        /\ Ladder(x)[10] = Step("irq", Page \cup {"uiqs"}, TRUE)
        /\ Ladder(x)[11] = Step("dmas", Page \cup {"uiqs", "irq"}, TRUE)
        /\ Ladder(x)[12] = Step("peripherals", Page \cup {"uiqs", "irq"}, TRUE)
         /\ Ladder(x)[13] = Link(x)
<1>1. FamilyLadder(x) = Me6Ladder /\ Len(Me6Ladder) = 8
  BY Me6Steps DEF FamilyLadder
<1> DEFINE l == Ladder(x)
           k == Link(x)
           m == Me6Ladder
<1>2. (\A j \in 5 .. Len(m) + 4 : l[j] = m[j - 4]) /\ l[Len(m) + 5] = k
  BY <1>1, LadderAt
<1>3. /\ l[5] = m[1] /\ l[6] = m[2] /\ l[7] = m[3] /\ l[8] = m[4] /\ l[9] = m[5]
      /\ l[10] = m[6] /\ l[11] = m[7] /\ l[12] = m[8] /\ l[13] = k
  <2> HIDE DEF l, k, m
  <2>1. Len(m) = 8
    BY <1>1 DEF m
  <2>2. Len(m) + 4 = 12 /\ Len(m) + 5 = 13
    BY <2>1
  <2>3. (\A j \in 5 .. 12 : l[j] = m[j - 4]) /\ l[13] = k
    BY <1>2, <2>2
  <2>4. QED
    BY <2>3
<1>4. QED
  BY <1>3, Me6Steps

\* The error labels of me6_probe leave no more than MayLeak, where it reports an error.
LEMMA Me6Unwinds ==
  ASSUME NEW x \in Boards, Family[x] = "me6", NEW i \in 5 .. 12
  PROVE  /\ Unwound(x, i)
         /\ "number" \notin Ladder(x)[i].gives
         /\ Taken(x, 13) \subseteq Everything(x)
<1> DEFINE T(j, R) == Taken(x, j) \subseteq Core \cup R
<1>2. T(5, {})
  BY CoreUnwinds
<1>3. T(6, {"data"})
  BY <1>2, Me6LadderAt, TakenNext DEF Step
<1>4. T(7, {"data", "messaging"})
  BY <1>3, Me6LadderAt, TakenNext DEF Step
<1>5. T(8, {"data", "messaging", "uiqs"})
  BY <1>4, Me6LadderAt, TakenNext DEF Step
<1>6. T(9, {"data", "messaging", "uiqs", "pool"})
  BY <1>5, Me6LadderAt, TakenNext DEF Step
<1>7. T(10, {"data", "messaging", "uiqs", "pool", "page"})
  BY <1>6, Me6LadderAt, TakenNext DEF Step
<1>8. T(11, {"data", "messaging", "uiqs", "pool", "page", "irq"})
  BY <1>7, Me6LadderAt, TakenNext DEF Step
<1>9. T(12, {"data", "messaging", "uiqs", "pool", "page", "irq", "dmas"})
  BY <1>8, Me6LadderAt, TakenNext DEF Step
<1>10. T(13, {"data", "messaging", "uiqs", "pool", "page", "irq", "dmas", "peripherals"})
  BY <1>9, Me6LadderAt, TakenNext DEF Step
<1>11. "number" \notin Ladder(x)[i].gives
  BY Me6LadderAt DEF Step, Page
<1>12. Taken(x, 13) \subseteq Everything(x)
  BY <1>10 DEF Everything, ExitFrees, Me5Exit, Me6Exit, Page
<1>13. Unwound(x, i)
  <2>1. CASE i = 5
    BY <1>2, <2>1, Me6LadderAt DEF Unwound, MayLeak, Step, Page
  <2>2. CASE i = 6
    BY <1>3, <2>2, Me6LadderAt DEF Unwound, MayLeak, Step, Page
  <2>3. CASE i = 7
    BY <1>4, <2>3, Me6LadderAt DEF Unwound, MayLeak, Step, Page
  <2>4. CASE i = 8
    BY <1>5, <2>4, Me6LadderAt DEF Unwound, MayLeak, Step, Page
  <2>5. CASE i = 9
    BY <1>6, <2>5, Me6LadderAt DEF Unwound, MayLeak, Step, Page
  <2>6. CASE i = 10
    BY <1>7, <2>6, Me6LadderAt DEF Unwound, MayLeak, Step, Page
  <2>7. CASE i = 11
    BY <1>8, <2>7, Me6LadderAt DEF Unwound, MayLeak, Step, Page
  <2>8. CASE i = 12
    BY <1>9, <2>8, Me6LadderAt DEF Unwound, MayLeak, Step, Page
  <2>9. QED
    BY <2>1, <2>2, <2>3, <2>4, <2>5, <2>6, <2>7, <2>8
<1>14. QED
  BY <1>11, <1>12, <1>13

\* What the proof needs to know about a step i of the ladder.
LEMMA LadderFacts ==
  ASSUME NEW x \in Boards, NEW i \in 1 .. Len(Ladder(x))
  PROVE  /\ Ladder(x)[i] \in StepRec
         /\ "number" \notin Ladder(x)[i].gives
         /\ ~(Family[x] = "me5" /\ Ladder(x)[i].takes = "peripherals") => Unwound(x, i)
         /\ Taken(x, Len(Ladder(x))) \subseteq Everything(x)
         /\ Ladder(x)[Len(Ladder(x))].takes = "link"
         /\ Ladder(x)[Len(Ladder(x)) - 1].takes \in {"dmas", "peripherals"}
<1>1. CASE Family[x] = "me5"
  <2>1. Len(Ladder(x)) = 12 /\ Ladder(x)[i] \in StepRec
    BY <1>1, LadderRec
  <2>2. Ladder(x)[12] = Step("link", Me5Exit, TRUE) /\ Ladder(x)[11].takes = "dmas"
    BY <1>1, Me5LadderAt DEF Link, ExitFrees, Step
  <2>3. Taken(x, 12) \subseteq Everything(x)
    BY <1>1, Me5Unwinds
  <2>4. CASE i \in 1 .. 4
    BY <2>1, <2>2, <2>3, <2>4, CoreUnwinds DEF Step
  <2>5. CASE i \in 5 .. 11
    BY <1>1, <2>1, <2>2, <2>3, <2>5, Me5Unwinds DEF Step
  <2>6. CASE i = 12
    <3>1. Taken(x, 12) \ Me5Exit \subseteq Core \cup MayLeak(x)
      BY <1>1, <2>3 DEF Everything, ExitFrees, MayLeak
    <3>2. "number" \notin Me5Exit
      BY DEF Me5Exit, Page
    <3>3. QED
      BY <2>1, <2>2, <2>3, <2>6, <3>1, <3>2 DEF Step, Unwound
  <2>7. QED
    BY <2>1, <2>4, <2>5, <2>6
<1>2. CASE Family[x] = "me6"
  <2>1. Len(Ladder(x)) = 13 /\ Ladder(x)[i] \in StepRec
    BY <1>2, LadderRec
  <2>2. Ladder(x)[13] = Step("link", Me6Exit, TRUE) /\ Ladder(x)[12].takes = "peripherals"
    BY <1>2, Me6LadderAt DEF Link, ExitFrees, Step
  <2>3. Taken(x, 13) \subseteq Everything(x)
    BY <1>2, Me6Unwinds
  <2>4. CASE i \in 1 .. 4
    BY <2>1, <2>2, <2>3, <2>4, CoreUnwinds DEF Step
  <2>5. CASE i \in 5 .. 12
    BY <1>2, <2>1, <2>2, <2>3, <2>5, Me6Unwinds DEF Step
  <2>6. CASE i = 13
    <3>1. Taken(x, 13) \ Me6Exit \subseteq Core \cup MayLeak(x)
      BY <1>2, <2>3 DEF Everything, ExitFrees, MayLeak
    <3>2. "number" \notin Me6Exit
      BY DEF Me6Exit, Me5Exit, Page
    <3>3. QED
      BY <2>1, <2>2, <2>3, <2>6, <3>1, <3>2 DEF Step, Unwound
  <2>7. QED
    BY <2>1, <2>4, <2>5, <2>6
<1>3. QED
  BY <1>1, <1>2, BoardAssumption

\* What has been taken only grows along the ladder.
LEMMA TakenGrows ==
  ASSUME NEW x, NEW i \in Nat, NEW j \in Nat, i <= j
  PROVE  Taken(x, i) \subseteq Taken(x, j)
BY DEF Taken

-----------------------------------------------------------------------------
(* The inductive invariant.                                                *)

InProbe(x) == board[x].at \in {"probing", "dropping", "failing"}

\* maxidx is above every number in use.  The number of the board that is probed is the
\* highest; once it is given back it is not below maxidx, so that the second look at it
\* (menable_obj_release) changes nothing.
Numbers ==
  /\ \A x, y \in Boards : InProbe(x) /\ InProbe(y) => x = y
  /\ \A x \in Boards :
       /\ board[x].at \in {"probing", "dropping", "up", "removing", "unregister"} => Has(x, "number")
       /\ Has(x, "number") => board[x].idx < maxidx
       /\ InProbe(x) /\ Has(x, "number") => board[x].idx = maxidx - 1
       /\ Is(x, "failing") /\ ~Has(x, "number") => board[x].idx >= maxidx
  /\ NumbersUnique

\* What a board holds at each stage of its life.
HoldsRight(x, b) ==
  /\ b.held \subseteq Everything(x)
  /\ b.at = "probing" => b.step \in 1 .. Len(Ladder(x)) /\ b.held \subseteq Taken(x, b.step)
  /\ b.at \in {"dropping", "failing"} => b.held \subseteq Core \cup MayLeak(x)
  /\ b.at \in {"removing", "unregister"} => "dmas" \notin b.held
  /\ b.at = "unregister" => b.held \cap ExitFrees(x) \subseteq Orphaned(b)
  /\ b.at = "failed" => b.held \subseteq MayLeak(x)
  /\ b.at = "removed" => b.held \subseteq Orphaned(b)

Holdings == \A x \in Boards : HoldsRight(x, board[x])

\* The files that are open on a board.
FilesOn(x) == {f \in Procs \X (Nat \ {0}) : proc[f[1]].on = x /\ f[2] <= proc[f[1]].files}

\* A process has a board exactly while it has something to do on it.
ProcFiles(p) ==
  /\ proc[p].pc = "none" => proc[p] = Outside
  /\ proc[p].pc \in Inside => proc[p].files > 0 /\ proc[p].on \in Boards
  /\ proc[p].pc \in Closing => proc[p].files = 0 /\ proc[p].on \in Boards
  /\ proc[p].on \in Boards => Is(proc[p].on, "up")

\* "use" counts the open files; a thread group has no more members than its process has
\* files; a channel that a group has started is marked in the group, which is not empty.
BoardFiles(x) ==
  /\ IsFiniteSet(FilesOn(x)) /\ board[x].use = Cardinality(FilesOn(x))
  /\ \A p \in Procs : board[x].cnt[p] > 0 =>
       /\ proc[p].on = x
       /\ board[x].cnt[p] <= proc[p].files
       /\ proc[p].pc = "group" => board[x].cnt[p] < proc[p].files
  /\ board[x].chan \in Procs =>
       board[x].chan \in board[x].marked /\ board[x].cnt[board[x].chan] > 0
  /\ board[x].chan # "none" => board[x].use > 0
  /\ (Family[x] = "me5" /\ board[x].irq) => board[x].use > 0

Files == (\A p \in Procs : ProcFiles(p)) /\ (\A x \in Boards : BoardFiles(x))

IInv == TypeOK /\ Numbers /\ Holdings /\ Files

\* The invariant holds when the driver is loaded.
LEMMA InitIInv == Init => IInv
<1> SUFFICES ASSUME Init PROVE IInv
  OBVIOUS
<1> USE BoardAssumption
<1>1. TypeOK
  BY DEF Init, TypeOK, NoBoard, Outside, BoardRec, ProcRec, Resources
<1>2. Numbers
  BY DEF Init, Numbers, NumbersUnique, NoBoard, Has, Is, InProbe
<1>3. Holdings
  BY DEF Init, Holdings, HoldsRight, NoBoard
<1>4. Files
  <2>1. \A x \in Boards : FilesOn(x) = {}
    BY DEF Init, FilesOn, Outside
  <2>2. \A p \in Procs : ProcFiles(p)
    BY DEF Init, ProcFiles, Outside, Inside, Closing
  <2>3. \A x \in Boards : BoardFiles(x)
    <3>1. TAKE x \in Boards
    <3>2. board[x] = NoBoard
      BY DEF Init
    <3>3. IsFiniteSet(FilesOn(x)) /\ Cardinality(FilesOn(x)) = 0
      BY <2>1, FS_EmptySet
    <3>4. QED
      BY <3>2, <3>3 DEF BoardFiles, NoBoard
  <2>4. QED
    BY <2>2, <2>3 DEF Files
<1>5. QED
  BY <1>1, <1>2, <1>3, <1>4 DEF IInv

-----------------------------------------------------------------------------
(* Steps of the processes.                                                 *)

\* One board changes, and one process.
Step1(p, x, r, q) ==
  /\ board' = [board EXCEPT ![x] = r]
  /\ proc' = [proc EXCEPT ![p] = q]
  /\ maxidx' = maxidx
  /\ count' \in [probes : Nat, faults : Nat, calls : Nat]

\* The life of the board goes on as before.
SameLife(x, r) ==
  /\ r \in BoardRec /\ Is(x, "up") /\ r.at = "up" /\ r.idx = board[x].idx
  /\ "number" \in r.held
  /\ r.held \subseteq board[x].held \cup {"dmas", "peripherals"}

\* A step of a process keeps the types.
LEMMA ProcessKeepsType ==
  ASSUME TypeOK, NEW p \in Procs, NEW x \in Boards, NEW r \in BoardRec, NEW q \in ProcRec,
         Step1(p, x, r, q)
  PROVE  TypeOK'
BY DEF TypeOK, Step1

\* A step of a process on a board that is up disturbs neither numbers nor holdings.
LEMMA ProcessKeepsLife ==
  ASSUME TypeOK, Numbers, Holdings,
         NEW p \in Procs, NEW x \in Boards, NEW r, NEW q, Step1(p, x, r, q), SameLife(x, r)
  PROVE  Numbers' /\ Holdings'
<1>1. /\ board'[x] = r /\ \A y \in Boards \ {x} : board'[y] = board[y]
      /\ maxidx' = maxidx
  BY DEF TypeOK, Step1
<1>2. /\ board[x].at = "up" /\ r.at = "up" /\ "number" \in r.held /\ r.idx = board[x].idx
      /\ r.held \subseteq board[x].held \cup {"dmas", "peripherals"}
  BY DEF SameLife, Is
<1>3. \A y \in Boards : board'[y].at = board[y].at /\ board'[y].idx = board[y].idx
  BY <1>1, <1>2
<1>4. \A y \in Boards : "number" \in board'[y].held <=> "number" \in board[y].held
  BY <1>1, <1>2 DEF Numbers, Has
<1>5. Numbers'
  BY <1>1, <1>3, <1>4 DEF Numbers, NumbersUnique, InProbe, Has, Is
<1>6. Holdings'
  <2>1. {"dmas", "peripherals"} \subseteq Everything(x)
    BY DEF Everything, ExitFrees, Me5Exit, Me6Exit
  <2>2. r.held \subseteq Everything(x)
    BY <1>2, <2>1 DEF Holdings, HoldsRight
  <2>3. HoldsRight(x, r)
    BY <1>2, <2>2 DEF HoldsRight
  <2>4. QED
    BY <1>1, <2>3 DEF Holdings
<1>7. QED
  BY <1>5, <1>6

\* A file that is open is counted.
LEMMA OpenIsUse ==
  ASSUME TypeOK, Files, NEW p \in Procs, NEW x \in Boards, proc[p].on = x, proc[p].files > 0
  PROVE  board[x].use > 0
<1>1. <<p, 1>> \in FilesOn(x)
  BY DEF FilesOn, TypeOK, ProcRec
<1>2. IsFiniteSet(FilesOn(x)) /\ board[x].use = Cardinality(FilesOn(x))
  BY DEF Files, BoardFiles
<1>3. Cardinality(FilesOn(x)) # 0
  BY <1>1, <1>2, FS_EmptySet
<1>4. QED
  BY <1>2, <1>3, FS_CardinalityType

\* A step that leaves alone who has which files open and the members of the groups.
Quiet(p, x, r, q) ==
  /\ proc[p].on = x /\ q \in ProcRec /\ q.on = x /\ q.files = proc[p].files
  /\ \/ proc[p].pc \in Inside /\ q.pc \in Inside \ {"group"}
     \/ proc[p].pc \in Closing /\ q.pc \in Closing
  /\ SameLife(x, r) /\ r.use = board[x].use /\ r.cnt = board[x].cnt
  /\ board[x].marked \subseteq r.marked
  /\ r.chan \in Procs => r.chan \in r.marked /\ r.cnt[r.chan] > 0
  /\ r.chan # "none" => r.use > 0
  /\ (Family[x] = "me5" /\ r.irq) => r.use > 0

\* Quiet steps preserve the invariant.
LEMMA QuietKeepsIInv ==
  ASSUME IInv, NEW p \in Procs, NEW x \in Boards, NEW r, NEW q,
         Step1(p, x, r, q), Quiet(p, x, r, q)
  PROVE  IInv'
<1>1. r \in BoardRec /\ q \in ProcRec
  BY DEF Quiet, SameLife
<1>2. TypeOK' /\ Numbers' /\ Holdings'
  BY <1>1, ProcessKeepsType, ProcessKeepsLife DEF IInv, Quiet
<1>3. /\ board'[x] = r /\ \A y \in Boards \ {x} : board'[y] = board[y]
      /\ proc'[p] = q /\ \A s \in Procs \ {p} : proc'[s] = proc[s]
  BY DEF IInv, TypeOK, Step1
<1>4. \A s \in Procs : proc'[s].on = proc[s].on /\ proc'[s].files = proc[s].files
  BY <1>3 DEF Quiet
<1>5. \A y : FilesOn(y)' = FilesOn(y)
  BY <1>4 DEF FilesOn
<1>6. \A y \in Boards : board'[y].at = board[y].at
  BY <1>3 DEF Quiet, SameLife, Is
<1>7. \A s \in Procs : ProcFiles(s)'
  <2>1. TAKE s \in Procs
  <2>2. ProcFiles(s)
    BY DEF IInv, Files
  <2>3. CASE s # p
    BY <1>3, <1>6, <2>2, <2>3 DEF ProcFiles, Is
  <2>4. CASE s = p
    BY <1>3, <1>6, <2>2, <2>4 DEF ProcFiles, Is, Quiet, Inside, Closing
  <2>5. QED
    BY <2>3, <2>4
<1>8. \A y \in Boards : BoardFiles(y)'
  <2>1. TAKE y \in Boards
  <2>2. BoardFiles(y)
    BY DEF IInv, Files
  <2>3. \A s \in Procs : proc'[s].pc = "group" => proc[s].pc = "group"
    BY <1>3 DEF Quiet, Closing
  <2>4. /\ board'[y].use = board[y].use /\ board'[y].cnt = board[y].cnt
        /\ board'[y].chan \in Procs => board'[y].chan \in board'[y].marked /\ board'[y].cnt[board'[y].chan] > 0
        /\ board'[y].chan # "none" => board'[y].use > 0
        /\ (Family[y] = "me5" /\ board'[y].irq) => board'[y].use > 0
    <3>1. CASE y = x
      BY <1>3, <3>1 DEF Quiet
    <3>2. CASE y # x
      BY <1>3, <2>2, <3>2 DEF BoardFiles
    <3>3. QED
      BY <3>1, <3>2
  <2>5. IsFiniteSet(FilesOn(y)') /\ board'[y].use = Cardinality(FilesOn(y)')
    BY <1>5, <2>2, <2>4 DEF BoardFiles
  <2>6. \A s \in Procs : board'[y].cnt[s] > 0 =>
       /\ proc'[s].on = y
       /\ board'[y].cnt[s] <= proc'[s].files
       /\ proc'[s].pc = "group" => board'[y].cnt[s] < proc'[s].files
    BY <1>4, <2>2, <2>3, <2>4 DEF BoardFiles
  <2>7. QED
    BY <2>4, <2>5, <2>6 DEF BoardFiles
<1>9. QED
  BY <1>2, <1>7, <1>8 DEF IInv, Files

\* What is known of a process that is busy on a board.
LEMMA Busy ==
  ASSUME IInv, NEW p \in Procs, proc[p].pc \in Inside \cup Closing
  PROVE  /\ proc[p].on \in Boards /\ board[proc[p].on].at = "up"
         /\ board[proc[p].on] \in BoardRec /\ "number" \in board[proc[p].on].held
         /\ proc[p] \in ProcRec
         /\ count \in [probes : Nat, faults : Nat, calls : Nat]
         /\ BoardFiles(proc[p].on)
         /\ proc[p].pc \in Inside => board[proc[p].on].use > 0
<1>1. proc[p].on \in Boards /\ board[proc[p].on].at = "up"
  BY DEF IInv, Files, ProcFiles, Is
<1>2. "number" \in board[proc[p].on].held
  BY <1>1 DEF IInv, Numbers, Has
<1>3. proc[p].pc \in Inside => board[proc[p].on].use > 0
  BY <1>1, OpenIsUse DEF IInv, Files, ProcFiles
<1>4. QED
  BY <1>1, <1>2, <1>3 DEF IInv, TypeOK, Files

\* A process goes on while its board changes in what no file depends on.
QuietChange(p, x, r, pc) ==
  /\ \/ proc[p].pc \in Inside /\ pc \in Inside \ {"group"}
     \/ proc[p].pc \in Closing /\ pc \in Closing
  /\ board' = [board EXCEPT ![x] = r] /\ proc' = [proc EXCEPT ![p].pc = pc]
  /\ maxidx' = maxidx /\ count' \in [probes : Nat, faults : Nat, calls : Nat]
  /\ r.at = board[x].at /\ r.idx = board[x].idx /\ r.use = board[x].use /\ r.cnt = board[x].cnt
  /\ "number" \in board[x].held => "number" \in r.held
  /\ r.held \subseteq board[x].held \cup {"dmas", "peripherals"}
  /\ board[x].marked \subseteq r.marked
  /\ \/ r.chan \in {board[x].chan, "none"}
     \/ proc[p].pc \in Inside /\ r.chan = "nobody"
     \/ proc[p].pc \in Inside /\ r.chan = p /\ p \in r.marked /\ board[x].cnt[p] > 0
  /\ r.irq => board[x].irq \/ proc[p].pc \in Inside

\* Quiet changes preserve the invariant.
LEMMA QuietStep ==
  ASSUME IInv, NEW p \in Procs, NEW x, x = proc[p].on, NEW r \in BoardRec, NEW pc,
         QuietChange(p, x, r, pc)
  PROVE  IInv'
<1> DEFINE q == [proc[p] EXCEPT !.pc = pc]
<1>1. proc[p].pc \in Inside \cup Closing
  BY DEF QuietChange
<1>2. /\ x \in Boards /\ board[x].at = "up" /\ board[x] \in BoardRec /\ "number" \in board[x].held
      /\ proc[p] \in ProcRec /\ BoardFiles(x) /\ (proc[p].pc \in Inside => board[x].use > 0)
  BY <1>1, Busy
<1>3. q \in ProcRec /\ q.on = x /\ q.files = proc[p].files /\ q.pc = pc
  BY <1>2 DEF ProcRec, Inside, Closing, QuietChange
<1>4. Step1(p, x, r, q)
  BY DEF Step1, IInv, TypeOK, QuietChange
<1> HIDE DEF q
<1>5. SameLife(x, r)
  BY <1>2 DEF SameLife, Is, QuietChange
<1>6. /\ r.chan \in Procs => r.chan \in r.marked /\ r.cnt[r.chan] > 0
      /\ r.chan # "none" => r.use > 0
  BY <1>2, BoardAssumption DEF BoardFiles, QuietChange
<1>7. (Family[x] = "me5" /\ r.irq) => r.use > 0
  BY <1>2 DEF BoardFiles, QuietChange
<1>8. Quiet(p, x, r, q)
  BY <1>2, <1>3, <1>5, <1>6, <1>7 DEF Quiet, QuietChange
<1>9. QED
  BY <1>2, <1>4, <1>8, QuietKeepsIInv

\* Cleanup preserves the invariant.
LEMMA CleanupKeeps ==
  ASSUME IInv, NEW p \in Procs, Cleanup(p)
  PROVE  IInv'
<1> DEFINE x == proc[p].on
           r == [board[x] EXCEPT !.changing = TRUE]
           pc == "del"
<1>1. proc[p].pc = "mem" /\ maxidx' = maxidx
  BY DEF Cleanup, In
<1>2. proc[p].pc \in Inside \cup Closing
  BY <1>1 DEF Inside, Closing
<1>3. /\ x \in Boards /\ board[x] \in BoardRec /\ proc[p] \in ProcRec
      /\ count \in [probes : Nat, faults : Nat, calls : Nat]
  BY <1>2, Busy
<1>4. count' \in [probes : Nat, faults : Nat, calls : Nat]
  BY <1>3 DEF Cleanup
<1>5. board' = [board EXCEPT ![x] = r] /\ proc' = [proc EXCEPT ![p].pc = pc]
  BY DEF Cleanup, Becomes, Goes, On
<1>6. r \in BoardRec
  BY <1>3 DEF BoardRec, Resources
<1>7. /\ r.at = board[x].at /\ r.idx = board[x].idx /\ r.use = board[x].use /\ r.cnt = board[x].cnt
      /\ "number" \in board[x].held => "number" \in r.held
      /\ r.held \subseteq board[x].held \cup {"dmas", "peripherals"}
      /\ board[x].marked \subseteq r.marked
      /\ \/ r.chan \in {board[x].chan, "none"}
         \/ r.chan = "nobody"
         \/ r.chan = p /\ p \in r.marked /\ board[x].cnt[p] > 0
      /\ r.irq => board[x].irq
  BY <1>3 DEF BoardRec
<1>8. \/ proc[p].pc \in Inside /\ pc \in Inside \ {"group"}
      \/ r.chan = board[x].chan /\ proc[p].pc \in Closing /\ pc \in Closing
  BY <1>1, <1>3 DEF Inside, Closing, BoardRec
<1> HIDE DEF x, r, pc
<1>9. QuietChange(p, x, r, pc)
  BY <1>1, <1>4, <1>5, <1>7, <1>8 DEF QuietChange, Inside, Closing
<1>10. QED
  BY <1>6, <1>9, QuietStep DEF x

\* StopDma preserves the invariant.
LEMMA StopDmaKeeps ==
  ASSUME IInv, NEW p \in Procs, StopDma(p)
  PROVE  IInv'
<1> DEFINE x == proc[p].on
           r == [board[x] EXCEPT !.chan = "none"]
           pc == "in"
<1>1. proc[p].pc = "in" /\ maxidx' = maxidx
  BY DEF StopDma, Call, In
<1>2. proc[p].pc \in Inside \cup Closing
  BY <1>1 DEF Inside, Closing
<1>3. /\ x \in Boards /\ board[x] \in BoardRec /\ proc[p] \in ProcRec
      /\ count \in [probes : Nat, faults : Nat, calls : Nat]
  BY <1>2, Busy
<1>4. count' \in [probes : Nat, faults : Nat, calls : Nat]
  BY <1>3 DEF StopDma, Call
<1>5. board' = [board EXCEPT ![x] = r] /\ proc' = [proc EXCEPT ![p].pc = pc]
  <2>1. proc' = proc /\ board' = [board EXCEPT ![x] = r]
    BY DEF StopDma, Becomes, On
  <2>2. [proc[p] EXCEPT !.pc = pc] = proc[p]
    BY <1>1, <1>3 DEF ProcRec
  <2>3. QED
    BY <2>1, <2>2 DEF IInv, TypeOK
<1>6. r \in BoardRec
  BY <1>3 DEF BoardRec, Resources
<1>7. /\ r.at = board[x].at /\ r.idx = board[x].idx /\ r.use = board[x].use /\ r.cnt = board[x].cnt
      /\ "number" \in board[x].held => "number" \in r.held
      /\ r.held \subseteq board[x].held \cup {"dmas", "peripherals"}
      /\ board[x].marked \subseteq r.marked
      /\ \/ r.chan \in {board[x].chan, "none"}
         \/ r.chan = "nobody"
         \/ r.chan = p /\ p \in r.marked /\ board[x].cnt[p] > 0
      /\ r.irq => board[x].irq
  BY <1>3 DEF BoardRec
<1>8. \/ proc[p].pc \in Inside /\ pc \in Inside \ {"group"}
      \/ proc[p].pc \in Closing /\ pc \in Closing
  BY <1>1, <1>3 DEF Inside, Closing, BoardRec
<1> HIDE DEF x, r, pc
<1>9. QuietChange(p, x, r, pc)
  BY <1>1, <1>4, <1>5, <1>7, <1>8 DEF QuietChange, Inside, Closing
<1>10. QED
  BY <1>6, <1>9, QuietStep DEF x

\* PPControlEnds preserves the invariant.
LEMMA PPControlEndsKeeps ==
  ASSUME IInv, NEW p \in Procs, PPControlEnds(p)
  PROVE  IInv'
<1> DEFINE x == proc[p].on
           r == [board[x] EXCEPT !.changing = FALSE]
           pc == "in"
<1>1. proc[p].pc = "pp" /\ maxidx' = maxidx
  BY DEF PPControlEnds, In
<1>2. proc[p].pc \in Inside \cup Closing
  BY <1>1 DEF Inside, Closing
<1>3. /\ x \in Boards /\ board[x] \in BoardRec /\ proc[p] \in ProcRec
      /\ count \in [probes : Nat, faults : Nat, calls : Nat]
  BY <1>2, Busy
<1>4. count' \in [probes : Nat, faults : Nat, calls : Nat]
  BY <1>3 DEF PPControlEnds
<1>5. board' = [board EXCEPT ![x] = r] /\ proc' = [proc EXCEPT ![p].pc = pc]
  BY DEF PPControlEnds, Becomes, Goes, On
<1>6. r \in BoardRec
  BY <1>3 DEF BoardRec, Resources
<1>7. /\ r.at = board[x].at /\ r.idx = board[x].idx /\ r.use = board[x].use /\ r.cnt = board[x].cnt
      /\ "number" \in board[x].held => "number" \in r.held
      /\ r.held \subseteq board[x].held \cup {"dmas", "peripherals"}
      /\ board[x].marked \subseteq r.marked
      /\ \/ r.chan \in {board[x].chan, "none"}
         \/ r.chan = "nobody"
         \/ r.chan = p /\ p \in r.marked /\ board[x].cnt[p] > 0
      /\ r.irq => board[x].irq
  BY <1>3 DEF BoardRec
<1>8. \/ proc[p].pc \in Inside /\ pc \in Inside \ {"group"}
      \/ proc[p].pc \in Closing /\ pc \in Closing
  BY <1>1, <1>3 DEF Inside, Closing, BoardRec
<1> HIDE DEF x, r, pc
<1>9. QuietChange(p, x, r, pc)
  BY <1>1, <1>4, <1>5, <1>7, <1>8 DEF QuietChange, Inside, Closing
<1>10. QED
  BY <1>6, <1>9, QuietStep DEF x

\* Reconfigure preserves the invariant.
LEMMA ReconfigureKeeps ==
  ASSUME IInv, NEW p \in Procs, Reconfigure(p)
  PROVE  IInv'
<1> DEFINE x == proc[p].on
           r == board[x]
           pc == IF board[x].releasing THEN "reset" ELSE "removed"
<1>1. proc[p].pc = "in" /\ maxidx' = maxidx
  BY DEF Reconfigure, Call, In
<1>2. proc[p].pc \in Inside \cup Closing
  BY <1>1 DEF Inside, Closing
<1>3. /\ x \in Boards /\ board[x] \in BoardRec /\ proc[p] \in ProcRec
      /\ count \in [probes : Nat, faults : Nat, calls : Nat]
  BY <1>2, Busy
<1>4. count' \in [probes : Nat, faults : Nat, calls : Nat]
  BY <1>3 DEF Reconfigure, Call
<1>5. board' = [board EXCEPT ![x] = r] /\ proc' = [proc EXCEPT ![p].pc = pc]
  BY <1>3 DEF Reconfigure, Goes, On, IInv, TypeOK
<1>6. r \in BoardRec
  BY <1>3 DEF BoardRec, Resources
<1>7. /\ r.at = board[x].at /\ r.idx = board[x].idx /\ r.use = board[x].use /\ r.cnt = board[x].cnt
      /\ "number" \in board[x].held => "number" \in r.held
      /\ r.held \subseteq board[x].held \cup {"dmas", "peripherals"}
      /\ board[x].marked \subseteq r.marked
      /\ \/ r.chan \in {board[x].chan, "none"}
         \/ r.chan = "nobody"
         \/ r.chan = p /\ p \in r.marked /\ board[x].cnt[p] > 0
      /\ r.irq => board[x].irq
  BY <1>3 DEF BoardRec
<1>8. \/ proc[p].pc \in Inside /\ pc \in Inside \ {"group"}
      \/ proc[p].pc \in Closing /\ pc \in Closing
  BY <1>1, <1>3 DEF Inside, Closing, BoardRec
<1> HIDE DEF x, r, pc
<1>9. QuietChange(p, x, r, pc)
  BY <1>1, <1>4, <1>5, <1>7, <1>8 DEF QuietChange, Inside, Closing
<1>10. QED
  BY <1>6, <1>9, QuietStep DEF x

\* DeviceRemoved preserves the invariant.
LEMMA DeviceRemovedKeeps ==
  ASSUME IInv, NEW p \in Procs, DeviceRemoved(p)
  PROVE  IInv'
<1> DEFINE x == proc[p].on
           r == [board[x] EXCEPT !.releasing = TRUE, !.irq = FALSE]
           pc == "wait"
<1>1. proc[p].pc = "removed" /\ maxidx' = maxidx
  BY DEF DeviceRemoved, In
<1>2. proc[p].pc \in Inside \cup Closing
  BY <1>1 DEF Inside, Closing
<1>3. /\ x \in Boards /\ board[x] \in BoardRec /\ proc[p] \in ProcRec
      /\ count \in [probes : Nat, faults : Nat, calls : Nat]
  BY <1>2, Busy
<1>4. count' \in [probes : Nat, faults : Nat, calls : Nat]
  BY <1>3 DEF DeviceRemoved
<1>5. board' = [board EXCEPT ![x] = r] /\ proc' = [proc EXCEPT ![p].pc = pc]
  BY DEF DeviceRemoved, Becomes, Goes, On
<1>6. r \in BoardRec
  BY <1>3 DEF BoardRec, Resources
<1>7. /\ r.at = board[x].at /\ r.idx = board[x].idx /\ r.use = board[x].use /\ r.cnt = board[x].cnt
      /\ "number" \in board[x].held => "number" \in r.held
      /\ r.held \subseteq board[x].held \cup {"dmas", "peripherals"}
      /\ board[x].marked \subseteq r.marked
      /\ \/ r.chan \in {board[x].chan, "none"}
         \/ r.chan = "nobody"
         \/ r.chan = p /\ p \in r.marked /\ board[x].cnt[p] > 0
      /\ r.irq => board[x].irq
  BY <1>3 DEF BoardRec
<1>8. \/ proc[p].pc \in Inside /\ pc \in Inside \ {"group"}
      \/ proc[p].pc \in Closing /\ pc \in Closing
  BY <1>1, <1>3 DEF Inside, Closing, BoardRec
<1> HIDE DEF x, r, pc
<1>9. QuietChange(p, x, r, pc)
  BY <1>1, <1>4, <1>5, <1>7, <1>8 DEF QuietChange, Inside, Closing
<1>10. QED
  BY <1>6, <1>9, QuietStep DEF x

\* DeviceRemovedWaits preserves the invariant.
LEMMA DeviceRemovedWaitsKeeps ==
  ASSUME IInv, NEW p \in Procs, DeviceRemovedWaits(p)
  PROVE  IInv'
<1> DEFINE x == proc[p].on
           r == [board[x] EXCEPT !.changing = TRUE]
           pc == "drop"
<1>1. proc[p].pc = "wait" /\ maxidx' = maxidx
  BY DEF DeviceRemovedWaits, In
<1>2. proc[p].pc \in Inside \cup Closing
  BY <1>1 DEF Inside, Closing
<1>3. /\ x \in Boards /\ board[x] \in BoardRec /\ proc[p] \in ProcRec
      /\ count \in [probes : Nat, faults : Nat, calls : Nat]
  BY <1>2, Busy
<1>4. count' \in [probes : Nat, faults : Nat, calls : Nat]
  BY <1>3 DEF DeviceRemovedWaits
<1>5. board' = [board EXCEPT ![x] = r] /\ proc' = [proc EXCEPT ![p].pc = pc]
  BY DEF DeviceRemovedWaits, Becomes, Goes, On
<1>6. r \in BoardRec
  BY <1>3 DEF BoardRec, Resources
<1>7. /\ r.at = board[x].at /\ r.idx = board[x].idx /\ r.use = board[x].use /\ r.cnt = board[x].cnt
      /\ "number" \in board[x].held => "number" \in r.held
      /\ r.held \subseteq board[x].held \cup {"dmas", "peripherals"}
      /\ board[x].marked \subseteq r.marked
      /\ \/ r.chan \in {board[x].chan, "none"}
         \/ r.chan = "nobody"
         \/ r.chan = p /\ p \in r.marked /\ board[x].cnt[p] > 0
      /\ r.irq => board[x].irq
  BY <1>3 DEF BoardRec
<1>8. \/ proc[p].pc \in Inside /\ pc \in Inside \ {"group"}
      \/ proc[p].pc \in Closing /\ pc \in Closing
  BY <1>1, <1>3 DEF Inside, Closing, BoardRec
<1> HIDE DEF x, r, pc
<1>9. QuietChange(p, x, r, pc)
  BY <1>1, <1>4, <1>5, <1>7, <1>8 DEF QuietChange, Inside, Closing
<1>10. QED
  BY <1>6, <1>9, QuietStep DEF x

\* DropDmas preserves the invariant.
LEMMA DropDmasKeeps ==
  ASSUME IInv, NEW p \in Procs, DropDmas(p)
  PROVE  IInv'
<1> DEFINE x == proc[p].on
           r == [board[x] EXCEPT !.held = @ \ {"dmas", "peripherals"}, !.chan = "none"]
           pc == "reset"
<1>1. proc[p].pc = "drop" /\ maxidx' = maxidx
  BY DEF DropDmas, In
<1>2. proc[p].pc \in Inside \cup Closing
  BY <1>1 DEF Inside, Closing
<1>3. /\ x \in Boards /\ board[x] \in BoardRec /\ proc[p] \in ProcRec
      /\ count \in [probes : Nat, faults : Nat, calls : Nat]
  BY <1>2, Busy
<1>4. count' \in [probes : Nat, faults : Nat, calls : Nat]
  BY <1>3 DEF DropDmas
<1>5. board' = [board EXCEPT ![x] = r] /\ proc' = [proc EXCEPT ![p].pc = pc]
  BY DEF DropDmas, Becomes, Goes, On
<1>6. r \in BoardRec
  BY <1>3 DEF BoardRec, Resources
<1>7. /\ r.at = board[x].at /\ r.idx = board[x].idx /\ r.use = board[x].use /\ r.cnt = board[x].cnt
      /\ "number" \in board[x].held => "number" \in r.held
      /\ r.held \subseteq board[x].held \cup {"dmas", "peripherals"}
      /\ board[x].marked \subseteq r.marked
      /\ \/ r.chan \in {board[x].chan, "none"}
         \/ r.chan = "nobody"
         \/ r.chan = p /\ p \in r.marked /\ board[x].cnt[p] > 0
      /\ r.irq => board[x].irq
  BY <1>3 DEF BoardRec
<1>8. \/ proc[p].pc \in Inside /\ pc \in Inside \ {"group"}
      \/ proc[p].pc \in Closing /\ pc \in Closing
  BY <1>1, <1>3 DEF Inside, Closing, BoardRec
<1> HIDE DEF x, r, pc
<1>9. QuietChange(p, x, r, pc)
  BY <1>1, <1>4, <1>5, <1>7, <1>8 DEF QuietChange, Inside, Closing
<1>10. QED
  BY <1>6, <1>9, QuietStep DEF x

\* Reconnected preserves the invariant.
LEMMA ReconnectedKeeps ==
  ASSUME IInv, NEW p \in Procs, Reconnected(p)
  PROVE  IInv'
<1> DEFINE x == proc[p].on
           r == [board[x] EXCEPT !.held = @ \cup {"peripherals"}, !.releasing = FALSE, !.irq = TRUE]
           pc == "add"
<1>1. proc[p].pc = "reset" /\ maxidx' = maxidx
  BY DEF Reconnected, In
<1>2. proc[p].pc \in Inside \cup Closing
  BY <1>1 DEF Inside, Closing
<1>3. /\ x \in Boards /\ board[x] \in BoardRec /\ proc[p] \in ProcRec
      /\ count \in [probes : Nat, faults : Nat, calls : Nat]
  BY <1>2, Busy
<1>4. count' \in [probes : Nat, faults : Nat, calls : Nat]
  BY <1>3 DEF Reconnected
<1>5. board' = [board EXCEPT ![x] = r] /\ proc' = [proc EXCEPT ![p].pc = pc]
  BY DEF Reconnected, Becomes, Goes, On
<1>6. r \in BoardRec
  BY <1>3 DEF BoardRec, Resources
<1>7. /\ r.at = board[x].at /\ r.idx = board[x].idx /\ r.use = board[x].use /\ r.cnt = board[x].cnt
      /\ "number" \in board[x].held => "number" \in r.held
      /\ r.held \subseteq board[x].held \cup {"dmas", "peripherals"}
      /\ board[x].marked \subseteq r.marked
      /\ \/ r.chan \in {board[x].chan, "none"}
         \/ r.chan = "nobody"
         \/ r.chan = p /\ p \in r.marked /\ board[x].cnt[p] > 0
      /\ r.irq \in BOOLEAN
  BY <1>3 DEF BoardRec
<1>8. \/ proc[p].pc \in Inside /\ pc \in Inside \ {"group"}
      \/ proc[p].pc \in Closing /\ pc \in Closing
  BY <1>1, <1>3 DEF Inside, Closing, BoardRec
<1> HIDE DEF x, r, pc
<1>9. QuietChange(p, x, r, pc)
  BY <1>1, <1>4, <1>5, <1>7, <1>8 DEF QuietChange, Inside, Closing
<1>10. QED
  BY <1>6, <1>9, QuietStep DEF x

\* ReconfigureEnds preserves the invariant.
LEMMA ReconfigureEndsKeeps ==
  ASSUME IInv, NEW p \in Procs, ReconfigureEnds(p)
  PROVE  IInv'
<1> DEFINE x == proc[p].on
           r == [board[x] EXCEPT !.changing = FALSE]
           pc == "in"
<1>1. proc[p].pc = "changed" /\ maxidx' = maxidx
  BY DEF ReconfigureEnds, In
<1>2. proc[p].pc \in Inside \cup Closing
  BY <1>1 DEF Inside, Closing
<1>3. /\ x \in Boards /\ board[x] \in BoardRec /\ proc[p] \in ProcRec
      /\ count \in [probes : Nat, faults : Nat, calls : Nat]
  BY <1>2, Busy
<1>4. count' \in [probes : Nat, faults : Nat, calls : Nat]
  BY <1>3 DEF ReconfigureEnds
<1>5. board' = [board EXCEPT ![x] = r] /\ proc' = [proc EXCEPT ![p].pc = pc]
  BY DEF ReconfigureEnds, Becomes, Goes, On
<1>6. r \in BoardRec
  BY <1>3 DEF BoardRec, Resources
<1>7. /\ r.at = board[x].at /\ r.idx = board[x].idx /\ r.use = board[x].use /\ r.cnt = board[x].cnt
      /\ "number" \in board[x].held => "number" \in r.held
      /\ r.held \subseteq board[x].held \cup {"dmas", "peripherals"}
      /\ board[x].marked \subseteq r.marked
      /\ \/ r.chan \in {board[x].chan, "none"}
         \/ r.chan = "nobody"
         \/ r.chan = p /\ p \in r.marked /\ board[x].cnt[p] > 0
      /\ r.irq => board[x].irq
  BY <1>3 DEF BoardRec
<1>8. \/ proc[p].pc \in Inside /\ pc \in Inside \ {"group"}
      \/ proc[p].pc \in Closing /\ pc \in Closing
  BY <1>1, <1>3 DEF Inside, Closing, BoardRec
<1> HIDE DEF x, r, pc
<1>9. QuietChange(p, x, r, pc)
  BY <1>1, <1>4, <1>5, <1>7, <1>8 DEF QuietChange, Inside, Closing
<1>10. QED
  BY <1>6, <1>9, QuietStep DEF x

\* StartDma preserves the invariant.
LEMMA StartDmaKeeps ==
  ASSUME IInv, NEW p \in Procs, StartDma(p)
  PROVE  IInv'
<1> DEFINE x == proc[p].on
           r == IF board[x].cnt[p] > 0
                THEN [board[x] EXCEPT !.chan = p, !.marked = @ \cup {p}]
                ELSE [board[x] EXCEPT !.chan = "nobody"]
           pc == "in"
<1>1. proc[p].pc = "in" /\ maxidx' = maxidx
  BY DEF StartDma, Call, In
<1>2. proc[p].pc \in Inside \cup Closing
  BY <1>1 DEF Inside, Closing
<1>3. /\ x \in Boards /\ board[x] \in BoardRec /\ proc[p] \in ProcRec
      /\ count \in [probes : Nat, faults : Nat, calls : Nat]
  BY <1>2, Busy
<1>4. count' \in [probes : Nat, faults : Nat, calls : Nat]
  BY <1>3 DEF StartDma, Call
<1>5. board' = [board EXCEPT ![x] = r] /\ proc' = [proc EXCEPT ![p].pc = pc]
  <2>1. proc' = proc /\ board' = [board EXCEPT ![x] = r]
    BY DEF StartDma, Becomes, On
  <2>2. [proc[p] EXCEPT !.pc = pc] = proc[p]
    BY <1>1, <1>3 DEF ProcRec
  <2>3. QED
    BY <2>1, <2>2 DEF IInv, TypeOK
<1>6. r \in BoardRec
  BY <1>3 DEF BoardRec, Resources
<1>7. /\ r.at = board[x].at /\ r.idx = board[x].idx /\ r.use = board[x].use /\ r.cnt = board[x].cnt
      /\ "number" \in board[x].held => "number" \in r.held
      /\ r.held \subseteq board[x].held \cup {"dmas", "peripherals"}
      /\ board[x].marked \subseteq r.marked
      /\ \/ r.chan \in {board[x].chan, "none"}
         \/ r.chan = "nobody"
         \/ r.chan = p /\ p \in r.marked /\ board[x].cnt[p] > 0
      /\ r.irq => board[x].irq
  BY <1>3 DEF BoardRec
<1>8. \/ proc[p].pc \in Inside /\ pc \in Inside \ {"group"}
      \/ proc[p].pc \in Closing /\ pc \in Closing
  BY <1>1, <1>3 DEF Inside, Closing, BoardRec
<1> HIDE DEF x, r, pc
<1>9. QuietChange(p, x, r, pc)
  BY <1>1, <1>4, <1>5, <1>7, <1>8 DEF QuietChange, Inside, Closing
<1>10. QED
  BY <1>6, <1>9, QuietStep DEF x

\* Configure preserves the invariant.
LEMMA ConfigureKeeps ==
  ASSUME IInv, NEW p \in Procs, Configure(p)
  PROVE  IInv'
<1> DEFINE x == proc[p].on
           r == IF board[x].state = "UNINITIALISED" THEN board[x]
                ELSE [board[x] EXCEPT !.irq = FALSE, !.state = "UNINITIALISED",
                                      !.held = @ \ {"peripherals"}]
           pc == "write"
<1>1. proc[p].pc = "in" /\ maxidx' = maxidx
  BY DEF Configure, Call, In
<1>2. proc[p].pc \in Inside \cup Closing
  BY <1>1 DEF Inside, Closing
<1>3. /\ x \in Boards /\ board[x] \in BoardRec /\ proc[p] \in ProcRec
      /\ count \in [probes : Nat, faults : Nat, calls : Nat]
  BY <1>2, Busy
<1>4. count' \in [probes : Nat, faults : Nat, calls : Nat]
  BY <1>3 DEF Configure, Call
<1>5. board' = [board EXCEPT ![x] = r] /\ proc' = [proc EXCEPT ![p].pc = pc]
  BY DEF Configure, Becomes, Goes, On
<1>6. r \in BoardRec
  BY <1>3 DEF BoardRec, Resources
<1>7. /\ r.at = board[x].at /\ r.idx = board[x].idx /\ r.use = board[x].use /\ r.cnt = board[x].cnt
      /\ "number" \in board[x].held => "number" \in r.held
      /\ r.held \subseteq board[x].held \cup {"dmas", "peripherals"}
      /\ board[x].marked \subseteq r.marked
      /\ \/ r.chan \in {board[x].chan, "none"}
         \/ r.chan = "nobody"
         \/ r.chan = p /\ p \in r.marked /\ board[x].cnt[p] > 0
      /\ r.irq => board[x].irq
  BY <1>3 DEF BoardRec
<1>8. \/ proc[p].pc \in Inside /\ pc \in Inside \ {"group"}
      \/ proc[p].pc \in Closing /\ pc \in Closing
  BY <1>1, <1>3 DEF Inside, Closing, BoardRec
<1> HIDE DEF x, r, pc
<1>9. QuietChange(p, x, r, pc)
  BY <1>1, <1>4, <1>5, <1>7, <1>8 DEF QuietChange, Inside, Closing
<1>10. QED
  BY <1>6, <1>9, QuietStep DEF x

\* PPControl preserves the invariant.
LEMMA PPControlKeeps ==
  ASSUME IInv, NEW p \in Procs, PPControl(p)
  PROVE  IInv'
<1> DEFINE x == proc[p].on
<1>1. proc[p].pc = "in" /\ maxidx' = maxidx
  BY DEF PPControl, Call, In
<1>2. proc[p].pc \in Inside \cup Closing
  BY <1>1 DEF Inside, Closing
<1>3. /\ x \in Boards /\ board[x] \in BoardRec /\ proc[p] \in ProcRec
      /\ count \in [probes : Nat, faults : Nat, calls : Nat]
  BY <1>2, Busy
<1>4. count' \in [probes : Nat, faults : Nat, calls : Nat]
  BY <1>3 DEF PPControl, Call
<1>5. proc[p].pc \in Inside
  BY <1>1 DEF Inside
<1>6. ASSUME board[x].changing PROVE IInv'
  <2> DEFINE r == board[x]
             pc == "in"
  <2>1. board' = [board EXCEPT ![x] = r] /\ proc' = [proc EXCEPT ![p].pc = pc]
    <3>1. board' = board /\ proc' = proc
      BY <1>6 DEF PPControl, On
    <3>2. [proc[p] EXCEPT !.pc = pc] = proc[p]
      BY <1>1, <1>3 DEF ProcRec
    <3>3. QED
      BY <1>3, <3>1, <3>2 DEF IInv, TypeOK
  <2>2. r \in BoardRec
    BY <1>3 DEF BoardRec, Resources
  <2>3. /\ r.at = board[x].at /\ r.idx = board[x].idx /\ r.use = board[x].use /\ r.cnt = board[x].cnt
        /\ "number" \in board[x].held => "number" \in r.held
        /\ r.held \subseteq board[x].held \cup {"dmas", "peripherals"}
        /\ board[x].marked \subseteq r.marked /\ r.chan = board[x].chan
    BY <1>3 DEF BoardRec
  <2>4. pc \in Inside \ {"group"}
    BY DEF Inside
  <2> HIDE DEF x, r, pc
  <2>5. QuietChange(p, x, r, pc)
    BY <1>1, <1>4, <1>5, <2>1, <2>3, <2>4 DEF QuietChange
  <2>6. QED
    BY <2>2, <2>5, QuietStep DEF x
<1>7. ASSUME ~board[x].changing PROVE IInv'
  <2> DEFINE r == [board[x] EXCEPT !.changing = TRUE]
             pc == "pp"
  <2>1. board' = [board EXCEPT ![x] = r] /\ proc' = [proc EXCEPT ![p].pc = pc]
    BY <1>3, <1>7 DEF PPControl, Becomes, Goes, On, IInv, TypeOK
  <2>2. r \in BoardRec
    BY <1>3 DEF BoardRec, Resources
  <2>3. /\ r.at = board[x].at /\ r.idx = board[x].idx /\ r.use = board[x].use /\ r.cnt = board[x].cnt
        /\ "number" \in board[x].held => "number" \in r.held
        /\ r.held \subseteq board[x].held \cup {"dmas", "peripherals"}
        /\ board[x].marked \subseteq r.marked /\ r.chan = board[x].chan
    BY <1>3 DEF BoardRec
  <2>4. pc \in Inside \ {"group"}
    BY DEF Inside
  <2> HIDE DEF x, r, pc
  <2>5. QuietChange(p, x, r, pc)
    BY <1>1, <1>4, <1>5, <2>1, <2>3, <2>4 DEF QuietChange
  <2>6. QED
    BY <2>2, <2>5, QuietStep DEF x
<1>8. QED
  BY <1>6, <1>7

\* AddDmas preserves the invariant.
LEMMA AddDmasKeeps ==
  ASSUME IInv, NEW p \in Procs, AddDmas(p)
  PROVE  IInv'
<1> DEFINE x == proc[p].on
<1>1. proc[p].pc = "add" /\ maxidx' = maxidx
  BY DEF AddDmas, In
<1>2. proc[p].pc \in Inside \cup Closing
  BY <1>1 DEF Inside, Closing
<1>3. /\ x \in Boards /\ board[x] \in BoardRec /\ proc[p] \in ProcRec
      /\ count \in [probes : Nat, faults : Nat, calls : Nat]
  BY <1>2, Busy
<1>4. count' \in [probes : Nat, faults : Nat, calls : Nat]
  BY <1>3 DEF AddDmas
<1>5. proc[p].pc \in Inside
  BY <1>1 DEF Inside
<1>6. ASSUME Becomes(x, [board[x] EXCEPT !.held = @ \cup {"dmas"}]) PROVE IInv'
  <2> DEFINE r == [board[x] EXCEPT !.held = @ \cup {"dmas"}]
             pc == "changed"
  <2>1. board' = [board EXCEPT ![x] = r] /\ proc' = [proc EXCEPT ![p].pc = pc]
    BY <1>3, <1>6 DEF AddDmas, Becomes, Goes, On, IInv, TypeOK
  <2>2. r \in BoardRec
    BY <1>3 DEF BoardRec, Resources
  <2>3. /\ r.at = board[x].at /\ r.idx = board[x].idx /\ r.use = board[x].use /\ r.cnt = board[x].cnt
        /\ "number" \in board[x].held => "number" \in r.held
        /\ r.held \subseteq board[x].held \cup {"dmas", "peripherals"}
        /\ board[x].marked \subseteq r.marked /\ r.chan = board[x].chan
    BY <1>3 DEF BoardRec
  <2>4. pc \in Inside \ {"group"}
    BY DEF Inside
  <2> HIDE DEF x, r, pc
  <2>5. QuietChange(p, x, r, pc)
    BY <1>1, <1>4, <1>5, <2>1, <2>3, <2>4 DEF QuietChange
  <2>6. QED
    BY <2>2, <2>5, QuietStep DEF x
<1>7. ASSUME board' = board PROVE IInv'
  <2> DEFINE r == board[x]
             pc == "changed"
  <2>1. board' = [board EXCEPT ![x] = r] /\ proc' = [proc EXCEPT ![p].pc = pc]
    BY <1>3, <1>7 DEF AddDmas, Becomes, Goes, On, IInv, TypeOK
  <2>2. r \in BoardRec
    BY <1>3 DEF BoardRec, Resources
  <2>3. /\ r.at = board[x].at /\ r.idx = board[x].idx /\ r.use = board[x].use /\ r.cnt = board[x].cnt
        /\ "number" \in board[x].held => "number" \in r.held
        /\ r.held \subseteq board[x].held \cup {"dmas", "peripherals"}
        /\ board[x].marked \subseteq r.marked /\ r.chan = board[x].chan
    BY <1>3 DEF BoardRec
  <2>4. pc \in Inside \ {"group"}
    BY DEF Inside
  <2> HIDE DEF x, r, pc
  <2>5. QuietChange(p, x, r, pc)
    BY <1>1, <1>4, <1>5, <2>1, <2>3, <2>4 DEF QuietChange
  <2>6. QED
    BY <2>2, <2>5, QuietStep DEF x
<1>8. QED
  BY <1>6, <1>7 DEF AddDmas, On

\* InitPeripherals preserves the invariant.
LEMMA InitPeripheralsKeeps ==
  ASSUME IInv, NEW p \in Procs, InitPeripherals(p)
  PROVE  IInv'
<1> DEFINE x == proc[p].on
<1>1. proc[p].pc = "init" /\ maxidx' = maxidx
  BY DEF InitPeripherals, In
<1>2. proc[p].pc \in Inside \cup Closing
  BY <1>1 DEF Inside, Closing
<1>3. /\ x \in Boards /\ board[x] \in BoardRec /\ proc[p] \in ProcRec
      /\ count \in [probes : Nat, faults : Nat, calls : Nat]
  BY <1>2, Busy
<1>4. count' \in [probes : Nat, faults : Nat, calls : Nat]
  BY <1>3 DEF InitPeripherals
<1>5. proc[p].pc \in Inside
  BY <1>1 DEF Inside
<1>6. proc' = [proc EXCEPT ![p].pc = "in"]
  BY DEF InitPeripherals, Goes
<1> DEFINE b == [board[x] EXCEPT !.held = @ \cup {"peripherals"}]
<1>7. /\ b \in BoardRec /\ b.held = board[x].held \cup {"peripherals"}
      /\ b.at = board[x].at /\ b.idx = board[x].idx /\ b.use = board[x].use /\ b.cnt = board[x].cnt
      /\ b.marked = board[x].marked /\ b.chan = board[x].chan
  BY <1>3 DEF BoardRec, Resources
<1>8. \/ Becomes(x, [b EXCEPT !.irq = @ \/ CanStart(x)])
      \/ Becomes(x, b)
      \/ Becomes(x, [b EXCEPT !.undeclared = TRUE])
  BY DEF InitPeripherals, On
<1> HIDE DEF b
<1>9. CanStart(x) \in BOOLEAN
  BY DEF CanStart
<1>10. PICK r \in BoardRec :
         /\ board' = [board EXCEPT ![x] = r] /\ r.held = b.held /\ r.at = b.at /\ r.idx = b.idx
         /\ r.use = b.use /\ r.cnt = b.cnt /\ r.marked = b.marked /\ r.chan = b.chan
  <2>1. CASE Becomes(x, [b EXCEPT !.irq = @ \/ CanStart(x)])
    <3> DEFINE r == [b EXCEPT !.irq = @ \/ CanStart(x)]
    <3>1. /\ r \in BoardRec /\ r.held = b.held /\ r.at = b.at /\ r.idx = b.idx
          /\ r.use = b.use /\ r.cnt = b.cnt /\ r.marked = b.marked /\ r.chan = b.chan
      BY <1>7, <1>9 DEF BoardRec
    <3>2. QED
      BY <2>1, <3>1 DEF Becomes
  <2>2. CASE Becomes(x, b)
    BY <1>7, <2>2 DEF Becomes
  <2>3. CASE Becomes(x, [b EXCEPT !.undeclared = TRUE])
    <3> DEFINE r == [b EXCEPT !.undeclared = TRUE]
    <3>1. /\ r \in BoardRec /\ r.held = b.held /\ r.at = b.at /\ r.idx = b.idx
          /\ r.use = b.use /\ r.cnt = b.cnt /\ r.marked = b.marked /\ r.chan = b.chan
      BY <1>7 DEF BoardRec
    <3>2. QED
      BY <2>3, <3>1 DEF Becomes
  <2>4. QED
    BY <1>8, <2>1, <2>2, <2>3
<1> DEFINE pc == "in"
<1>11. pc \in Inside \ {"group"}
  BY DEF Inside
<1>12. /\ r.held \subseteq board[x].held \cup {"dmas", "peripherals"}
       /\ "number" \in board[x].held => "number" \in r.held
  BY <1>7, <1>10
<1>13. proc' = [proc EXCEPT ![p].pc = pc]
  BY <1>6
<1> HIDE DEF x, pc
<1>14. QuietChange(p, x, r, pc)
  BY <1>1, <1>4, <1>5, <1>7, <1>10, <1>11, <1>12, <1>13 DEF QuietChange
<1>15. QED
  BY <1>10, <1>14, QuietStep DEF x

\* WriteBitstream preserves the invariant.
LEMMA WriteBitstreamKeeps ==
  ASSUME IInv, NEW p \in Procs, WriteBitstream(p)
  PROVE  IInv'
<1> DEFINE x == proc[p].on
<1>1. proc[p].pc = "write" /\ maxidx' = maxidx
  BY DEF WriteBitstream, In
<1>2. proc[p].pc \in Inside \cup Closing
  BY <1>1 DEF Inside, Closing
<1>3. /\ x \in Boards /\ board[x] \in BoardRec /\ proc[p] \in ProcRec
      /\ count \in [probes : Nat, faults : Nat, calls : Nat]
  BY <1>2, Busy
<1>4. count' \in [probes : Nat, faults : Nat, calls : Nat]
  BY <1>3 DEF WriteBitstream
<1>5. proc[p].pc \in Inside
  BY <1>1 DEF Inside
<1>6. ASSUME Becomes(x, [board[x] EXCEPT !.state = "READY", !.held = @ \cup {"dmas"}]) /\ Goes(p, "init") PROVE IInv'
  <2> DEFINE r == [board[x] EXCEPT !.state = "READY", !.held = @ \cup {"dmas"}]
             pc == "init"
  <2>1. board' = [board EXCEPT ![x] = r] /\ proc' = [proc EXCEPT ![p].pc = pc]
    BY <1>6 DEF Becomes, Goes
  <2>2. r \in BoardRec
    BY <1>3 DEF BoardRec, Resources
  <2>3. /\ r.at = board[x].at /\ r.idx = board[x].idx /\ r.use = board[x].use /\ r.cnt = board[x].cnt
        /\ "number" \in board[x].held => "number" \in r.held
        /\ r.held \subseteq board[x].held \cup {"dmas", "peripherals"}
        /\ board[x].marked \subseteq r.marked /\ r.chan = board[x].chan
    BY <1>3 DEF BoardRec
  <2>4. pc \in Inside \ {"group"}
    BY DEF Inside
  <2> HIDE DEF x, r, pc
  <2>5. QuietChange(p, x, r, pc)
    BY <1>1, <1>4, <1>5, <2>1, <2>3, <2>4 DEF QuietChange
  <2>6. QED
    BY <2>2, <2>5, QuietStep DEF x
<1>7. ASSUME Becomes(x, [board[x] EXCEPT !.state = IF @ = "UNINITIALISED" THEN @ ELSE "DEAD"]) /\ Goes(p, "in") PROVE IInv'
  <2> DEFINE r == [board[x] EXCEPT !.state = IF @ = "UNINITIALISED" THEN @ ELSE "DEAD"]
             pc == "in"
  <2>1. board' = [board EXCEPT ![x] = r] /\ proc' = [proc EXCEPT ![p].pc = pc]
    BY <1>7 DEF Becomes, Goes
  <2>2. r \in BoardRec
    BY <1>3 DEF BoardRec, Resources
  <2>3. /\ r.at = board[x].at /\ r.idx = board[x].idx /\ r.use = board[x].use /\ r.cnt = board[x].cnt
        /\ "number" \in board[x].held => "number" \in r.held
        /\ r.held \subseteq board[x].held \cup {"dmas", "peripherals"}
        /\ board[x].marked \subseteq r.marked /\ r.chan = board[x].chan
    BY <1>3 DEF BoardRec
  <2>4. pc \in Inside \ {"group"}
    BY DEF Inside
  <2> HIDE DEF x, r, pc
  <2>5. QuietChange(p, x, r, pc)
    BY <1>1, <1>4, <1>5, <2>1, <2>3, <2>4 DEF QuietChange
  <2>6. QED
    BY <2>2, <2>5, QuietStep DEF x
<1>8. ASSUME board' = board /\ Goes(p, "in") PROVE IInv'
  <2> DEFINE r == board[x]
             pc == "in"
  <2>1. board' = [board EXCEPT ![x] = r] /\ proc' = [proc EXCEPT ![p].pc = pc]
    BY <1>3, <1>8 DEF Goes, IInv, TypeOK
  <2>2. r \in BoardRec
    BY <1>3 DEF BoardRec, Resources
  <2>3. /\ r.at = board[x].at /\ r.idx = board[x].idx /\ r.use = board[x].use /\ r.cnt = board[x].cnt
        /\ "number" \in board[x].held => "number" \in r.held
        /\ r.held \subseteq board[x].held \cup {"dmas", "peripherals"}
        /\ board[x].marked \subseteq r.marked /\ r.chan = board[x].chan
    BY <1>3 DEF BoardRec
  <2>4. pc \in Inside \ {"group"}
    BY DEF Inside
  <2> HIDE DEF x, r, pc
  <2>5. QuietChange(p, x, r, pc)
    BY <1>1, <1>4, <1>5, <2>1, <2>3, <2>4 DEF QuietChange
  <2>6. QED
    BY <2>2, <2>5, QuietStep DEF x
<1>9. QED
  BY <1>6, <1>7, <1>8 DEF WriteBitstream, On

\* A process opens or closes a file of board x.
Moved(p, x, r, q) ==
  /\ proc[p].on \in {x, "none"} /\ q.on \in {x, "none"}
  /\ q.pc = "none" => q = Outside
  /\ q.pc \in Inside => q.files > 0 /\ q.on = x
  /\ q.pc \in Closing => q.files = 0 /\ q.on = x
  /\ IsFiniteSet(FilesOn(x)') /\ r.use = Cardinality(FilesOn(x)')
  /\ \A s \in Procs \ {p} : r.cnt[s] = board[x].cnt[s]
  /\ r.cnt[p] > 0 =>
       q.on = x /\ r.cnt[p] <= q.files /\ (q.pc = "group" => r.cnt[p] < q.files)
  /\ r.chan \in Procs => r.chan \in r.marked /\ r.cnt[r.chan] > 0
  /\ r.chan # "none" => r.use > 0
  /\ (Family[x] = "me5" /\ r.irq) => r.use > 0

\* Opening and closing preserve the invariant if the count of files follows.
LEMMA MovedKeeps ==
  ASSUME IInv, NEW p \in Procs, NEW x \in Boards, NEW r, NEW q \in ProcRec,
         Step1(p, x, r, q), SameLife(x, r), Moved(p, x, r, q)
  PROVE  IInv'
<1>1. r \in BoardRec
  BY DEF SameLife
<1>2. TypeOK' /\ Numbers' /\ Holdings'
  BY <1>1, ProcessKeepsType, ProcessKeepsLife DEF IInv
<1>3. /\ board'[x] = r /\ \A y \in Boards \ {x} : board'[y] = board[y]
      /\ proc'[p] = q /\ \A s \in Procs \ {p} : proc'[s] = proc[s]
  BY DEF IInv, TypeOK, Step1
<1>4. \A y \in Boards \ {x} : FilesOn(y)' = FilesOn(y)
  <2>1. TAKE y \in Boards \ {x}
  <2>2. proc[p].on # y /\ proc'[p].on # y
    BY <1>3, BoardAssumption DEF Moved
  <2>3. \A f \in Procs \X (Nat \ {0}) :
          proc'[f[1]].on = y /\ f[2] <= proc'[f[1]].files <=> proc[f[1]].on = y /\ f[2] <= proc[f[1]].files
    BY <1>3, <2>2
  <2>4. QED
    BY <2>3 DEF FilesOn
<1>5. \A y \in Boards : board'[y].at = board[y].at
  BY <1>3 DEF SameLife, Is
<1>6. \A s \in Procs : ProcFiles(s)'
  <2>1. TAKE s \in Procs
  <2>2. ProcFiles(s)
    BY DEF IInv, Files
  <2>3. CASE s # p
    BY <1>3, <1>5, <2>2, <2>3 DEF ProcFiles, Is
  <2>4. CASE s = p
    BY <1>3, <1>5, <2>4, BoardAssumption DEF ProcFiles, Is, Moved, SameLife
  <2>5. QED
    BY <2>3, <2>4
<1>7. \A y \in Boards \ {x} : BoardFiles(y)'
  <2>1. TAKE y \in Boards \ {x}
  <2>2. BoardFiles(y) /\ board'[y] = board[y] /\ FilesOn(y)' = FilesOn(y)
    BY <1>3, <1>4 DEF IInv, Files
  <2>3. proc[p].on # y
    BY BoardAssumption DEF Moved
  <2>4. board[y].cnt \in [Procs -> Nat]
    BY DEF IInv, TypeOK, BoardRec
  <2>5. \A s \in Procs : board[y].cnt[s] > 0 => s # p
    BY <2>2, <2>3 DEF BoardFiles
  <2>6. \A s \in Procs : board'[y].cnt[s] > 0 =>
       /\ proc'[s].on = y
       /\ board'[y].cnt[s] <= proc'[s].files
       /\ proc'[s].pc = "group" => board'[y].cnt[s] < proc'[s].files
    BY <1>3, <2>2, <2>5 DEF BoardFiles
  <2>7. QED
    BY <2>2, <2>6 DEF BoardFiles
<1>8. BoardFiles(x)'
  <2>1. BoardFiles(x)
    BY DEF IInv, Files
  <2>2. \A s \in Procs : board'[x].cnt[s] > 0 =>
       /\ proc'[s].on = x
       /\ board'[x].cnt[s] <= proc'[s].files
       /\ proc'[s].pc = "group" => board'[x].cnt[s] < proc'[s].files
    BY <1>3, <2>1 DEF BoardFiles, Moved
  <2>3. QED
    BY <1>3, <2>2 DEF BoardFiles, Moved
<1>9. QED
  BY <1>2, <1>6, <1>7, <1>8 DEF IInv, Files

\* A board whose use count and interrupt change is a board.
LEMMA UseRec ==
  ASSUME NEW b \in BoardRec, NEW u \in Nat, NEW i \in BOOLEAN
  PROVE  [b EXCEPT !.use = u, !.irq = i] \in BoardRec
BY DEF BoardRec

\* Open preserves the invariant.
LEMMA OpenKeeps ==
  ASSUME IInv, NEW p \in Procs, NEW x \in Boards, Open(p, x)
  PROVE  IInv'
<1> DEFINE irq == board[x].irq \/ (board[x].use = 0 /\ CanStart(x))
           r == [board[x] EXCEPT !.use = @ + 1, !.irq = irq]
           q == [pc |-> "group", on |-> x, files |-> proc[p].files + 1]
           f == <<p, proc[p].files + 1>>
<1>1. /\ board[x] \in BoardRec /\ proc[p] \in ProcRec /\ board[x].at = "up"
      /\ "number" \in board[x].held
      /\ count \in [probes : Nat, faults : Nat, calls : Nat]
  BY DEF IInv, TypeOK, Open, Is, Numbers, Has
<1>2. r \in BoardRec /\ q \in ProcRec
  <2>1. irq \in BOOLEAN
    OBVIOUS
  <2> HIDE DEF irq
  <2>2. r \in BoardRec
    <3>1. board[x].use + 1 \in Nat
      BY <1>1 DEF BoardRec
    <3>2. QED
      BY <1>1, <2>1, <3>1, UseRec
  <2>3. q \in ProcRec
    BY <1>1 DEF ProcRec, Inside
  <2>4. QED
    BY <2>2, <2>3
<1>3. /\ r.at = "up" /\ r.idx = board[x].idx /\ r.held = board[x].held /\ r.cnt = board[x].cnt
      /\ r.chan = board[x].chan /\ r.marked = board[x].marked /\ r.use = board[x].use + 1
      /\ board[x].use \in Nat /\ proc[p].files \in Nat /\ board[x].cnt \in [Procs -> Nat]
  BY <1>1 DEF BoardRec, ProcRec
<1>4. Step1(p, x, r, q) /\ SameLife(x, r)
  <2>1. Step1(p, x, r, q)
    BY <1>1 DEF Open, Step1, Becomes
  <2>2. SameLife(x, r)
    BY <1>1, <1>2, <1>3 DEF SameLife, Is
  <2>3. QED
    BY <2>1, <2>2
<1>5. proc[p].pc = "none" \/ (proc[p].pc = "in" /\ proc[p].on = x)
  BY DEF Open, In, On
<1>6. ProcFiles(p) /\ BoardFiles(x)
  BY DEF IInv, Files
<1>7. \/ proc[p].on = "none" /\ proc[p].files = 0
      \/ proc[p].on = x
  BY <1>5, <1>6 DEF ProcFiles, Outside
<1>8. proc'[p] = q /\ \A s \in Procs \ {p} : proc'[s] = proc[s]
  BY <1>4 DEF Step1, IInv, TypeOK
<1>9. f \notin FilesOn(x) /\ FilesOn(x)' = FilesOn(x) \cup {f}
  <2>1. f \notin FilesOn(x)
    BY <1>3 DEF FilesOn
  <2>2. ASSUME NEW g \in Procs \X (Nat \ {0})
        PROVE  (proc'[g[1]].on = x /\ g[2] <= proc'[g[1]].files)
                 <=> (g = f \/ (proc[g[1]].on = x /\ g[2] <= proc[g[1]].files))
    <3>1. CASE g[1] # p
      BY <1>8, <3>1
    <3>2. CASE g[1] = p
      <4>1. proc'[g[1]].on = x /\ proc'[g[1]].files = proc[p].files + 1
        BY <1>8, <3>2
      <4>2. g = <<p, g[2]>> /\ g[2] \in Nat \ {0}
        BY <3>2
      <4>3. g = f <=> g[2] = proc[p].files + 1
        BY <4>2
      <4>4. "none" # x
        BY BoardAssumption
      <4>5. QED
        BY <1>3, <1>7, <3>2, <4>1, <4>2, <4>3, <4>4
    <3>3. QED
      BY <3>1, <3>2
  <2>3. f \in Procs \X (Nat \ {0})
    BY <1>3
  <2>4. QED
    BY <2>1, <2>2, <2>3 DEF FilesOn
<1>10. IsFiniteSet(FilesOn(x)') /\ r.use = Cardinality(FilesOn(x)')
  <2>1. IsFiniteSet(FilesOn(x)) /\ board[x].use = Cardinality(FilesOn(x))
    BY <1>6 DEF BoardFiles
  <2>2. /\ IsFiniteSet(FilesOn(x) \cup {f})
        /\ Cardinality(FilesOn(x) \cup {f}) = Cardinality(FilesOn(x)) + 1
    BY <1>9, <2>1, FS_AddElement
  <2>3. QED
    BY <1>3, <1>9, <2>1, <2>2
<1>11. r.cnt[p] > 0 => r.cnt[p] <= proc[p].files
  BY <1>3, <1>6 DEF BoardFiles
<1>12. /\ q.pc = "group" /\ q.on = x /\ q.files = proc[p].files + 1
       /\ q.pc \notin Closing /\ q.pc # "none"
  BY DEF Closing
<1> HIDE DEF r, q, f
<1>13. Moved(p, x, r, q)
  BY <1>3, <1>6, <1>7, <1>10, <1>11, <1>12 DEF Moved, BoardFiles
<1>14. QED
  BY <1>2, <1>4, <1>13, MovedKeeps

\* JoinGroup preserves the invariant.
LEMMA JoinGroupKeeps ==
  ASSUME IInv, NEW p \in Procs, JoinGroup(p)
  PROVE  IInv'
<1>1. proc[p].pc = "group" /\ proc[p].pc \in Inside
  BY DEF JoinGroup, In, Inside
<1>2. PICK x \in Boards : x = proc[p].on
  BY <1>1, Busy
<1> USE <1>2
<1> DEFINE q == [proc[p] EXCEPT !.pc = "in"]
<1>3. /\ board[x] \in BoardRec /\ proc[p] \in ProcRec /\ board[x].at = "up"
      /\ "number" \in board[x].held /\ BoardFiles(x) /\ board[x].use > 0
      /\ count \in [probes : Nat, faults : Nat, calls : Nat]
  BY <1>1, Busy, <1>2
<1>4. /\ q \in ProcRec /\ q.pc = "in" /\ q.on = x /\ q.files = proc[p].files
      /\ q.pc \in Inside /\ q.pc \notin Closing /\ q.pc # "none"
  BY <1>3 DEF ProcRec, Inside, Closing
<1>5. proc[p].files > 0 /\ proc[p].files \in Nat
  BY <1>1, <1>3 DEF IInv, Files, ProcFiles, ProcRec
<1>6. \E r \in BoardRec :
        /\ board' = [board EXCEPT ![x] = r]
        /\ r.at = "up" /\ r.idx = board[x].idx /\ r.held = board[x].held
        /\ \A s \in Procs \ {p} : r.cnt[s] = board[x].cnt[s]
        /\ r.cnt[p] \in {board[x].cnt[p], board[x].cnt[p] + 1}
        /\ r.chan = board[x].chan /\ r.marked = board[x].marked /\ r.use = board[x].use
        /\ r.irq = board[x].irq
  <2>1. CASE UNCHANGED board
    <3>1. board' = [board EXCEPT ![x] = board[x]]
      BY <1>3, <2>1 DEF IInv, TypeOK
    <3>2. QED
      BY <1>3, <3>1
  <2>2. CASE Becomes(x, [board[x] EXCEPT !.cnt[p] = @ + 1])
    <3> DEFINE r == [board[x] EXCEPT !.cnt[p] = @ + 1]
    <3>1. r \in BoardRec
      BY <1>3 DEF BoardRec
    <3>2. board' = [board EXCEPT ![x] = r]
      BY <2>2 DEF Becomes
    <3>3. /\ r.at = "up" /\ r.idx = board[x].idx /\ r.held = board[x].held
          /\ r.chan = board[x].chan /\ r.marked = board[x].marked /\ r.use = board[x].use
          /\ r.irq = board[x].irq
          /\ r.cnt = [board[x].cnt EXCEPT ![p] = @ + 1] /\ board[x].cnt \in [Procs -> Nat]
      BY <1>3 DEF BoardRec
    <3> HIDE DEF r
    <3>4. /\ \A s \in Procs \ {p} : r.cnt[s] = board[x].cnt[s]
          /\ r.cnt[p] = board[x].cnt[p] + 1
      BY <3>3
    <3>5. QED
      BY <3>1, <3>2, <3>3, <3>4
  <2>3. QED
    BY <2>1, <2>2 DEF JoinGroup, On
<1>7. PICK r \in BoardRec :
        /\ board' = [board EXCEPT ![x] = r]
        /\ r.at = "up" /\ r.idx = board[x].idx /\ r.held = board[x].held
        /\ \A s \in Procs \ {p} : r.cnt[s] = board[x].cnt[s]
        /\ r.cnt[p] \in {board[x].cnt[p], board[x].cnt[p] + 1}
        /\ r.chan = board[x].chan /\ r.marked = board[x].marked /\ r.use = board[x].use
        /\ r.irq = board[x].irq
  BY <1>6
<1>8. Step1(p, x, r, q) /\ SameLife(x, r)
  BY <1>3, <1>7 DEF JoinGroup, Goes, Step1, SameLife, Is
<1>9. proc'[p] = q /\ \A s \in Procs \ {p} : proc'[s] = proc[s]
  BY <1>8 DEF Step1, IInv, TypeOK
<1>10. FilesOn(x)' = FilesOn(x)
  <2>1. \A s \in Procs : proc'[s].on = proc[s].on /\ proc'[s].files = proc[s].files
    BY <1>4, <1>9
  <2>2. QED
    BY <2>1 DEF FilesOn
<1>11. r.cnt[p] > 0 => r.cnt[p] <= proc[p].files
  <2>1. board[x].cnt[p] \in Nat
    BY <1>3 DEF BoardRec
  <2>2. board[x].cnt[p] > 0 => board[x].cnt[p] < proc[p].files
    BY <1>1, <1>3 DEF BoardFiles
  <2>3. QED
    BY <1>5, <1>7, <2>1, <2>2
<1>12. r.chan \in Procs => r.chan \in r.marked /\ r.cnt[r.chan] > 0
  <2>1. board[x].cnt \in [Procs -> Nat]
    BY <1>3 DEF BoardRec
  <2>2. r.chan \in Procs => r.chan \in r.marked /\ board[x].cnt[r.chan] > 0
    BY <1>3, <1>7 DEF BoardFiles
  <2>3. QED
    BY <1>7, <2>1, <2>2
<1> HIDE DEF q
<1>13. Moved(p, x, r, q)
  BY <1>3, <1>4, <1>5, <1>7, <1>10, <1>11, <1>12 DEF Moved, BoardFiles
<1>14. QED
  BY <1>3, <1>4, <1>8, <1>13, MovedKeeps

\* CleanupEnds preserves the invariant.
LEMMA CleanupEndsKeeps ==
  ASSUME IInv, NEW p \in Procs, CleanupEnds(p)
  PROVE  IInv'
<1>1. proc[p].pc = "del" /\ proc[p].pc \in Closing
  BY DEF CleanupEnds, In, Closing
<1>2. PICK x \in Boards : x = proc[p].on
  BY <1>1, Busy
<1> USE <1>2
<1> DEFINE r == [board[x] EXCEPT !.changing = FALSE]
           q == Outside
<1>3. /\ board[x] \in BoardRec /\ proc[p] \in ProcRec /\ board[x].at = "up"
      /\ "number" \in board[x].held /\ BoardFiles(x)
      /\ count \in [probes : Nat, faults : Nat, calls : Nat]
  BY <1>1, Busy, <1>2
<1>4. /\ q \in ProcRec /\ q.pc = "none" /\ q.on = "none" /\ q.files = 0
      /\ q.pc \notin Inside /\ q.pc \notin Closing
  BY DEF Outside, ProcRec, Inside, Closing
<1>5. proc[p].files = 0
  BY <1>1 DEF IInv, Files, ProcFiles
<1>6. r \in BoardRec
  BY <1>3 DEF BoardRec
<1>7. /\ r.at = "up" /\ r.idx = board[x].idx /\ r.held = board[x].held /\ r.cnt = board[x].cnt
      /\ r.chan = board[x].chan /\ r.marked = board[x].marked /\ r.use = board[x].use
      /\ r.irq = board[x].irq /\ board[x].cnt \in [Procs -> Nat]
  BY <1>3 DEF BoardRec
<1>8. Step1(p, x, r, q) /\ SameLife(x, r)
  BY <1>3, <1>6, <1>7 DEF CleanupEnds, Becomes, On, Step1, SameLife, Is
<1>9. proc'[p] = q /\ \A s \in Procs \ {p} : proc'[s] = proc[s]
  BY <1>8 DEF Step1, IInv, TypeOK
<1>10. FilesOn(x)' = FilesOn(x)
  <2>1. ASSUME NEW g \in Procs \X (Nat \ {0})
        PROVE  (proc'[g[1]].on = x /\ g[2] <= proc'[g[1]].files)
                 <=> (proc[g[1]].on = x /\ g[2] <= proc[g[1]].files)
    <3>1. CASE g[1] # p
      BY <1>9, <3>1
    <3>2. CASE g[1] = p
      BY <1>4, <1>5, <1>9, <3>2
    <3>3. QED
      BY <3>1, <3>2
  <2>2. QED
    BY <2>1 DEF FilesOn
<1>11. ~(r.cnt[p] > 0)
  BY <1>3, <1>5, <1>7 DEF BoardFiles
<1> HIDE DEF r, q
<1>12. Moved(p, x, r, q)
  BY <1>3, <1>4, <1>7, <1>10, <1>11 DEF Moved, BoardFiles, q
<1>13. QED
  BY <1>3, <1>4, <1>8, <1>12, MovedKeeps

\* men_cleanup_threadgroup takes one member from the group; a channel that runs on for
\* a group runs for one that has members left.
LEMMA GroupLeft ==
  ASSUME NEW p \in Procs, NEW b \in BoardRec,
         b.chan \in Procs => b.chan \in b.marked /\ b.cnt[b.chan] > 0
  PROVE  LET r == LeaveGroup(p, b)
         IN  /\ r \in BoardRec
             /\ r.at = b.at /\ r.idx = b.idx /\ r.held = b.held /\ r.irq = b.irq /\ r.use = b.use
             /\ \A s \in Procs \ {p} : r.cnt[s] = b.cnt[s]
             /\ r.cnt[p] = IF b.cnt[p] = 0 THEN 0 ELSE b.cnt[p] - 1
             /\ r.chan \in Procs => r.chan \in r.marked /\ r.cnt[r.chan] > 0
             /\ r.chan \in {b.chan, "none"}
<1>1. b.cnt \in [Procs -> Nat] /\ b.cnt[p] \in Nat
  BY DEF BoardRec
<1>2. CASE b.cnt[p] = 0
  BY <1>1, <1>2 DEF LeaveGroup
<1>3. CASE b.cnt[p] > 1
  <2> DEFINE r == [b EXCEPT !.cnt[p] = @ - 1]
  <2>1. LeaveGroup(p, b) = r
    BY <1>1, <1>3 DEF LeaveGroup
  <2>2. r.cnt = [b.cnt EXCEPT ![p] = @ - 1] /\ r.chan = b.chan /\ r.marked = b.marked
    BY DEF BoardRec
  <2>3. r \in BoardRec
    BY <1>1, <1>3 DEF BoardRec
  <2>4. /\ r.at = b.at /\ r.idx = b.idx /\ r.held = b.held /\ r.irq = b.irq /\ r.use = b.use
    BY DEF BoardRec
  <2> HIDE DEF r
  <2>5. /\ \A s \in Procs \ {p} : r.cnt[s] = b.cnt[s]
        /\ r.cnt[p] = b.cnt[p] - 1 /\ r.cnt[p] > 0
    BY <1>1, <1>3, <2>2
  <2>6. r.chan \in Procs => r.chan \in r.marked /\ r.cnt[r.chan] > 0
    BY <2>2, <2>5
  <2>7. QED
    BY <1>1, <1>3, <2>1, <2>2, <2>3, <2>4, <2>5, <2>6
<1>4. CASE b.cnt[p] = 1
  <2> DEFINE c == IF p \in b.marked THEN "none" ELSE b.chan
             r == [b EXCEPT !.cnt[p] = 0, !.marked = @ \ {p}, !.chan = c]
  <2>1. LeaveGroup(p, b) = r
    BY <1>1, <1>4 DEF LeaveGroup
  <2>2. c \in Procs \cup {"none", "nobody"}
    BY DEF BoardRec
  <2>3. c \in Procs => c = b.chan /\ c # p
    BY BoardAssumption
  <2>4. c \in {b.chan, "none"}
    OBVIOUS
  <2> HIDE DEF c
  <2>5. r.cnt = [b.cnt EXCEPT ![p] = 0] /\ r.chan = c /\ r.marked = b.marked \ {p}
    BY DEF BoardRec
  <2>6. r \in BoardRec
    BY <1>1, <2>2 DEF BoardRec
  <2>7. /\ r.at = b.at /\ r.idx = b.idx /\ r.held = b.held /\ r.irq = b.irq /\ r.use = b.use
    BY DEF BoardRec
  <2> HIDE DEF r
  <2>8. r.cnt[p] = 0 /\ \A s \in Procs \ {p} : r.cnt[s] = b.cnt[s]
    BY <1>1, <2>5
  <2>9. r.chan \in Procs => r.chan \in r.marked /\ r.cnt[r.chan] > 0
    BY <2>3, <2>5, <2>8
  <2>10. QED
    BY <1>1, <1>4, <2>1, <2>4, <2>5, <2>6, <2>7, <2>8, <2>9
<1>5. QED
  BY <1>1, <1>2, <1>3, <1>4

\* Release preserves the invariant.
LEMMA ReleaseKeeps ==
  ASSUME IInv, NEW p \in Procs, Release(p)
  PROVE  IInv'
<1>1. proc[p].pc = "in" /\ proc[p].pc \in Inside
  BY DEF Release, In, Inside
<1>2. PICK x \in Boards : x = proc[p].on
  BY <1>1, Busy
<1>3. /\ board[x] \in BoardRec /\ proc[p] \in ProcRec /\ board[x].at = "up"
      /\ "number" \in board[x].held /\ BoardFiles(x) /\ board[x].use > 0
      /\ count \in [probes : Nat, faults : Nat, calls : Nat]
  BY <1>1, <1>2, Busy
<1>4. proc[p].files \in Nat \ {0} /\ board[x].use \in Nat \ {0} /\ board[x].cnt \in [Procs -> Nat]
  BY <1>1, <1>3 DEF IInv, Files, ProcFiles, ProcRec, BoardRec
<1> DEFINE b == [board[x] EXCEPT !.use = @ - 1]
           c == LeaveGroup(p, b)
           r == IF c.use = 0 THEN CleanupChannels(c) ELSE c
           m == proc[p]
           q == CASE c.use = 0 -> [m EXCEPT !.pc = "mem", !.files = 0]
                  [] c.use > 0 /\ m.files > 1 -> [m EXCEPT !.files = @ - 1]
                  [] OTHER -> Outside
           f == <<p, proc[p].files>>
<1>5. /\ b \in BoardRec /\ b.at = "up" /\ b.idx = board[x].idx /\ b.held = board[x].held
      /\ b.irq = board[x].irq /\ b.cnt = board[x].cnt /\ b.use = board[x].use - 1
      /\ b.chan = board[x].chan /\ b.marked = board[x].marked
  BY <1>3, <1>4 DEF BoardRec
<1>6. b.chan \in Procs => b.chan \in b.marked /\ b.cnt[b.chan] > 0
  BY <1>3, <1>5 DEF BoardFiles
<1>7. board' = [board EXCEPT ![x] = r] /\ proc' = [proc EXCEPT ![p] = q]
  BY <1>2 DEF Release, Becomes, On
<1> HIDE DEF b
<1>8. /\ c \in BoardRec
      /\ c.at = b.at /\ c.idx = b.idx /\ c.held = b.held /\ c.irq = b.irq /\ c.use = b.use
      /\ \A s \in Procs \ {p} : c.cnt[s] = b.cnt[s]
      /\ c.cnt[p] = IF b.cnt[p] = 0 THEN 0 ELSE b.cnt[p] - 1
      /\ c.chan \in Procs => c.chan \in c.marked /\ c.cnt[c.chan] > 0
      /\ c.chan \in {b.chan, "none"}
  BY <1>5, <1>6, GroupLeft
<1> HIDE DEF c
<1>9. /\ r \in BoardRec /\ r.at = "up" /\ r.idx = board[x].idx /\ r.held = board[x].held
      /\ r.use = board[x].use - 1 /\ r.cnt = c.cnt /\ r.marked = c.marked
      /\ r.use = 0 => r.chan = "none" /\ ~r.irq
      /\ r.use # 0 => r.chan = c.chan /\ r.irq = c.irq
  <2>1. CASE c.use = 0
    BY <1>5, <1>8, <2>1 DEF CleanupChannels, BoardRec
  <2>2. CASE c.use # 0
    BY <1>5, <1>8, <2>2
  <2>3. QED
    BY <2>1, <2>2
<1>10. c.use = r.use /\ r.use \in Nat
  BY <1>4, <1>5, <1>8, <1>9
<1> HIDE DEF r
<1>11. /\ q \in ProcRec
       /\ r.use = 0 => q.pc = "mem" /\ q.files = 0 /\ q.on = x
       /\ r.use > 0 /\ proc[p].files > 1 => q.pc = "in" /\ q.files = proc[p].files - 1 /\ q.on = x
       /\ r.use > 0 /\ proc[p].files = 1 => q = Outside
  <2>1. CASE c.use = 0
    <3>1. q = [m EXCEPT !.pc = "mem", !.files = 0]
      BY <2>1
    <3> HIDE DEF q
    <3>2. q \in ProcRec /\ q.pc = "mem" /\ q.files = 0 /\ q.on = x
      BY <1>2, <1>3, <3>1 DEF ProcRec, Closing
    <3>3. QED
      BY <1>10, <2>1, <3>2
  <2>2. CASE c.use > 0 /\ proc[p].files > 1
    BY <1>1, <1>2, <1>3, <1>10, <2>2 DEF ProcRec
  <2>3. CASE c.use > 0 /\ proc[p].files = 1
    <3>1. q = Outside
      BY <2>3
    <3>2. Outside \in ProcRec
      BY DEF Outside, ProcRec
    <3>3. QED
      BY <1>10, <2>3, <3>1, <3>2
  <2>4. QED
    BY <1>4, <1>10, <2>1, <2>2, <2>3
<1> HIDE DEF q
<1>12. Step1(p, x, r, q) /\ SameLife(x, r)
  BY <1>3, <1>7, <1>9 DEF Release, Step1, SameLife, Is
<1>13. proc'[p] = q /\ \A s \in Procs \ {p} : proc'[s] = proc[s]
  BY <1>7 DEF IInv, TypeOK
<1>14. /\ IsFiniteSet(FilesOn(x)) /\ board[x].use = Cardinality(FilesOn(x))
       /\ f \in FilesOn(x) /\ <<p, 1>> \in FilesOn(x)
  BY <1>2, <1>3, <1>4 DEF BoardFiles, FilesOn
<1>15. /\ IsFiniteSet(FilesOn(x) \ {f})
       /\ Cardinality(FilesOn(x) \ {f}) = board[x].use - 1
  BY <1>14, FS_RemoveElement
\* The last user closes the only file of the board.
<1>16. r.use = 0 => proc[p].files = 1
  <2>1. SUFFICES ASSUME r.use = 0 PROVE proc[p].files = 1
    OBVIOUS
  <2>2. FilesOn(x) \ {f} = {}
    BY <1>9, <1>15, <2>1, FS_EmptySet
  <2>3. <<p, 1>> = f
    BY <1>14, <2>2
  <2>4. QED
    BY <2>3
<1>17. "none" # x
  BY BoardAssumption
<1>18. FilesOn(x)' = FilesOn(x) \ {f}
  <2>1. ASSUME NEW g \in Procs \X (Nat \ {0})
        PROVE  (proc'[g[1]].on = x /\ g[2] <= proc'[g[1]].files)
                 <=> (g # f /\ proc[g[1]].on = x /\ g[2] <= proc[g[1]].files)
    <3>1. CASE g[1] # p
      BY <1>13, <3>1
    <3>2. CASE g[1] = p
      <4>1. g = <<p, g[2]>> /\ g[2] \in Nat \ {0}
        BY <3>2
      <4>2. g = f <=> g[2] = proc[p].files
        BY <4>1
      <4>3. proc'[g[1]] = q /\ proc[g[1]].on = x /\ proc[g[1]].files = proc[p].files
        BY <1>2, <1>13, <3>2
      <4>4. CASE proc[p].files = 1
        <5>1. q.files = 0
          BY <1>4, <1>10, <1>11, <4>4 DEF Outside
        <5>2. QED
          BY <4>1, <4>2, <4>3, <4>4, <5>1
      <4>5. CASE proc[p].files > 1
        <5>1. q.files = proc[p].files - 1 /\ q.on = x
          BY <1>10, <1>11, <1>16, <4>5
        <5>2. QED
          BY <1>4, <4>1, <4>2, <4>3, <4>5, <5>1
      <4>6. QED
        BY <1>4, <4>4, <4>5
    <3>3. QED
      BY <3>1, <3>2
  <2>2. QED
    BY <2>1 DEF FilesOn
<1>19. IsFiniteSet(FilesOn(x)') /\ r.use = Cardinality(FilesOn(x)')
  BY <1>9, <1>15, <1>18
<1>20. board[x].cnt[p] <= proc[p].files /\ r.cnt[p] = IF board[x].cnt[p] = 0 THEN 0 ELSE board[x].cnt[p] - 1
  BY <1>3, <1>4, <1>5, <1>8, <1>9 DEF BoardFiles
<1>21. /\ q.on \in {x, "none"} /\ (q.pc = "none" => q = Outside)
       /\ q.pc \in Inside => q.files > 0 /\ q.on = x
       /\ q.pc \in Closing => q.files = 0 /\ q.on = x
       /\ r.cnt[p] > 0 => q.on = x /\ r.cnt[p] <= q.files /\ q.pc # "group"
  <2>1. board[x].cnt[p] \in Nat
    BY <1>4
  <2>2. CASE r.use = 0
    <3>1. ~(r.cnt[p] > 0)
      BY <1>16, <1>20, <2>1, <2>2
    <3>2. QED
      BY <1>11, <2>2, <3>1 DEF Inside, Closing
  <2>3. CASE r.use > 0 /\ proc[p].files > 1
    BY <1>4, <1>11, <1>20, <2>1, <2>3 DEF Inside, Closing
  <2>4. CASE r.use > 0 /\ proc[p].files = 1
    <3>1. ~(r.cnt[p] > 0)
      BY <1>20, <2>1, <2>4
    <3>2. q = Outside
      BY <1>11, <2>4
    <3>3. QED
      BY <3>1, <3>2 DEF Outside, Inside, Closing
  <2>5. QED
    BY <1>4, <1>10, <2>2, <2>3, <2>4
<1>22. /\ \A s \in Procs \ {p} : r.cnt[s] = board[x].cnt[s]
       /\ r.chan \in Procs => r.chan \in r.marked /\ r.cnt[r.chan] > 0
       /\ r.chan # "none" => r.use > 0
       /\ (Family[x] = "me5" /\ r.irq) => r.use > 0
  <2>1. \A s \in Procs \ {p} : r.cnt[s] = board[x].cnt[s]
    BY <1>5, <1>8, <1>9
  <2>2. CASE r.use = 0
    BY <1>9, <2>1, <2>2, BoardAssumption
  <2>3. CASE r.use # 0
    <3>1. r.use > 0
      BY <1>10, <2>3
    <3>2. r.chan \in Procs => r.chan \in r.marked /\ r.cnt[r.chan] > 0
      BY <1>8, <1>9, <2>3
    <3>3. QED
      BY <2>1, <3>1, <3>2
  <2>4. QED
    BY <2>2, <2>3
<1>23. Moved(p, x, r, q)
  BY <1>2, <1>19, <1>21, <1>22 DEF Moved
<1>24. QED
  BY <1>11, <1>12, <1>23, MovedKeeps

-----------------------------------------------------------------------------
(* Steps of the PCI core on a board that nobody uses.                      *)

\* A board that is not up, or that has no user, has no files, members, channels.
LEMMA Nobody ==
  ASSUME IInv, NEW x \in Boards, board[x].at # "up" \/ Users(x) = {}
  PROVE  /\ \A p \in Procs : proc[p].on # x
         /\ FilesOn(x) = {} /\ board[x].use = 0 /\ board[x].chan = "none"
         /\ \A p \in Procs : board[x].cnt[p] = 0
         /\ Family[x] = "me5" => ~board[x].irq
<1>1. \A p \in Procs : proc[p].on # x
  BY DEF IInv, Files, ProcFiles, Is, Users, On
<1>2. FilesOn(x) = {}
  BY <1>1 DEF FilesOn
<1>3. BoardFiles(x) /\ board[x] \in BoardRec
  BY DEF IInv, Files, TypeOK
<1>4. board[x].use = 0
  BY <1>2, <1>3, FS_EmptySet DEF BoardFiles
<1>5. \A p \in Procs : board[x].cnt[p] = 0
  BY <1>1, <1>3 DEF BoardFiles, BoardRec
<1>6. QED
  BY <1>1, <1>2, <1>3, <1>4, <1>5 DEF BoardFiles

\* The board changes, and maxidx.
StepBoard(x, r) ==
  /\ r \in BoardRec
  /\ board' = [board EXCEPT ![x] = r]
  /\ maxidx' \in Nat /\ proc' = proc
  /\ count' \in [probes : Nat, faults : Nat, calls : Nat]

\* Nothing runs on it.
Idle(x, r) ==
  /\ r.use = 0 /\ r.chan = "none" /\ \A p \in Procs : r.cnt[p] = 0
  /\ Family[x] = "me5" => ~r.irq

\* A step on an idle board preserves the invariant if numbers and holdings are right.
LEMMA BoardStepKeeps ==
  ASSUME IInv, NEW x \in Boards, NEW r, StepBoard(x, r), Idle(x, r), HoldsRight(x, r), Numbers',
         board[x].at # "up" \/ Users(x) = {}
  PROVE  IInv'
<1>1. TypeOK'
  BY DEF IInv, TypeOK, StepBoard
<1>2. board'[x] = r /\ (\A y \in Boards \ {x} : board'[y] = board[y]) /\ proc' = proc
  BY DEF IInv, TypeOK, StepBoard
<1>3. Holdings'
  BY <1>2 DEF IInv, Holdings
<1>4. /\ \A p \in Procs : proc[p].on # x
      /\ FilesOn(x) = {} /\ board[x].use = 0
  BY Nobody
<1>5. \A y : FilesOn(y)' = FilesOn(y)
  BY <1>2 DEF FilesOn
<1>6. \A p \in Procs : ProcFiles(p)'
  <2>1. TAKE p \in Procs
  <2>2. ProcFiles(p)
    BY DEF IInv, Files
  <2>3. QED
    BY <1>2, <1>4, <2>2 DEF ProcFiles, Is
<1>7. \A y \in Boards \ {x} : BoardFiles(y)'
  <2>1. TAKE y \in Boards \ {x}
  <2>2. BoardFiles(y) /\ board'[y] = board[y] /\ FilesOn(y)' = FilesOn(y)
    BY <1>2, <1>5 DEF IInv, Files
  <2>3. QED
    BY <1>2, <2>2 DEF BoardFiles
<1>8. BoardFiles(x)'
  <2>1. IsFiniteSet(FilesOn(x)') /\ Cardinality(FilesOn(x)') = 0
    BY <1>4, <1>5, FS_EmptySet
  <2>2. QED
    BY <1>2, <2>1, BoardAssumption DEF BoardFiles, Idle
<1>9. QED
  BY <1>1, <1>3, <1>6, <1>7, <1>8 DEF IInv, Files

\* A step that keeps the number of a board keeps the numbers.
LEMMA NumbersKept ==
  ASSUME IInv, NEW x \in Boards, NEW r, StepBoard(x, r), maxidx' = maxidx,
         r.idx = board[x].idx, Has(x, "number"), "number" \in r.held,
         r.at \in {"probing", "dropping", "failing"} => InProbe(x)
  PROVE  Numbers'
<1>1. board'[x] = r /\ (\A y \in Boards \ {x} : board'[y] = board[y])
  BY DEF IInv, TypeOK, StepBoard
<1>2. \A y \in Boards : InProbe(y)' => InProbe(y)
  BY <1>1 DEF InProbe
<1>3. \A y \in Boards : /\ board'[y].idx = board[y].idx
                        /\ "number" \in board'[y].held <=> "number" \in board[y].held
  BY <1>1 DEF Has
<1>4. \A y \in Boards \ {x} : board'[y] = board[y]
  BY <1>1
<1>5. ASSUME NEW y \in Boards
      PROVE  /\ board'[y].at \in {"probing", "dropping", "up", "removing", "unregister"} => Has(y, "number")'
             /\ Has(y, "number")' => board'[y].idx < maxidx'
             /\ InProbe(y)' /\ Has(y, "number")' => board'[y].idx = maxidx' - 1
             /\ Is(y, "failing")' /\ ~Has(y, "number")' => board'[y].idx >= maxidx'
  <2>1. CASE y = x
    BY <1>1, <1>2, <1>3, <2>1 DEF IInv, Numbers, Has, Is
  <2>2. CASE y # x
    BY <1>2, <1>3, <1>4, <2>2 DEF IInv, Numbers, Has, Is
  <2>3. QED
    BY <2>1, <2>2
<1>6. NumbersUnique'
  BY <1>3 DEF IInv, Numbers, NumbersUnique, Has
<1>7. \A y, z \in Boards : InProbe(y)' /\ InProbe(z)' => y = z
  BY <1>2 DEF IInv, Numbers
<1>8. QED
  BY <1>5, <1>6, <1>7 DEF Numbers

\* The number of a board goes back, and maxidx is lowered if it was the highest.
LEMMA NumberGivenBack ==
  ASSUME IInv, NEW x \in Boards, NEW r, StepBoard(x, r), LowerMax(x), Has(x, "number"),
         "number" \notin r.held, r.at \in {"failed", "failing", "removed"},
         r.at = "failing" => Is(x, "failing") /\ r.idx = board[x].idx
  PROVE  Numbers'
<1>1. board'[x] = r /\ (\A y \in Boards \ {x} : board'[y] = board[y])
  BY DEF IInv, TypeOK, StepBoard
<1>2. maxidx \in Nat /\ board[x].idx \in Nat /\ board[x].idx < maxidx
  BY DEF IInv, TypeOK, BoardRec, Numbers
<1>3. maxidx' = IF board[x].idx = maxidx - 1 THEN maxidx - 1 ELSE maxidx
  BY DEF LowerMax
<1>4. \A y \in Boards : InProbe(y)' => InProbe(y)
  BY <1>1 DEF InProbe, Is
<1>5. \A y \in Boards \ {x} : Has(y, "number") => board[y].idx # board[x].idx /\ board[y].idx \in Nat
  BY DEF IInv, Numbers, NumbersUnique, TypeOK, BoardRec
<1>6. ASSUME NEW y \in Boards
      PROVE  /\ board'[y].at \in {"probing", "dropping", "up", "removing", "unregister"} => Has(y, "number")'
             /\ Has(y, "number")' => board'[y].idx < maxidx'
             /\ InProbe(y)' /\ Has(y, "number")' => board'[y].idx = maxidx' - 1
             /\ Is(y, "failing")' /\ ~Has(y, "number")' => board'[y].idx >= maxidx'
  <2>1. CASE y = x
    <3>1. ~Has(y, "number")' /\ board'[y].at = r.at
      BY <1>1, <2>1 DEF Has
    <3>2. ASSUME r.at = "failing" PROVE board'[y].idx >= maxidx'
      <4>1. InProbe(x)
        BY <3>2 DEF InProbe, Is
      <4>2. board[x].idx = maxidx - 1
        BY <4>1 DEF IInv, Numbers
      <4>3. board'[y].idx = board[x].idx
        BY <1>1, <2>1, <3>2
      <4>4. QED
        BY <1>2, <1>3, <4>2, <4>3
    <3>3. QED
      BY <3>1, <3>2 DEF Is
  <2>2. CASE y # x
    <3>1. board'[y] = board[y]
      BY <1>1, <2>2
    <3>2. /\ board[y].at \in {"probing", "dropping", "up", "removing", "unregister"} => Has(y, "number")
          /\ Has(y, "number") => board[y].idx < maxidx
          /\ InProbe(y) /\ Has(y, "number") => board[y].idx = maxidx - 1
          /\ Is(y, "failing") /\ ~Has(y, "number") => board[y].idx >= maxidx
          /\ board[y].idx \in Nat
      BY DEF IInv, Numbers, TypeOK, BoardRec
    <3>3. (Has(y, "number")' <=> Has(y, "number")) /\ (InProbe(y)' <=> InProbe(y)) /\ (Is(y, "failing")' <=> Is(y, "failing"))
      BY <3>1 DEF Has, InProbe, Is
    <3>4. Has(y, "number") => board[y].idx # board[x].idx
      BY <1>5, <2>2
    <3>5. QED
      BY <1>2, <1>3, <3>1, <3>2, <3>3, <3>4
  <2>3. QED
    BY <2>1, <2>2
<1>7. NumbersUnique'
  <2>1. \A y \in Boards : Has(y, "number")' => y # x /\ Has(y, "number") /\ board'[y] = board[y]
    BY <1>1 DEF Has
  <2>2. QED
    BY <2>1 DEF IInv, Numbers, NumbersUnique
<1>8. \A y, z \in Boards : InProbe(y)' /\ InProbe(z)' => y = z
  BY <1>4 DEF IInv, Numbers
<1>9. QED
  BY <1>6, <1>7, <1>8 DEF Numbers

\* What is known of a board that is probed, and of the step it is at.
LEMMA AtStep ==
  ASSUME IInv, NEW x \in Boards, Is(x, "probing")
  PROVE  /\ board[x] \in BoardRec /\ board[x].step \in 1 .. Len(Ladder(x))
         /\ Len(Ladder(x)) \in Nat
         /\ board[x].held \subseteq Taken(x, board[x].step) /\ board[x].held \subseteq Everything(x)
         /\ Ladder(x)[board[x].step] \in StepRec
         /\ Taken(x, board[x].step + 1) = Taken(x, board[x].step) \cup {Ladder(x)[board[x].step].takes}
         /\ Has(x, "number") /\ InProbe(x) /\ maxidx \in Nat
         /\ count \in [probes : Nat, faults : Nat, calls : Nat]
<1>1. /\ board[x] \in BoardRec /\ HoldsRight(x, board[x]) /\ maxidx \in Nat
      /\ count \in [probes : Nat, faults : Nat, calls : Nat]
  BY DEF IInv, TypeOK, Holdings
<1>2. /\ board[x].step \in 1 .. Len(Ladder(x)) /\ board[x].held \subseteq Taken(x, board[x].step)
      /\ board[x].held \subseteq Everything(x)
  BY <1>1 DEF HoldsRight, Is
<1>3. Ladder(x)[board[x].step] \in StepRec /\ Len(Ladder(x)) \in Nat
  BY <1>2, LadderRec
<1>4. Taken(x, board[x].step + 1) = Taken(x, board[x].step) \cup {Ladder(x)[board[x].step].takes}
  <2>1. board[x].step \in Nat \ {0}
    BY <1>2, <1>3
  <2>2. QED
    BY <2>1, TakenNext
<1>5. Has(x, "number") /\ InProbe(x)
  BY DEF IInv, Numbers, Is, InProbe
<1>6. QED
  BY <1>1, <1>2, <1>3, <1>4, <1>5

\* What a probe has taken before its last step is part of Everything.
LEMMA TakenIsEverything ==
  ASSUME NEW x \in Boards, NEW i \in 1 .. Len(Ladder(x))
  PROVE  Taken(x, i) \subseteq Everything(x)
<1>1. Len(Ladder(x)) \in Nat \ {0}
  BY LadderRec
<1>2. Taken(x, i) \subseteq Taken(x, Len(Ladder(x)))
  BY <1>1, TakenGrows
<1>3. Taken(x, Len(Ladder(x))) \subseteq Everything(x)
  BY LadderFacts
<1>4. QED
  BY <1>2, <1>3

\* A board at a later step is a board.
LEMMA LaterRec ==
  ASSUME NEW b \in BoardRec, NEW k \in Nat
  PROVE  [b EXCEPT !.step = @ + k] \in BoardRec
<1>1. b.step + k \in Nat
  BY DEF BoardRec
<1>2. \A n \in Nat : [b EXCEPT !.step = n] \in BoardRec
  BY DEF BoardRec
<1>3. QED
  BY <1>1, <1>2

\* A board that has taken a resource is a board.
LEMMA TakenRec ==
  ASSUME NEW b \in BoardRec, NEW h \in SUBSET Resources, NEW n \in Nat,
         NEW st \in {"UNINITIALISED", "READY", "DEAD"}, NEW irq \in BOOLEAN
  PROVE  [b EXCEPT !.held = h, !.step = n, !.at = "probing", !.changing = TRUE,
                   !.state = st, !.irq = irq] \in BoardRec
BY DEF BoardRec

\* ProbeBegin preserves the invariant.
LEMMA ProbeBeginKeeps ==
  ASSUME IInv, NEW x \in Boards, ProbeBegin(x)
  PROVE  IInv'
<1> DEFINE r == [NoBoard EXCEPT !.at = "probing", !.step = 1, !.idx = maxidx,
                                !.held = {"number"}, !.changing = TRUE]
<1>1. /\ maxidx \in Nat /\ count \in [probes : Nat, faults : Nat, calls : Nat]
      /\ board[x].at \in {"absent", "failed", "removed"}
  BY DEF IInv, TypeOK, ProbeBegin
<1>2. r \in BoardRec /\ Idle(x, r)
  BY <1>1 DEF NoBoard, BoardRec, Resources, Core, Idle
<1>3. /\ r.at = "probing" /\ r.step = 1 /\ r.idx = maxidx /\ r.held = {"number"}
  BY DEF NoBoard
<1>4. StepBoard(x, r)
  BY <1>1, <1>2 DEF ProbeBegin, Becomes, StepBoard
<1>5. board'[x] = r /\ (\A y \in Boards \ {x} : board'[y] = board[y]) /\ maxidx' = maxidx + 1
  BY <1>4 DEF IInv, TypeOK, StepBoard, ProbeBegin
<1> HIDE DEF r
<1>6. HoldsRight(x, r)
  <2>1. 1 \in 1 .. Len(Ladder(x))
    <3> DEFINE n == Len(Ladder(x))
    <3>1. n \in {12, 13}
      BY LadderRec
    <3> HIDE DEF n
    <3>2. 1 \in 1 .. n
      BY <3>1
    <3>3. QED
      BY <3>2 DEF n
  <2>2. {"number"} \subseteq Everything(x) /\ {"number"} \subseteq Taken(x, 1)
    BY DEF Everything, Core, Taken
  <2>3. QED
    BY <1>3, <2>1, <2>2 DEF HoldsRight
<1>7. Numbers'
  <2>1. \A y \in Boards \ {x} : ~InProbe(y)' /\ ~InProbe(y)
    BY <1>5 DEF ProbeBegin, Probing, InProbe
  <2>2. \A y \in Boards \ {x} :
          /\ board[y].at \in {"probing", "dropping", "up", "removing", "unregister"} => Has(y, "number")
          /\ Has(y, "number") => board[y].idx < maxidx
          /\ board[y].idx \in Nat
    BY DEF IInv, Numbers, TypeOK, BoardRec
  <2>3. ASSUME NEW y \in Boards
        PROVE  /\ board'[y].at \in {"probing", "dropping", "up", "removing", "unregister"} => Has(y, "number")'
               /\ Has(y, "number")' => board'[y].idx < maxidx'
               /\ InProbe(y)' /\ Has(y, "number")' => board'[y].idx = maxidx' - 1
               /\ Is(y, "failing")' /\ ~Has(y, "number")' => board'[y].idx >= maxidx'
    <3>1. CASE y = x
      BY <1>1, <1>3, <1>5, <3>1 DEF Has, Is
    <3>2. CASE y # x
      BY <1>1, <1>5, <2>1, <2>2, <3>2 DEF Has, Is, InProbe
    <3>3. QED
      BY <3>1, <3>2
  <2>4. NumbersUnique'
    <3>1. \A y \in Boards \ {x} : Has(y, "number")' => Has(y, "number") /\ board'[y].idx = board[y].idx /\ board'[y].idx # maxidx
      BY <1>1, <1>5, <2>2 DEF Has
    <3>2. board'[x].idx = maxidx
      BY <1>3, <1>5
    <3>3. QED
      BY <3>1, <3>2 DEF IInv, Numbers, NumbersUnique
  <2>5. \A y, z \in Boards : InProbe(y)' /\ InProbe(z)' => y = z
    BY <2>1
  <2>6. QED
    BY <2>3, <2>4, <2>5 DEF Numbers
<1>8. QED
  BY <1>1, <1>2, <1>4, <1>6, <1>7, BoardStepKeeps

\* ProbeStep preserves the invariant.
LEMMA ProbeStepKeeps ==
  ASSUME IInv, NEW x \in Boards, ProbeStep(x)
  PROVE  IInv'
<1> DEFINE b == board[x]
           n == Len(Ladder(x))
           t == Ladder(x)[b.step].takes
           st == IF t = "dmas" THEN "READY" ELSE b.state
           irq == b.irq \/ (Family[x] = "me6" /\ t = "peripherals")
           r == [b EXCEPT !.held = @ \cup {t},
                          !.step = IF b.step = n THEN 0 ELSE @ + 1,
                          !.at = IF b.step = n THEN "up" ELSE "probing",
                          !.changing = ~(b.step = n),
                          !.state = st,
                          !.irq = irq]
<1>1. Is(x, "probing") /\ board' = [board EXCEPT ![x] = r] /\ UNCHANGED <<maxidx, proc, count>>
  BY DEF ProbeStep, Becomes
<1>2. /\ b \in BoardRec /\ b.step \in 1 .. n /\ n \in Nat /\ b.held \subseteq Taken(x, b.step)
      /\ b.held \subseteq Everything(x) /\ Ladder(x)[b.step] \in StepRec
      /\ Taken(x, b.step + 1) = Taken(x, b.step) \cup {t}
      /\ Has(x, "number") /\ InProbe(x) /\ maxidx \in Nat
      /\ count \in [probes : Nat, faults : Nat, calls : Nat]
  BY <1>1, AtStep
<1>3. t \in Resources
  BY <1>2 DEF StepRec
<1>4. st \in {"UNINITIALISED", "READY", "DEAD"} /\ irq \in BOOLEAN /\ (Family[x] = "me5" => (irq <=> b.irq))
  BY <1>2 DEF BoardRec
<1>5. n = b.step => t = "link"
  BY <1>2, LadderFacts
<1> HIDE DEF t, st, irq, n
<1>6. CASE b.step = n
  <2> DEFINE u == [b EXCEPT !.held = @ \cup {t}, !.step = 0, !.at = "up", !.changing = FALSE,
                            !.state = st, !.irq = irq]
  <2>1. r = u
    BY <1>6
  <2> HIDE DEF r
  <2>2. u \in BoardRec
    BY <1>2, <1>3, <1>4 DEF BoardRec
  <2>3. /\ u.held = b.held \cup {t} /\ u.at = "up" /\ u.idx = b.idx /\ u.use = b.use
        /\ u.chan = b.chan /\ u.cnt = b.cnt /\ u.irq = irq
    BY <1>2 DEF BoardRec
  <2> HIDE DEF u
  <2>4. StepBoard(x, u)
    BY <1>1, <1>2, <2>1, <2>2 DEF StepBoard
  <2>5. Idle(x, u)
    BY <1>1, <1>4, <2>3, Nobody DEF Idle, Is
  <2>6. HoldsRight(x, u)
    <3>1. u.held \subseteq Everything(x)
      BY <1>2, <1>5, <1>6, <2>3 DEF Everything, Core
    <3>2. QED
      BY <2>3, <3>1 DEF HoldsRight
  <2>7. Numbers'
    BY <1>1, <1>2, <2>3, <2>4, NumbersKept DEF Has
  <2>8. QED
    BY <1>1, <2>4, <2>5, <2>6, <2>7, BoardStepKeeps DEF Is
<1>7. CASE b.step # n
  <2> DEFINE u == [b EXCEPT !.held = @ \cup {t}, !.step = @ + 1, !.at = "probing", !.changing = TRUE,
                            !.state = st, !.irq = irq]
  <2>1. r = u
    BY <1>7
  <2> HIDE DEF r
  <2>2. u \in BoardRec
    <3>1. b.held \cup {t} \in SUBSET Resources /\ b.step + 1 \in Nat
      BY <1>2, <1>3 DEF BoardRec
    <3>2. QED
      BY <1>2, <1>4, <3>1, TakenRec
  <2>3. /\ u.held = b.held \cup {t} /\ u.at = "probing" /\ u.idx = b.idx /\ u.use = b.use
        /\ u.chan = b.chan /\ u.cnt = b.cnt /\ u.irq = irq /\ u.step = b.step + 1
    BY <1>2 DEF BoardRec
  <2> HIDE DEF u
  <2>4. StepBoard(x, u)
    BY <1>1, <1>2, <2>1, <2>2 DEF StepBoard
  <2>5. Idle(x, u)
    BY <1>1, <1>4, <2>3, Nobody DEF Idle, Is
  <2>6. HoldsRight(x, u)
    <3>1. u.step \in 1 .. n
      BY <1>2, <1>7, <2>3
    <3>2. u.held \subseteq Taken(x, u.step)
      BY <1>2, <2>3
    <3>3. Taken(x, u.step) \subseteq Everything(x)
      BY <3>1, TakenIsEverything DEF n
    <3>4. QED
      BY <2>3, <3>1, <3>2, <3>3 DEF HoldsRight, n
  <2>7. Numbers'
    BY <1>1, <1>2, <2>3, <2>4, NumbersKept DEF Has
  <2>8. QED
    BY <1>1, <2>4, <2>5, <2>6, <2>7, BoardStepKeeps DEF Is
<1>8. QED
  BY <1>6, <1>7

\* A probe that goes on without what a step would have taken.
LEMMA SkippedKeeps ==
  ASSUME IInv, NEW x \in Boards, Is(x, "probing"), NEW k \in Nat,
         board[x].step + k <= Len(Ladder(x)),
         board' = [board EXCEPT ![x] = [board[x] EXCEPT !.step = @ + k]],
         maxidx' = maxidx, proc' = proc, count' \in [probes : Nat, faults : Nat, calls : Nat]
  PROVE  IInv'
<1> DEFINE b == board[x]
           u == [b EXCEPT !.step = @ + k]
<1>1. /\ b \in BoardRec /\ b.step \in 1 .. Len(Ladder(x)) /\ Len(Ladder(x)) \in Nat
      /\ b.held \subseteq Taken(x, b.step)
      /\ Has(x, "number") /\ InProbe(x) /\ maxidx \in Nat
  BY AtStep
<1>2. u \in BoardRec
  BY <1>1, LaterRec
<1>3. /\ u.held = b.held /\ u.at = "probing" /\ u.idx = b.idx /\ u.use = b.use
      /\ u.chan = b.chan /\ u.cnt = b.cnt /\ u.irq = b.irq /\ u.step = b.step + k
  BY <1>1 DEF BoardRec, Is
<1>4. StepBoard(x, u)
  BY <1>1, <1>2 DEF StepBoard
<1> HIDE DEF u
<1>5. Idle(x, u)
  BY <1>3, Nobody DEF Idle, Is
<1>6. HoldsRight(x, u)
  <2>1. u.step \in 1 .. Len(Ladder(x))
    BY <1>1, <1>3
  <2>2. Taken(x, b.step) \subseteq Taken(x, u.step)
    BY <1>1, <1>3, TakenGrows
  <2>3. Taken(x, u.step) \subseteq Everything(x)
    BY <2>1, TakenIsEverything
  <2>4. QED
    BY <1>1, <1>3, <2>1, <2>2, <2>3 DEF HoldsRight
<1>7. Numbers'
  BY <1>1, <1>3, <1>4, NumbersKept DEF Has
<1>8. QED
  BY <1>4, <1>5, <1>6, <1>7, BoardStepKeeps DEF Is

\* ProbeUnconfigured preserves the invariant.
LEMMA ProbeUnconfiguredKeeps ==
  ASSUME IInv, NEW x \in Boards, ProbeUnconfigured(x)
  PROVE  IInv'
<1>1. /\ Is(x, "probing") /\ Family[x] = "me6" /\ Ladder(x)[board[x].step].takes = "dmas"
      /\ board' = [board EXCEPT ![x] = [board[x] EXCEPT !.step = @ + 2]]
      /\ UNCHANGED <<maxidx, proc, count>>
  BY DEF ProbeUnconfigured, Becomes
<1>2. board[x].step \in 1 .. Len(Ladder(x)) /\ count \in [probes : Nat, faults : Nat, calls : Nat]
  BY <1>1, AtStep
<1>3. Len(Ladder(x)) = 13
  BY <1>1, LadderRec
<1>4. Ladder(x)[12].takes = "peripherals" /\ Ladder(x)[13].takes = "link"
  <2>1. Ladder(x)[12] = Step("peripherals", Page \cup {"uiqs", "irq"}, TRUE) /\ Ladder(x)[13] = Link(x)
    BY <1>1, Me6LadderAt
  <2>2. QED
    BY <2>1 DEF Link, Step
<1>5. board[x].step + 2 <= Len(Ladder(x))
  BY <1>1, <1>2, <1>3, <1>4
<1>6. QED
  BY <1>1, <1>2, <1>5, SkippedKeeps

\* ProbeFails preserves the invariant.
LEMMA ProbeFailsKeeps ==
  ASSUME IInv, NEW x \in Boards, ProbeFails(x)
  PROVE  IInv'
<1> DEFINE b == board[x]
           s == Ladder(x)[b.step]
           ignored == Family[x] = "me5" /\ s.takes = "peripherals"
           at == CASE b.step <= 2 -> "dropping"
                   [] b.step > 2 /\ (s.told \/ s.takes = "bar") -> "failing"
                   [] OTHER -> "hollow"
           r == [b EXCEPT !.held = @ \ s.gives, !.told = s.told, !.at = at]
<1>1. /\ Is(x, "probing") /\ maxidx' = maxidx /\ proc' = proc
      /\ board' = [board EXCEPT ![x] = IF ignored THEN [b EXCEPT !.step = @ + 1] ELSE r]
      /\ count' = [count EXCEPT !.faults = @ + 1]
  BY DEF ProbeFails, Becomes
<1>2. /\ b \in BoardRec /\ b.step \in 1 .. Len(Ladder(x)) /\ Len(Ladder(x)) \in Nat
      /\ b.held \subseteq Taken(x, b.step) /\ b.held \subseteq Everything(x) /\ s \in StepRec
      /\ Has(x, "number") /\ InProbe(x) /\ maxidx \in Nat
      /\ count \in [probes : Nat, faults : Nat, calls : Nat]
  BY <1>1, AtStep
<1>3. count' \in [probes : Nat, faults : Nat, calls : Nat]
  BY <1>1, <1>2
<1>4. CASE ignored
  <2>1. board[x].step + 1 <= Len(Ladder(x))
    <3>1. Ladder(x)[Len(Ladder(x))].takes = "link"
      BY <1>2, LadderFacts
    <3>2. b.step # Len(Ladder(x))
      BY <1>4, <3>1
    <3>3. QED
      BY <1>2, <3>2
  <2>2. board' = [board EXCEPT ![x] = [board[x] EXCEPT !.step = @ + 1]]
    BY <1>1, <1>4
  <2> HIDE DEF ignored, s, at, r
  <2>3. QED
    BY <1>1, <1>3, <2>1, <2>2, SkippedKeeps
<1>5. CASE ~ignored
  <2>1. "number" \notin s.gives /\ Unwound(x, b.step)
    BY <1>2, <1>5, LadderFacts
  <2>2. (b.step <= 2 \/ s.told \/ s.takes = "bar") => Taken(x, b.step) \ s.gives \subseteq Core \cup MayLeak(x)
    BY <2>1 DEF Unwound
  <2>3. board' = [board EXCEPT ![x] = r]
    BY <1>1, <1>5
  <2>4. /\ at \in {"dropping", "failing", "hollow"}
        /\ at \in {"dropping", "failing"} => b.step <= 2 \/ s.told \/ s.takes = "bar"
    <3>1. b.step \in Nat
      BY <1>2
    <3>2. CASE b.step <= 2
      BY <3>2
    <3>3. CASE b.step > 2 /\ (s.told \/ s.takes = "bar")
      BY <3>1, <3>3
    <3>4. CASE b.step > 2 /\ ~(s.told \/ s.takes = "bar")
      BY <3>1, <3>4
    <3>5. QED
      BY <3>1, <3>2, <3>3, <3>4
  <2> HIDE DEF at, ignored, s
  <2>5. r \in BoardRec
    BY <1>2, <2>4 DEF BoardRec, StepRec
  <2>6. /\ r.held = b.held \ s.gives /\ r.at = at /\ r.idx = b.idx /\ r.use = b.use
        /\ r.chan = b.chan /\ r.cnt = b.cnt /\ r.irq = b.irq
    BY <1>2 DEF BoardRec
  <2> HIDE DEF r
  <2>7. StepBoard(x, r)
    BY <1>1, <1>2, <1>3, <2>3, <2>5 DEF StepBoard
  <2>8. Idle(x, r)
    BY <1>1, <2>6, Nobody DEF Idle, Is
  <2>9. HoldsRight(x, r)
    <3>1. r.held \subseteq Everything(x)
      BY <1>2, <2>6
    <3>2. r.at \in {"dropping", "failing"} => r.held \subseteq Core \cup MayLeak(x)
      BY <1>2, <2>2, <2>4, <2>6
    <3>3. QED
      BY <2>4, <2>6, <3>1, <3>2 DEF HoldsRight
  <2>10. Numbers'
    BY <1>1, <1>2, <2>1, <2>6, <2>7, NumbersKept DEF Has
  <2>11. QED
    BY <1>1, <2>7, <2>8, <2>9, <2>10, BoardStepKeeps DEF Is
<1>6. QED
  BY <1>4, <1>5

\* What menable_pci_probe and menable_pci_remove leave of a board.
LEMMA FreedFacts ==
  ASSUME IInv, NEW x \in Boards, NEW at \in {"failed", "hollow", "removed"}
  PROVE  /\ Freed(x, at) \in BoardRec /\ Idle(x, Freed(x, at))
         /\ Freed(x, at).at = at /\ Freed(x, at).held = board[x].held \ Core
         /\ Freed(x, at).undeclared = board[x].undeclared
         /\ "number" \notin Freed(x, at).held
         /\ maxidx \in Nat /\ count \in [probes : Nat, faults : Nat, calls : Nat]
<1>1. /\ board[x].held \in SUBSET Resources /\ board[x].undeclared \in BOOLEAN /\ maxidx \in Nat
      /\ count \in [probes : Nat, faults : Nat, calls : Nat]
  BY DEF IInv, TypeOK, BoardRec
<1>2. Freed(x, at) = [NoBoard EXCEPT !.at = at, !.undeclared = board[x].undeclared,
                                     !.held = board[x].held \ Core]
  BY DEF Freed, Core
<1>3. "number" \in Core
  BY DEF Core
<1>4. [NoBoard EXCEPT !.at = at, !.undeclared = board[x].undeclared,
                      !.held = board[x].held \ Core] \in BoardRec
  BY <1>1 DEF NoBoard, BoardRec
<1>5. QED
  BY <1>1, <1>2, <1>3, <1>4 DEF NoBoard, Idle

\* maxidx stays a natural number.
LEMMA LowerMaxType ==
  ASSUME IInv, NEW x \in Boards, LowerMax(x)
  PROVE  maxidx' \in Nat
<1>1. maxidx \in Nat /\ board[x].idx \in Nat
  BY DEF IInv, TypeOK, BoardRec
<1>2. QED
  BY <1>1 DEF LowerMax

\* ProbeDropped preserves the invariant.
LEMMA ProbeDroppedKeeps ==
  ASSUME IInv, NEW x \in Boards, ProbeDropped(x)
  PROVE  IInv'
<1> DEFINE r == Freed(x, "failed")
<1>1. /\ board[x].at = "dropping" /\ LowerMax(x) /\ board' = [board EXCEPT ![x] = r]
      /\ UNCHANGED <<proc, count>>
  BY DEF ProbeDropped, Is, Becomes
<1>2. /\ r \in BoardRec /\ Idle(x, r) /\ r.at = "failed" /\ r.held = board[x].held \ Core
      /\ "number" \notin r.held /\ count \in [probes : Nat, faults : Nat, calls : Nat]
  BY FreedFacts
<1> HIDE DEF r
<1>3. StepBoard(x, r)
  BY <1>1, <1>2, LowerMaxType DEF StepBoard
<1>4. HoldsRight(x, r)
  BY <1>1, <1>2 DEF IInv, Holdings, HoldsRight
<1>5. Has(x, "number")
  BY <1>1 DEF IInv, Numbers
<1>6. Numbers'
  BY <1>1, <1>2, <1>3, <1>5, NumberGivenBack
<1>7. QED
  BY <1>1, <1>2, <1>3, <1>4, <1>6, BoardStepKeeps

\* ProbeUnwind preserves the invariant.
LEMMA ProbeUnwindKeeps ==
  ASSUME IInv, NEW x \in Boards, ProbeUnwind(x)
  PROVE  IInv'
<1> DEFINE b == board[x]
           r == [b EXCEPT !.held = @ \ {"number"}]
<1>1. /\ Is(x, "failing") /\ Has(x, "number") /\ LowerMax(x) /\ board' = [board EXCEPT ![x] = r]
      /\ UNCHANGED <<proc, count>>
  BY DEF ProbeUnwind, Becomes
<1>2. b \in BoardRec /\ count \in [probes : Nat, faults : Nat, calls : Nat] /\ HoldsRight(x, b)
  BY DEF IInv, TypeOK, Holdings
<1>3. r \in BoardRec
  BY <1>2 DEF BoardRec
<1>4. /\ r.held = b.held \ {"number"} /\ r.at = "failing" /\ r.idx = b.idx /\ r.use = b.use
      /\ r.chan = b.chan /\ r.cnt = b.cnt /\ r.irq = b.irq
  BY <1>1, <1>2 DEF BoardRec, Is
<1> HIDE DEF r
<1>5. StepBoard(x, r)
  BY <1>1, <1>2, <1>3, LowerMaxType DEF StepBoard
<1>6. Idle(x, r)
  BY <1>1, <1>4, Nobody DEF Idle, Is
<1>7. HoldsRight(x, r)
  BY <1>1, <1>2, <1>4 DEF HoldsRight, Is
<1>8. Numbers'
  BY <1>1, <1>4, <1>5, NumberGivenBack
<1>9. QED
  BY <1>1, <1>5, <1>6, <1>7, <1>8, BoardStepKeeps DEF Is

\* ProbeEnds preserves the invariant.
LEMMA ProbeEndsKeeps ==
  ASSUME IInv, NEW x \in Boards, ProbeEnds(x)
  PROVE  IInv'
<1> DEFINE at == IF board[x].told THEN "failed" ELSE "hollow"
           r == Freed(x, at)
<1>1. /\ board[x].at = "failing" /\ ~Has(x, "number") /\ LowerMax(x) /\ board' = [board EXCEPT ![x] = r]
      /\ UNCHANGED <<proc, count>>
  BY DEF ProbeEnds, Is, Becomes
<1>2. at \in {"failed", "hollow"}
  OBVIOUS
<1> HIDE DEF at
<1>3. /\ r \in BoardRec /\ Idle(x, r) /\ r.at = at /\ r.held = board[x].held \ Core
      /\ "number" \notin r.held /\ count \in [probes : Nat, faults : Nat, calls : Nat]
  BY <1>2, FreedFacts
<1> HIDE DEF r
<1>4. StepBoard(x, r)
  BY <1>1, <1>3, LowerMaxType DEF StepBoard
<1>5. HoldsRight(x, r)
  BY <1>1, <1>2, <1>3 DEF IInv, Holdings, HoldsRight
\* The number was given back before: the second look at it finds it above maxidx.
<1>6. maxidx' = maxidx
  <2>1. maxidx \in Nat /\ board[x].idx \in Nat /\ board[x].idx >= maxidx
    BY <1>1 DEF IInv, TypeOK, BoardRec, Numbers, Is
  <2>2. QED
    BY <1>1, <2>1 DEF LowerMax
<1>7. Numbers'
  <2>1. board'[x] = r /\ (\A y \in Boards \ {x} : board'[y] = board[y])
    BY <1>4 DEF IInv, TypeOK, StepBoard
  <2>2. \A y \in Boards : /\ Has(y, "number")' <=> Has(y, "number")
                          /\ InProbe(y)' => InProbe(y)
                          /\ y # x \/ (~Has(y, "number")' /\ ~InProbe(y)' /\ ~Is(y, "failing")')
    BY <1>1, <1>2, <1>3, <2>1 DEF Has, InProbe, Is
  <2>3. ASSUME NEW y \in Boards
        PROVE  /\ board'[y].at \in {"probing", "dropping", "up", "removing", "unregister"} => Has(y, "number")'
               /\ Has(y, "number")' => board'[y].idx < maxidx'
               /\ InProbe(y)' /\ Has(y, "number")' => board'[y].idx = maxidx' - 1
               /\ Is(y, "failing")' /\ ~Has(y, "number")' => board'[y].idx >= maxidx'
    <3>1. CASE y = x
      BY <1>2, <1>3, <2>1, <2>2, <3>1
    <3>2. CASE y # x
      BY <1>6, <2>1, <2>2, <3>2 DEF IInv, Numbers, Is
    <3>3. QED
      BY <3>1, <3>2
  <2>4. NumbersUnique'
    <3>1. \A y \in Boards : Has(y, "number")' => Has(y, "number") /\ board'[y] = board[y]
      BY <2>1, <2>2
    <3>2. QED
      BY <3>1 DEF IInv, Numbers, NumbersUnique
  <2>5. QED
    BY <2>2, <2>3, <2>4 DEF IInv, Numbers
<1>8. QED
  BY <1>1, <1>3, <1>4, <1>5, <1>7, BoardStepKeeps

\* Remove preserves the invariant.
LEMMA RemoveKeeps ==
  ASSUME IInv, NEW x \in Boards, Remove(x)
  PROVE  IInv'
<1> DEFINE b == board[x]
           r == [b EXCEPT !.at = "removing", !.changing = TRUE, !.irq = FALSE,
                          !.releasing = TRUE, !.held = @ \ {"dmas"}]
<1>1. /\ Is(x, "up") /\ Users(x) = {} /\ board' = [board EXCEPT ![x] = r]
      /\ UNCHANGED <<maxidx, proc, count>>
  BY DEF Remove, Becomes
<1>2. /\ b \in BoardRec /\ count \in [probes : Nat, faults : Nat, calls : Nat] /\ HoldsRight(x, b)
      /\ maxidx \in Nat /\ Has(x, "number")
  BY <1>1 DEF IInv, TypeOK, Holdings, Numbers, Is
<1>3. r \in BoardRec
  BY <1>2 DEF BoardRec
<1>4. /\ r.held = b.held \ {"dmas"} /\ r.at = "removing" /\ r.idx = b.idx /\ r.use = b.use
      /\ r.chan = b.chan /\ r.cnt = b.cnt /\ r.irq = FALSE
  BY <1>2 DEF BoardRec
<1> HIDE DEF r
<1>5. StepBoard(x, r)
  BY <1>1, <1>2, <1>3 DEF StepBoard
<1>6. Idle(x, r)
  BY <1>1, <1>4, Nobody DEF Idle
<1>7. HoldsRight(x, r)
  BY <1>2, <1>4 DEF HoldsRight
<1>8. Numbers'
  BY <1>1, <1>2, <1>4, <1>5, NumbersKept DEF Has
<1>9. QED
  BY <1>1, <1>5, <1>6, <1>7, <1>8, BoardStepKeeps

\* Exit preserves the invariant.
LEMMA ExitKeeps ==
  ASSUME IInv, NEW x \in Boards, Exit(x)
  PROVE  IInv'
<1> DEFINE b == board[x]
           gone == ExitFrees(x) \ Orphaned(b)
           r == [b EXCEPT !.at = "unregister", !.held = @ \ gone]
<1>1. /\ Is(x, "removing") /\ board' = [board EXCEPT ![x] = r]
      /\ UNCHANGED <<maxidx, proc, count>>
  BY DEF Exit, Becomes
<1>2. /\ b \in BoardRec /\ count \in [probes : Nat, faults : Nat, calls : Nat] /\ HoldsRight(x, b)
      /\ maxidx \in Nat /\ Has(x, "number")
  BY <1>1 DEF IInv, TypeOK, Holdings, Numbers, Is
<1>3. r \in BoardRec
  BY <1>2 DEF BoardRec
<1>4. /\ r.held = b.held \ gone /\ r.at = "unregister" /\ r.idx = b.idx /\ r.use = b.use
      /\ r.chan = b.chan /\ r.cnt = b.cnt /\ r.irq = b.irq /\ r.undeclared = b.undeclared
  BY <1>2 DEF BoardRec
<1> HIDE DEF r
<1>5. StepBoard(x, r)
  BY <1>1, <1>2, <1>3 DEF StepBoard
<1>6. Idle(x, r)
  BY <1>1, <1>4, Nobody DEF Idle, Is
<1>7. HoldsRight(x, r)
  BY <1>1, <1>2, <1>4 DEF HoldsRight, Is, Orphaned
<1>8. "number" \notin ExitFrees(x)
  BY DEF ExitFrees, Me5Exit, Me6Exit, Page
<1>9. Numbers'
  BY <1>1, <1>2, <1>4, <1>5, <1>8, NumbersKept DEF Has
<1>10. QED
  BY <1>1, <1>5, <1>6, <1>7, <1>9, BoardStepKeeps DEF Is

\* RemoveEnds preserves the invariant.
LEMMA RemoveEndsKeeps ==
  ASSUME IInv, NEW x \in Boards, RemoveEnds(x)
  PROVE  IInv'
<1> DEFINE r == Freed(x, "removed")
<1>1. /\ board[x].at = "unregister" /\ LowerMax(x) /\ board' = [board EXCEPT ![x] = r]
      /\ UNCHANGED <<proc, count>>
  BY DEF RemoveEnds, Is, Becomes
<1>2. /\ r \in BoardRec /\ Idle(x, r) /\ r.at = "removed" /\ r.held = board[x].held \ Core
      /\ r.undeclared = board[x].undeclared
      /\ "number" \notin r.held /\ count \in [probes : Nat, faults : Nat, calls : Nat]
  BY FreedFacts
<1> HIDE DEF r
<1>3. StepBoard(x, r)
  BY <1>1, <1>2, LowerMaxType DEF StepBoard
<1>4. HoldsRight(x, r)
  <2>1. /\ board[x].held \subseteq Everything(x)
        /\ board[x].held \cap ExitFrees(x) \subseteq Orphaned(board[x])
        /\ "dmas" \notin board[x].held
    BY <1>1 DEF IInv, Holdings, HoldsRight
  <2>2. r.held \subseteq Orphaned(r) /\ r.held \subseteq Everything(x)
    BY <1>2, <2>1 DEF Everything, Orphaned
  <2>3. QED
    BY <1>2, <2>2 DEF HoldsRight
<1>5. Has(x, "number")
  BY <1>1 DEF IInv, Numbers
<1>6. Numbers'
  BY <1>1, <1>2, <1>3, <1>5, NumberGivenBack
<1>7. QED
  BY <1>1, <1>2, <1>3, <1>4, <1>6, BoardStepKeeps
-----------------------------------------------------------------------------
(* The theorems.                                                           *)

\* Every step preserves the invariant.
LEMMA NextKeepsIInv == IInv /\ [Next]_vars => IInv'
<1> SUFFICES ASSUME IInv, [Next]_vars PROVE IInv'
  OBVIOUS
<1>1. CASE UNCHANGED vars
  <2>1. board' = board /\ proc' = proc /\ maxidx' = maxidx /\ count' = count
    BY <1>1 DEF vars
  <2>2. TypeOK' /\ Numbers' /\ Holdings'
    BY <2>1 DEF IInv, TypeOK, Numbers, NumbersUnique, Holdings, InProbe, Has, Is
  <2>3. \A y : FilesOn(y)' = FilesOn(y)
    BY <2>1 DEF FilesOn
  <2>4. \A y \in Boards : BoardFiles(y)'
    <3>1. TAKE y \in Boards
    <3>2. BoardFiles(y) /\ FilesOn(y)' = FilesOn(y)
      BY <2>3 DEF IInv, Files
    <3>3. QED
      BY <2>1, <3>2 DEF BoardFiles
  <2>5. \A p \in Procs : ProcFiles(p)'
    BY <2>1 DEF IInv, Files, ProcFiles, Is
  <2>6. QED
    BY <2>2, <2>4, <2>5 DEF IInv, Files
<1>2. ASSUME NEW x \in Boards,
             \/ ProbeBegin(x) \/ ProbeStep(x) \/ ProbeUnconfigured(x) \/ ProbeFails(x)
             \/ ProbeDropped(x) \/ ProbeUnwind(x) \/ ProbeEnds(x)
             \/ Remove(x) \/ Exit(x) \/ RemoveEnds(x)
      PROVE  IInv'
  BY <1>2, ProbeBeginKeeps, ProbeStepKeeps, ProbeUnconfiguredKeeps, ProbeFailsKeeps,
     ProbeDroppedKeeps, ProbeUnwindKeeps, ProbeEndsKeeps, RemoveKeeps, ExitKeeps, RemoveEndsKeeps
<1>3. ASSUME NEW x \in Boards, NEW p \in Procs, Open(p, x) PROVE IInv'
  BY <1>3, OpenKeeps
<1>4. ASSUME NEW p \in Procs,
             \/ JoinGroup(p) \/ Release(p) \/ Cleanup(p) \/ CleanupEnds(p)
             \/ StartDma(p) \/ StopDma(p) \/ PPControl(p) \/ PPControlEnds(p)
      PROVE  IInv'
  BY <1>4, JoinGroupKeeps, ReleaseKeeps, CleanupKeeps, CleanupEndsKeeps, StartDmaKeeps,
     StopDmaKeeps, PPControlKeeps, PPControlEndsKeeps
<1>5. ASSUME NEW p \in Procs,
             \/ Reconfigure(p) \/ DeviceRemoved(p) \/ DeviceRemovedWaits(p) \/ DropDmas(p)
             \/ Reconnected(p) \/ AddDmas(p) \/ ReconfigureEnds(p)
             \/ Configure(p) \/ WriteBitstream(p) \/ InitPeripherals(p)
      PROVE  IInv'
  BY <1>5, ReconfigureKeeps, DeviceRemovedKeeps, DeviceRemovedWaitsKeeps, DropDmasKeeps,
     ReconnectedKeeps, AddDmasKeeps, ReconfigureEndsKeeps, ConfigureKeeps, WriteBitstreamKeeps,
     InitPeripheralsKeeps
<1>6. QED
  BY <1>1, <1>2, <1>3, <1>4, <1>5 DEF Next

\* The invariant holds in every reachable state.
LEMMA SpecIInv == Spec => []IInv
BY InitIInv, NextKeepsIInv, PTL DEF Spec

\* The state of boards and processes stays in the sets of BoardRec and ProcRec: no count
\* of files goes below 0, no process is on a board that is not there.
THEOREM BoardTypeCorrect == Spec => []TypeOK
<1>1. IInv => TypeOK
  BY DEF IInv
<1>2. QED
  BY <1>1, SpecIInv, PTL

\* Two boards never have the same number, for any number of boards, probes that fail at
\* any step and removals in any order: LowerMax, which menable_pci_probe and
\* menable_obj_release both run for a failed probe, never lowers maxidx to a number in use.
THEOREM NumbersAreUnique == Spec => []NumbersUnique
<1>1. IInv => NumbersUnique
  BY DEF IInv, Numbers
<1>2. QED
  BY <1>1, SpecIInv, PTL

\* A removed board holds nothing but pages of the messaging DMA that the driver has
\* forgotten in a failed reconfiguration, and a failed probe leaves no more than MayLeak,
\* whatever step of me5_probe or me6_probe failed and whatever the ioctls did before.
THEOREM NothingIsLeft == Spec => []NothingLeft
<1>1. IInv => NothingLeft
  BY DEF IInv, Holdings, HoldsRight, NothingLeft, Is
<1>2. QED
  BY <1>1, SpecIInv, PTL

\* Nothing runs on a board without a user, for any number of processes and files: the last
\* menable_release stops channels and interrupts, also while another process reconfigures.
THEOREM UnusedBoardsAreQuiet == Spec => []UnusedIsQuiet
<1>1. IInv => UnusedIsQuiet
  <2> SUFFICES ASSUME IInv PROVE UnusedIsQuiet
    OBVIOUS
  <2>1. ASSUME NEW x \in Boards, board[x].chan \in Procs
        PROVE  proc[board[x].chan].on = x /\ proc[board[x].chan].files > 0
    <3>1. BoardFiles(x) /\ board[x] \in BoardRec /\ proc[board[x].chan] \in ProcRec
      BY <2>1 DEF IInv, Files, TypeOK
    <3>2. board[x].cnt[board[x].chan] \in Nat /\ proc[board[x].chan].files \in Nat
      BY <2>1, <3>1 DEF BoardRec, ProcRec
    <3>3. QED
      BY <2>1, <3>1, <3>2 DEF BoardFiles
  <2>2. QED
    BY <2>1 DEF IInv, Files, BoardFiles, UnusedIsQuiet, On
<1>2. QED
  BY <1>1, SpecIInv, PTL
=============================================================================
