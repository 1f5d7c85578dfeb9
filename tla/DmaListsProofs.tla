--------------------------- MODULE DmaListsProofs ---------------------------
(***************************************************************************)
(* The buffer lists of a channel, for every number of heads and slots and  *)
(* every interleaving of ioctls, interrupts, stops and restarts: lists,    *)
(* counters and listnames agree (ListsConsistent), frames are handed out   *)
(* in order (FramesInOrder), the hot list is what the board has            *)
(* (HotMatchesHardware, QueuedBuffersRegistered) and the board is never    *)
(* left without a descriptor (EngineFed).  A last theorem, for clients     *)
(* that do anything the driver accepts, names the one ioctl that breaks    *)
(* the lists of a running acquisition.                                     *)
(***************************************************************************)
EXTENDS DmaChannelProofs, FiniteSetTheorems, FunctionTheorems

(***************************************************************************)
(* A list, its counter and the set of buffers it should hold.              *)
(***************************************************************************)

\* s links each buffer of X once, and beside them only dummy buffers; n counts it.
Holds(s, n, X) ==
  /\ n = Len(s) /\ Injective(s)
  /\ \A b \in Buf : b \in Members(s) <=> b \in X

\* A buffer that is put behind the others.
LEMMA AppendHolds ==
  ASSUME NEW S, NEW s \in Seq(S), NEW n, NEW X, NEW b \in Buf, Holds(s, n, X), b \notin X
  PROVE  Holds(Append(s, b), n + 1, X \cup {b})
<1> DEFINE a == Append(s, b)
<1>1. Len(s) \in Nat /\ Len(a) = Len(s) + 1 /\ a[Len(s) + 1] = b
      /\ \A i \in 1 .. Len(s) : a[i] = s[i]
  OBVIOUS
<1> HIDE DEF a
<1>3. Injective(a)
  BY <1>1 DEF Injective, Holds, Members
<1>4. Members(a) = Members(s) \cup {b}
  <2>1. 1 .. Len(a) = 1 .. Len(s) \cup {Len(s) + 1}
    BY <1>1
  <2>2. QED
    BY <1>1, <2>1 DEF Members
<1>5. QED
  BY <1>1, <1>3, <1>4 DEF Holds, a

\* The first entry is taken out.
LEMMA TailHolds ==
  ASSUME NEW S, NEW s \in Seq(S), NEW n, NEW X, s # <<>>, Holds(s, n, X)
  PROVE  Holds(Tail(s), Dec(n), X \ {Head(s)})
<1> DEFINE r == Tail(s)
<1>1. Len(s) \in Nat \ {0} /\ Len(r) = Len(s) - 1 /\ Head(s) = s[1]
      /\ \A i \in 1 .. Len(s) - 1 : r[i] = s[i + 1]
  OBVIOUS
<1> HIDE DEF r
<1>2. Dec(n) = Len(r)
  BY <1>1 DEF Dec, Holds
<1>3. Injective(r)
  BY <1>1 DEF Injective, Holds
<1>4. Members(r) = Members(s) \ {s[1]}
  <2>1. ASSUME NEW x \in Members(r) PROVE x \in Members(s) /\ x # s[1]
    <3>1. PICK i \in 1 .. Len(r) : x = r[i]
      BY DEF Members
    <3>2. x = s[i + 1] /\ i + 1 \in 1 .. Len(s) /\ i + 1 # 1 /\ 1 \in 1 .. Len(s)
      BY <1>1, <3>1
    <3>3. QED
      BY <3>2 DEF Members, Holds, Injective
  <2>2. ASSUME NEW x \in Members(s), x # s[1] PROVE x \in Members(r)
    <3>1. PICK i \in 1 .. Len(s) : x = s[i]
      BY DEF Members
    <3>2. i - 1 \in 1 .. Len(r) /\ x = r[i - 1]
      BY <1>1, <2>2, <3>1
    <3>3. QED
      BY <3>2 DEF Members
  <2>3. QED
    BY <2>1, <2>2
<1>5. QED
  BY <1>1, <1>2, <1>3, <1>4 DEF Holds, r

\* list_del of an entry, or of one that is not in this list.
LEMMA UnlinkHolds ==
  ASSUME NEW S, NEW s \in Seq(S), NEW n, NEW X, NEW b \in Buf, Holds(s, n, X)
  PROVE  /\ b \in X => Holds(Unlink(s, b), Dec(n), X \ {b}) /\ Dec(n) = n - 1
         /\ b \notin X => Unlink(s, b) = s
         /\ Members(Unlink(s, b)) \subseteq Members(s)
<1>1. ASSUME b \notin X PROVE Unlink(s, b) = s
  BY <1>1 DEF Unlink, Holds, Members
<1>2. ASSUME b \in X
      PROVE  /\ Holds(Unlink(s, b), Dec(n), X \ {b}) /\ Dec(n) = n - 1
             /\ Members(Unlink(s, b)) \subseteq Members(s)
  <2> DEFINE k == CHOOSE i \in 1 .. Len(s) : s[i] = b
             r == [i \in 1 .. Len(s) - 1 |-> IF i < k THEN s[i] ELSE s[i + 1]]
  <2>1. \E i \in 1 .. Len(s) : s[i] = b
    BY <1>2 DEF Holds, Members
  <2>2. k \in 1 .. Len(s) /\ s[k] = b
    BY <2>1
  <2>3. Unlink(s, b) = r
    BY <2>1 DEF Unlink
  <2> HIDE DEF k
  <2>4. Len(s) \in Nat /\ Len(s) - 1 \in Nat
    BY <2>2
  <2>5. Len(r) = Len(s) - 1
    BY <2>4
  <2>6. \A i \in 1 .. Len(s) - 1 : r[i] = IF i < k THEN s[i] ELSE s[i + 1]
    OBVIOUS
  <2> HIDE DEF r
  <2>7. Dec(n) = Len(r) /\ Dec(n) = n - 1
    BY <2>2, <2>4, <2>5 DEF Dec, Holds
  <2>8. Injective(r)
    BY <2>2, <2>4, <2>5, <2>6 DEF Injective, Holds
  <2>9. Members(r) = Members(s) \ {b}
    <3>1. ASSUME NEW x \in Members(r) PROVE x \in Members(s) /\ x # b
      <4>1. PICK i \in 1 .. Len(r) : x = r[i]
        BY DEF Members
      <4>2. PICK j \in 1 .. Len(s) : x = s[j] /\ j # k
        BY <2>2, <2>4, <2>5, <2>6, <4>1
      <4>3. QED
        BY <2>2, <4>2 DEF Members, Holds, Injective
    <3>2. ASSUME NEW x \in Members(s), x # b PROVE x \in Members(r)
      <4>1. PICK i \in 1 .. Len(s) : x = s[i]
        BY DEF Members
      <4>2. i # k
        BY <2>2, <3>2, <4>1
      <4>3. CASE i < k
        <5>1. i \in 1 .. Len(r) /\ x = r[i]
          BY <2>2, <2>4, <2>5, <2>6, <4>1, <4>3
        <5>2. QED
          BY <5>1 DEF Members
      <4>4. CASE i > k
        <5>1. i - 1 \in 1 .. Len(r) /\ x = r[i - 1]
          BY <2>2, <2>4, <2>5, <2>6, <4>1, <4>4
        <5>2. QED
          BY <5>1 DEF Members
      <4>5. QED
        BY <2>2, <4>1, <4>2, <4>3, <4>4
    <3>3. QED
      BY <3>1, <3>2
  <2>10. QED
    BY <2>3, <2>7, <2>8, <2>9 DEF Holds
<1>3. QED
  BY <1>1, <1>2

\* The first k entries and the rest.
LEMMA SplitHolds ==
  ASSUME NEW s \in Seq(Buf), NEW n, NEW X, NEW k \in Nat, k <= Len(s), Holds(s, n, X)
  PROVE  /\ FirstN(s, k) \in Seq(Buf) /\ AfterN(s, k) \in Seq(Buf)
         /\ Len(FirstN(s, k)) = k /\ Injective(FirstN(s, k))
         /\ Members(FirstN(s, k)) \subseteq Members(s)
         /\ Holds(AfterN(s, k), n - k, X \ Members(FirstN(s, k)))
<1> DEFINE f == FirstN(s, k)
           r == AfterN(s, k)
<1>1. f = SubSeq(s, 1, k) /\ r = SubSeq(s, k + 1, Len(s)) /\ Len(s) \in Nat
  BY DEF FirstN, Min2, AfterN
<1>2. f \in Seq(Buf) /\ Len(f) = k /\ \A i \in 1 .. k : f[i] = s[i]
  BY <1>1
<1>3. r \in Seq(Buf) /\ Len(r) = Len(s) - k /\ \A i \in 1 .. Len(s) - k : r[i] = s[i + k]
  BY <1>1
<1> HIDE DEF f, r
<1>4. Injective(f) /\ Members(f) \subseteq Members(s)
  BY <1>1, <1>2 DEF Injective, Holds, Members
<1>5. Injective(r)
  BY <1>1, <1>3 DEF Injective, Holds
<1>6. Members(r) = Members(s) \ Members(f)
  <2>1. ASSUME NEW x \in Members(r) PROVE x \in Members(s) /\ x \notin Members(f)
    <3>1. PICK i \in 1 .. Len(r) : x = r[i]
      BY DEF Members
    <3>2. x = s[i + k] /\ i + k \in 1 .. Len(s) /\ i + k > k
      BY <1>1, <1>3, <3>1
    <3>3. \A j \in 1 .. k : j \in 1 .. Len(s) /\ s[j] # x
      BY <1>1, <3>2 DEF Holds, Injective
    <3>4. QED
      BY <1>2, <3>2, <3>3 DEF Members
  <2>2. ASSUME NEW x \in Members(s), x \notin Members(f) PROVE x \in Members(r)
    <3>1. PICK i \in 1 .. Len(s) : x = s[i]
      BY DEF Members
    <3>2. i > k
      BY <1>1, <1>2, <2>2, <3>1 DEF Members
    <3>3. i - k \in 1 .. Len(r) /\ x = r[i - k]
      BY <1>1, <1>3, <3>1, <3>2
    <3>4. QED
      BY <3>3 DEF Members
  <2>3. QED
    BY <2>1, <2>2
<1>7. Holds(r, n - k, X \ Members(f))
  BY <1>1, <1>3, <1>5, <1>6 DEF Holds
<1>8. QED
  BY <1>2, <1>3, <1>4, <1>7 DEF f, r

\* One list put behind another.
LEMMA ConcatHolds ==
  ASSUME NEW S, NEW s \in Seq(S), NEW q \in Seq(S), NEW n, NEW X,
         Holds(s, n, X), Injective(q), Members(s) \cap Members(q) = {}
  PROVE  Holds(s \o q, n + Len(q), X \cup Members(q))
<1> DEFINE a == s \o q
<1>1. Len(s) \in Nat /\ Len(q) \in Nat /\ Len(a) = Len(s) + Len(q)
      /\ \A i \in 1 .. Len(a) : a[i] = IF i <= Len(s) THEN s[i] ELSE q[i - Len(s)]
  OBVIOUS
<1> HIDE DEF a
<1>2. Members(a) = Members(s) \cup Members(q)
  <2>1. ASSUME NEW x \in Members(a) PROVE x \in Members(s) \cup Members(q)
    <3>1. PICK i \in 1 .. Len(a) : x = a[i]
      BY DEF Members
    <3>2. CASE i <= Len(s)
      BY <1>1, <3>1, <3>2 DEF Members
    <3>3. CASE i > Len(s)
      <4>1. i - Len(s) \in 1 .. Len(q) /\ x = q[i - Len(s)]
        BY <1>1, <3>1, <3>3
      <4>2. QED
        BY <4>1 DEF Members
    <3>4. QED
      BY <1>1, <3>2, <3>3
  <2>2. ASSUME NEW x \in Members(s) PROVE x \in Members(a)
    <3>1. PICK i \in 1 .. Len(s) : x = s[i]
      BY DEF Members
    <3>2. i \in 1 .. Len(a) /\ x = a[i]
      BY <1>1, <3>1
    <3>3. QED
      BY <3>2 DEF Members
  <2>3. ASSUME NEW x \in Members(q) PROVE x \in Members(a)
    <3>1. PICK i \in 1 .. Len(q) : x = q[i]
      BY DEF Members
    <3>2. i + Len(s) \in 1 .. Len(a) /\ x = a[i + Len(s)]
      BY <1>1, <3>1
    <3>3. QED
      BY <3>2 DEF Members
  <2>4. QED
    BY <2>1, <2>2, <2>3
<1>3. Injective(a)
  <2> SUFFICES ASSUME NEW i \in 1 .. Len(a), NEW j \in 1 .. Len(a), a[i] = a[j]
               PROVE  i = j
    BY DEF Injective
  <2>1. \A k \in 1 .. Len(a) : k <= Len(s) => k \in 1 .. Len(s) /\ a[k] = s[k] /\ a[k] \in Members(s)
    BY <1>1 DEF Members
  <2>2. \A k \in 1 .. Len(a) : k > Len(s) =>
           k - Len(s) \in 1 .. Len(q) /\ a[k] = q[k - Len(s)] /\ a[k] \in Members(q)
    BY <1>1 DEF Members
  <2>3. (i <= Len(s) /\ j <= Len(s)) \/ (i > Len(s) /\ j > Len(s))
    BY <1>1, <2>1, <2>2
  <2>4. CASE i <= Len(s) /\ j <= Len(s)
    BY <2>1, <2>4 DEF Holds, Injective
  <2>5. CASE i > Len(s) /\ j > Len(s)
    <3>1. i - Len(s) = j - Len(s)
      BY <2>2, <2>5 DEF Injective
    <3>2. QED
      BY <1>1, <3>1
  <2>6. QED
    BY <2>3, <2>4, <2>5
<1>4. QED
  BY <1>1, <1>2, <1>3 DEF Holds, a

\* The buffers of a head are no more than its slots.
SlotsOf(h) == {h} \X Slots

\* A head has NumSb slots.
LEMMA SlotsFinite ==
  ASSUME NEW h
  PROVE  IsFiniteSet(SlotsOf(h)) /\ Cardinality(SlotsOf(h)) = NumSb
<1> DEFINE f == [i \in Slots |-> <<h, i>>]
<1>1. f \in Bijection(Slots, SlotsOf(h))
  <2>1. f \in [Slots -> SlotsOf(h)] /\ \A x, y \in Slots : f[x] = f[y] => x = y
    BY DEF SlotsOf
  <2>2. \A z \in SlotsOf(h) : \E x \in Slots : f[x] = z
    BY DEF SlotsOf
  <2>3. QED
    BY <2>1, <2>2 DEF Bijection, Injection, Surjection, IsInjective
<1>2. IsFiniteSet(Slots) /\ Cardinality(Slots) = NumSb
  BY FS_Interval, NumSbAssumption DEF Slots
<1>3. ExistsBijection(Slots, SlotsOf(h))
  BY <1>1 DEF ExistsBijection
<1>4. QED
  BY <1>2, <1>3, FS_Bijection

\* A list that holds buffers of one head is no longer than the head has slots.
LEMMA BoundHolds ==
  ASSUME NEW S, NEW s \in Seq(S), NEW h, Injective(s), Members(s) \subseteq SlotsOf(h)
  PROVE  Len(s) <= NumSb
<1>1. Len(s) \in Nat /\ s \in [1 .. Len(s) -> SlotsOf(h)]
  BY DEF Members
<1>2. s \in Injection(1 .. Len(s), SlotsOf(h))
  BY <1>1 DEF Injection, IsInjective, Injective
<1>3. Cardinality(1 .. Len(s)) <= NumSb
  BY <1>2, SlotsFinite, FS_Injection
<1>4. Cardinality(1 .. Len(s)) = Len(s)
  BY <1>1, FS_Interval
<1>5. QED
  BY <1>3, <1>4

\* There is room for one more buffer of the same head in the counter.
LEMMA AppendCounted ==
  ASSUME NEW s \in Seq(Buf), NEW n, NEW X, NEW h \in Heads, NEW b \in SlotsOf(h),
         X \subseteq SlotsOf(h), Holds(s, n, X), b \notin X
  PROVE  Holds(Append(s, b), Inc(n), X \cup {b})
<1>1. b \in Buf
  BY DEF SlotsOf, Buf
<1>2. Holds(Append(s, b), n + 1, X \cup {b})
  BY <1>1, AppendHolds
<1>3. Append(s, b) \in Seq(Buf) /\ n = Len(s) /\ Len(s) \in Nat
  BY <1>1 DEF Holds
<1> DEFINE a == Append(s, b)
<1> HIDE DEF a
<1>4. Members(a) \subseteq SlotsOf(h) /\ Injective(a) /\ Len(a) = n + 1 /\ a \in Seq(Buf)
  <2>1. \A x \in Members(a) : x \in Buf
    BY <1>3 DEF Members, a
  <2>2. QED
    BY <1>2, <1>3, <2>1 DEF Holds, a
<1>5. n + 1 <= NumSb
  BY <1>4, BoundHolds
<1>6. Inc(n) = n + 1
  BY <1>3, <1>5, NumSbAssumption, UintMaxAssumption DEF Inc
<1>7. QED
  BY <1>2, <1>6

\* The counter of locked buffers, which no list links.
LEMMA LockedCounted ==
  ASSUME NEW X, NEW h, NEW b \in SlotsOf(h), X \subseteq SlotsOf(h)
  PROVE  /\ Cardinality(X) \in Nat
         /\ b \notin X => Inc(Cardinality(X)) = Cardinality(X \cup {b})
         /\ b \in X => Dec(Cardinality(X)) = Cardinality(X \ {b})
<1>1. IsFiniteSet(X) /\ IsFiniteSet(X \cup {b})
  BY SlotsFinite, FS_Subset
<1>2. Cardinality(X) \in Nat /\ Cardinality(X \cup {b}) \in Nat /\ Cardinality(X \ {b}) \in Nat
  BY <1>1, FS_CardinalityType, FS_RemoveElement
<1>3. Cardinality(X \cup {b}) <= NumSb
  BY SlotsFinite, FS_Subset
<1>4. ASSUME b \notin X PROVE Inc(Cardinality(X)) = Cardinality(X \cup {b})
  <2>1. Cardinality(X \cup {b}) = Cardinality(X) + 1
    BY <1>1, <1>4, FS_AddElement
  <2>2. QED
    BY <1>2, <1>3, <2>1, NumSbAssumption, UintMaxAssumption DEF Inc
<1>5. ASSUME b \in X PROVE Dec(Cardinality(X)) = Cardinality(X \ {b})
  <2>1. Cardinality(X \ {b}) = Cardinality(X) - 1
    BY <1>1, <1>5, FS_RemoveElement
  <2>2. QED
    BY <1>2, <2>1 DEF Dec
<1>6. QED
  BY <1>2, <1>4, <1>5

-----------------------------------------------------------------------------
(* The lists of a channel.                                                 *)

\* The buffers among B that carry a listname.
Tagged(l, B, name) == {b \in B : l[b] = name}

\* Lists, counters and listnames agree about the buffers B of head h; beside them
\* only the head's dummy buffer is on the board, which holds no more than fit.
Placed(c, B, h) ==
  /\ B \subseteq SlotsOf(h)
  /\ Holds(c.free_list, c.free_count, Tagged(c.listname, B, "FREE"))
  /\ Holds(c.ready_list, c.ready_count, Tagged(c.listname, B, "READY"))
  /\ Holds(c.hot_list, c.hot_count, Tagged(c.listname, B, "HOT"))
  /\ Holds(c.grabbed_list, c.grabbed_count, Tagged(c.listname, B, "GRABBED"))
  /\ c.locked_count = Cardinality(Tagged(c.listname, B, "NO_LIST"))
  /\ c.hot_count <= FifoLength
  /\ \A b \in Members(c.hot_list) : b \in Buf \/ b = DummyBuf(h)

\* Both records have the same lists, counters and listnames.
SameLists(c, d) ==
  /\ d.free_list = c.free_list /\ d.free_count = c.free_count
  /\ d.ready_list = c.ready_list /\ d.ready_count = c.ready_count
  /\ d.hot_list = c.hot_list /\ d.hot_count = c.hot_count
  /\ d.grabbed_list = c.grabbed_list /\ d.grabbed_count = c.grabbed_count
  /\ d.locked_count = c.locked_count /\ d.listname = c.listname

\* What is said of the lists is said of every record with the same lists.
LEMMA SameListsPlaced ==
  ASSUME NEW c, NEW d, NEW B, NEW h, SameLists(c, d), Placed(c, B, h)
  PROVE  Placed(d, B, h)
BY DEF SameLists, Placed

\* The slots of a head are buffers.
LEMMA SlotsAreBufs ==
  ASSUME NEW h \in Heads
  PROVE  SlotsOf(h) \subseteq Buf
BY DEF SlotsOf, Buf

\* The listnames k are l but for the buffer b.
Retags(l, k, B, b, name) ==
  l \in [Buf -> ListNames] /\ B \subseteq Buf /\ b \in Buf /\ k = [l EXCEPT ![b] = name]

\* One buffer gets a new listname: it joins the buffers that carry that name ...
LEMMA TaggedNew ==
  ASSUME NEW l, NEW k, NEW B, NEW b, NEW name, Retags(l, k, B, b, name)
  PROVE  Tagged(k, B \cup {b}, name) = Tagged(l, B, name) \cup {b}
BY DEF Tagged, Retags

\* ... leaves those of the name it had ...
LEMMA TaggedOld ==
  ASSUME NEW l, NEW k, NEW B, NEW b, NEW name, NEW m, Retags(l, k, B, b, name), m # name
  PROVE  Tagged(k, B \cup {b}, m) = Tagged(l, B, m) \ {b}
BY DEF Tagged, Retags

\* ... and none of the others changes.
LEMMA TaggedOther ==
  ASSUME NEW l, NEW k, NEW B, NEW b, NEW name, Retags(l, k, B, b, name)
  PROVE  \A m \in ListNames : m # name /\ (b \notin B \/ l[b] # m) =>
              Tagged(k, B \cup {b}, m) = Tagged(l, B, m)
BY DEF Tagged, Retags

\* A buffer outside B does not matter.
LEMMA TaggedOutside ==
  ASSUME NEW l, NEW k, NEW B, NEW b, NEW name, NEW m, Retags(l, k, B, b, name), b \notin B
  PROVE  Tagged(k, B, m) = Tagged(l, B, m)
BY DEF Tagged, Retags

\* A buffer that is not of this head, or not registered, does not matter.
LEMMA ForeignPlaced ==
  ASSUME NEW c \in Channel, NEW d, NEW B, NEW h \in Heads, NEW b \in Buf, NEW name,
         Placed(c, B, h), b \notin B,
         SameLists([c EXCEPT !.listname = [c.listname EXCEPT ![b] = name]], d)
  PROVE  Placed(d, B, h)
<1> DEFINE l == [c.listname EXCEPT ![b] = name]
<1>1. c.listname \in [Buf -> ListNames] /\ B \in SUBSET Buf
  BY SlotsAreBufs DEF Channel, Placed
<1>2. Retags(c.listname, l, B, b, name)
  BY <1>1 DEF Retags
<1> HIDE DEF l
<1>22. ASSUME NEW m PROVE Tagged(l, B, m) = Tagged(c.listname, B, m)
  BY <1>2, TaggedOutside
<1>3. Placed([c EXCEPT !.listname = l], B, h)
  <2> DEFINE e == [c EXCEPT !.listname = l]
  <2>1. /\ e.free_list = c.free_list /\ e.free_count = c.free_count
        /\ e.ready_list = c.ready_list /\ e.ready_count = c.ready_count
        /\ e.hot_list = c.hot_list /\ e.hot_count = c.hot_count
        /\ e.grabbed_list = c.grabbed_list /\ e.grabbed_count = c.grabbed_count
        /\ e.locked_count = c.locked_count /\ e.listname = l
    BY DEF Channel
  <2> HIDE DEF e
  <2>2. QED
    BY <1>22, <2>1 DEF Placed, e
<1>4. QED
  BY <1>3, SameListsPlaced DEF l

\* men_clean_bh begins with empty lists.
LEMMA ClearListsPlaced ==
  ASSUME NEW c \in Channel, NEW h
  PROVE  Placed(ClearLists(c), {}, h)
<1> DEFINE d == ClearLists(c)
<1>1. /\ d.free_list = <<>> /\ d.free_count = 0 /\ d.ready_list = <<>> /\ d.ready_count = 0
      /\ d.hot_list = <<>> /\ d.hot_count = 0 /\ d.grabbed_list = <<>> /\ d.grabbed_count = 0
      /\ d.locked_count = 0
  BY DEF ClearLists, Channel
<1>2. \A m \in ListNames : Tagged(d.listname, {}, m) = {}
  BY DEF Tagged
<1>3. Holds(<<>>, 0, {})
  BY DEF Holds, Injective, Members
<1>4. Members(<<>>) = {}
  BY DEF Members
<1> HIDE DEF d
<1>5. /\ Holds(d.free_list, d.free_count, Tagged(d.listname, {}, "FREE"))
      /\ Holds(d.ready_list, d.ready_count, Tagged(d.listname, {}, "READY"))
      /\ Holds(d.hot_list, d.hot_count, Tagged(d.listname, {}, "HOT"))
      /\ Holds(d.grabbed_list, d.grabbed_count, Tagged(d.listname, {}, "GRABBED"))
  BY <1>1, <1>2, <1>3 DEF ListNames
<1>6. d.locked_count = Cardinality(Tagged(d.listname, {}, "NO_LIST"))
  BY <1>1, <1>2, FS_EmptySet DEF ListNames
<1>7. d.hot_count <= FifoLength
  BY <1>1, FifoLengthAssumption
<1>8. Placed(d, {}, h)
  BY <1>1, <1>4, <1>5, <1>6, <1>7 DEF Placed
<1>9. QED
  BY <1>8 DEF d

\* A buffer of the head that was not there before joins the ready list ...
LEMMA AddReadyPlaced ==
  ASSUME NEW c \in Channel, NEW B, NEW h \in Heads, NEW b \in SlotsOf(h),
         Placed(c, B, h), b \notin B
  PROVE  Placed(AddReady(c, b), B \cup {b}, h)
<1> DEFINE d == AddReady(c, b)
           l == c.listname
           k == [l EXCEPT ![b] = "READY"]
<1>1. /\ d.free_list = c.free_list /\ d.free_count = c.free_count
      /\ d.ready_list = Append(c.ready_list, b) /\ d.ready_count = Inc(c.ready_count)
      /\ d.hot_list = c.hot_list /\ d.hot_count = c.hot_count
      /\ d.grabbed_list = c.grabbed_list /\ d.grabbed_count = c.grabbed_count
      /\ d.locked_count = c.locked_count /\ d.listname = k
  BY DEF AddReady, Channel
<1>2. l \in [Buf -> ListNames] /\ B \in SUBSET Buf /\ b \in Buf /\ c.ready_list \in Seq(Buf)
  BY SlotsAreBufs DEF Channel, Placed
<1>2a. Retags(l, k, B, b, "READY")
  BY <1>2 DEF Retags
<1> HIDE DEF k, l
<1>3. /\ Tagged(k, B \cup {b}, "READY") = Tagged(l, B, "READY") \cup {b}
      /\ \A m \in ListNames : m # "READY" => Tagged(k, B \cup {b}, m) = Tagged(l, B, m)
  BY <1>2a, TaggedNew, TaggedOther
<1>4. Tagged(l, B, "READY") \subseteq SlotsOf(h) /\ b \notin Tagged(l, B, "READY")
  BY DEF Tagged, Placed
<1>5. Holds(Append(c.ready_list, b), Inc(c.ready_count), Tagged(l, B, "READY") \cup {b})
  BY <1>2, <1>4, AppendCounted DEF Placed, l
<1> HIDE DEF d
<1>6. QED
  BY <1>1, <1>3, <1>5 DEF Placed, ListNames, d, l

\* ... or the free list.
LEMMA AddFreePlaced ==
  ASSUME NEW c \in Channel, NEW B, NEW h \in Heads, NEW b \in SlotsOf(h),
         Placed(c, B, h), b \notin B
  PROVE  Placed(AddFree(c, b), B \cup {b}, h)
<1> DEFINE d == AddFree(c, b)
           l == c.listname
           k == [l EXCEPT ![b] = "FREE"]
<1>1. /\ d.ready_list = c.ready_list /\ d.ready_count = c.ready_count
      /\ d.free_list = Append(c.free_list, b) /\ d.free_count = Inc(c.free_count)
      /\ d.hot_list = c.hot_list /\ d.hot_count = c.hot_count
      /\ d.grabbed_list = c.grabbed_list /\ d.grabbed_count = c.grabbed_count
      /\ d.locked_count = c.locked_count /\ d.listname = k
  BY DEF AddFree, Channel
<1>2. l \in [Buf -> ListNames] /\ B \in SUBSET Buf /\ b \in Buf /\ c.free_list \in Seq(Buf)
  BY SlotsAreBufs DEF Channel, Placed
<1>2a. Retags(l, k, B, b, "FREE")
  BY <1>2 DEF Retags
<1> HIDE DEF k, l
<1>3. /\ Tagged(k, B \cup {b}, "FREE") = Tagged(l, B, "FREE") \cup {b}
      /\ \A m \in ListNames : m # "FREE" => Tagged(k, B \cup {b}, m) = Tagged(l, B, m)
  BY <1>2a, TaggedNew, TaggedOther
<1>4. Tagged(l, B, "FREE") \subseteq SlotsOf(h) /\ b \notin Tagged(l, B, "FREE")
  BY DEF Tagged, Placed
<1>5. Holds(Append(c.free_list, b), Inc(c.free_count), Tagged(l, B, "FREE") \cup {b})
  BY <1>2, <1>4, AppendCounted DEF Placed, l
<1> HIDE DEF d
<1>6. QED
  BY <1>1, <1>3, <1>5 DEF Placed, ListNames, d, l

\* One iteration of men_clean_bh.
LEMMA CleanBufferPlaced ==
  ASSUME NEW c \in Channel, NEW B, NEW h \in Heads, NEW b \in SlotsOf(h),
         Placed(c, B, h), b \notin B
  PROVE  Placed(CleanBuffer(c, b), B \cup {b}, h)
BY AddReadyPlaced, AddFreePlaced DEF CleanBuffer

-----------------------------------------------------------------------------
(* Taking one buffer out of where it is.                                   *)

\* The buffer b of B may be in the list s of those named m.
Linking(s, n, l, B, b, m) ==
  /\ s \in Seq(Buf \cup Dummies) /\ b \in Buf /\ b \in B
  /\ Holds(s, n, Tagged(l, B, m))

\* The list t of length k is s without the buffer b.
Unlinked(s, n, t, k, l, B, b, m) ==
  /\ t = Unlink(s, b)
  /\ Holds(t, k, Tagged(l, B \ {b}, m))
  /\ k = n \/ k = n - 1
  /\ l[b] # m => t = s
  /\ Members(t) \subseteq Members(s)

\* The lists without one of the buffers.
LEMMA UnlinkTagged ==
  ASSUME NEW s, NEW n, NEW l, NEW B, NEW b, NEW m, NEW k, Linking(s, n, l, B, b, m),
         k = IF l[b] = m THEN Dec(n) ELSE n
  PROVE  Unlinked(s, n, Unlink(s, b), k, l, B, b, m)
<1> DEFINE X == Tagged(l, B, m)
<1>1. (b \in X <=> l[b] = m) /\ Tagged(l, B \ {b}, m) = X \ {b}
  BY DEF Tagged, Linking
<1>2. l[b] # m => X \ {b} = X
  BY <1>1
<1>3. Holds(s, n, X) /\ b \in Buf /\ s \in Seq(Buf \cup Dummies)
  BY DEF Linking
<1> HIDE DEF X
<1>4. /\ b \in X => Holds(Unlink(s, b), Dec(n), X \ {b}) /\ Dec(n) = n - 1
      /\ b \notin X => Unlink(s, b) = s
      /\ Members(Unlink(s, b)) \subseteq Members(s)
  BY <1>3, UnlinkHolds
<1>5. CASE l[b] = m
  BY <1>1, <1>4, <1>5 DEF Unlinked
<1>6. CASE l[b] # m
  BY <1>1, <1>2, <1>3, <1>4, <1>6 DEF Unlinked
<1>7. QED
  BY <1>5, <1>6

\* The lists of a channel, one buffer of which is looked at.
LEMMA PlacedLinking ==
  ASSUME NEW c \in Channel, NEW B, NEW h \in Heads, NEW b \in B, Placed(c, B, h)
  PROVE  /\ Linking(c.free_list, c.free_count, c.listname, B, b, "FREE")
         /\ Linking(c.ready_list, c.ready_count, c.listname, B, b, "READY")
         /\ Linking(c.hot_list, c.hot_count, c.listname, B, b, "HOT")
         /\ Linking(c.grabbed_list, c.grabbed_count, c.listname, B, b, "GRABBED")
<1>1. /\ c.free_list \in Seq(Buf) /\ c.ready_list \in Seq(Buf)
      /\ c.hot_list \in Seq(Buf \cup Dummies) /\ c.grabbed_list \in Seq(Buf)
  BY DEF Channel
<1>2. \A s \in Seq(Buf) : s \in Seq(Buf \cup Dummies)
  OBVIOUS
<1>3. b \in Buf
  BY SlotsAreBufs DEF Placed
<1>4. QED
  BY <1>1, <1>2, <1>3 DEF Linking, Placed

\* men_free_userbuf: wherever the buffer is, one list loses it and one counter goes
\* down with it.
LEMMA RemoveBufferPlaced ==
  ASSUME NEW c \in Channel, NEW B, NEW h \in Heads, NEW b \in B, Placed(c, B, h)
  PROVE  Placed(RemoveBuffer(c, b), B \ {b}, h)
<1> DEFINE d == RemoveBuffer(c, b)
           l == c.listname
           Drop(name, n) == IF l[b] = name THEN Dec(n) ELSE n
<1>1. /\ d.free_list = Unlink(c.free_list, b) /\ d.free_count = Drop("FREE", c.free_count)
      /\ d.ready_list = Unlink(c.ready_list, b) /\ d.ready_count = Drop("READY", c.ready_count)
      /\ d.hot_list = Unlink(c.hot_list, b) /\ d.hot_count = Drop("HOT", c.hot_count)
      /\ d.grabbed_list = Unlink(c.grabbed_list, b)
      /\ d.grabbed_count = Drop("GRABBED", c.grabbed_count)
      /\ d.locked_count = Drop("NO_LIST", c.locked_count) /\ d.listname = l
  BY DEF RemoveBuffer, Channel
<1>2. /\ B \subseteq SlotsOf(h) /\ b \in SlotsOf(h) /\ b \in Buf
      /\ c.free_list \in Seq(Buf) /\ c.ready_list \in Seq(Buf)
      /\ c.hot_list \in Seq(Buf \cup Dummies) /\ c.grabbed_list \in Seq(Buf)
      /\ c.hot_count \in Nat
  BY SlotsAreBufs DEF Channel, Placed
<1> HIDE DEF d, l
<1>3. c.locked_count = Cardinality(Tagged(l, B, "NO_LIST"))
  BY DEF Placed, l
<1>4. /\ Linking(c.free_list, c.free_count, l, B, b, "FREE")
      /\ Linking(c.ready_list, c.ready_count, l, B, b, "READY")
      /\ Linking(c.hot_list, c.hot_count, l, B, b, "HOT")
      /\ Linking(c.grabbed_list, c.grabbed_count, l, B, b, "GRABBED")
  BY PlacedLinking DEF l
<1>5. /\ Unlinked(c.free_list, c.free_count, d.free_list, d.free_count, l, B, b, "FREE")
      /\ Unlinked(c.ready_list, c.ready_count, d.ready_list, d.ready_count, l, B, b, "READY")
  BY <1>1, <1>4, UnlinkTagged
<1>6. /\ Unlinked(c.hot_list, c.hot_count, d.hot_list, d.hot_count, l, B, b, "HOT")
      /\ Unlinked(c.grabbed_list, c.grabbed_count, d.grabbed_list, d.grabbed_count, l, B, b, "GRABBED")
  BY <1>1, <1>4, UnlinkTagged
<1>7. /\ Holds(d.free_list, d.free_count, Tagged(l, B \ {b}, "FREE"))
      /\ Holds(d.ready_list, d.ready_count, Tagged(l, B \ {b}, "READY"))
      /\ Holds(d.hot_list, d.hot_count, Tagged(l, B \ {b}, "HOT"))
      /\ Holds(d.grabbed_list, d.grabbed_count, Tagged(l, B \ {b}, "GRABBED"))
      /\ Members(d.hot_list) \subseteq Members(c.hot_list)
  BY <1>5, <1>6 DEF Unlinked
<1>8. d.hot_count <= FifoLength
  <2>1. c.hot_count <= FifoLength
    BY DEF Placed
  <2>2. d.hot_count = c.hot_count \/ d.hot_count = c.hot_count - 1
    BY <1>6 DEF Unlinked
  <2>3. QED
    BY <1>2, <2>1, <2>2, FifoLengthAssumption
<1>9. d.locked_count = Cardinality(Tagged(l, B \ {b}, "NO_LIST"))
  <2> DEFINE X == Tagged(l, B, "NO_LIST")
  <2>1. X \subseteq SlotsOf(h) /\ Tagged(l, B \ {b}, "NO_LIST") = X \ {b} /\ (b \in X <=> l[b] = "NO_LIST")
    BY <1>2 DEF Tagged
  <2> HIDE DEF X
  <2>2. b \in X => Dec(Cardinality(X)) = Cardinality(X \ {b})
    BY <1>2, <2>1, LockedCounted
  <2>3. b \notin X => X \ {b} = X
    OBVIOUS
  <2>4. c.locked_count = Cardinality(X)
    BY <1>3 DEF X
  <2>5. QED
    BY <1>1, <2>1, <2>2, <2>3, <2>4
<1>10. \A x \in Members(c.hot_list) : x \in Buf \/ x = DummyBuf(h)
  BY DEF Placed
<1>11. Placed(d, B \ {b}, h)
  BY <1>1, <1>2, <1>7, <1>8, <1>9, <1>10 DEF Placed
<1>12. QED
  BY <1>11 DEF d

\* list_del of a buffer does nothing to the lists it is not in.
LEMMA UnlinkElsewhere ==
  ASSUME NEW c \in Channel, NEW B, NEW h \in Heads, NEW b \in B, Placed(c, B, h)
  PROVE  /\ c.listname[b] # "FREE" => Unlink(c.free_list, b) = c.free_list
         /\ c.listname[b] # "READY" => Unlink(c.ready_list, b) = c.ready_list
         /\ c.listname[b] # "HOT" => Unlink(c.hot_list, b) = c.hot_list
         /\ c.listname[b] # "GRABBED" => Unlink(c.grabbed_list, b) = c.grabbed_list
<1> DEFINE l == c.listname
<1>1. /\ Linking(c.free_list, c.free_count, l, B, b, "FREE")
      /\ Linking(c.ready_list, c.ready_count, l, B, b, "READY")
      /\ Linking(c.hot_list, c.hot_count, l, B, b, "HOT")
      /\ Linking(c.grabbed_list, c.grabbed_count, l, B, b, "GRABBED")
  BY PlacedLinking
<1> HIDE DEF l
<1>2. ASSUME l[b] # "FREE" PROVE Unlink(c.free_list, b) = c.free_list
  <2>1. Unlinked(c.free_list, c.free_count, Unlink(c.free_list, b), c.free_count, l, B, b, "FREE")
    BY <1>1, <1>2, UnlinkTagged
  <2>2. QED
    BY <1>2, <2>1 DEF Unlinked
<1>3. ASSUME l[b] # "READY" PROVE Unlink(c.ready_list, b) = c.ready_list
  <2>1. Unlinked(c.ready_list, c.ready_count, Unlink(c.ready_list, b), c.ready_count, l, B, b, "READY")
    BY <1>1, <1>3, UnlinkTagged
  <2>2. QED
    BY <1>3, <2>1 DEF Unlinked
<1>4. ASSUME l[b] # "HOT" PROVE Unlink(c.hot_list, b) = c.hot_list
  <2>1. Unlinked(c.hot_list, c.hot_count, Unlink(c.hot_list, b), c.hot_count, l, B, b, "HOT")
    BY <1>1, <1>4, UnlinkTagged
  <2>2. QED
    BY <1>4, <2>1 DEF Unlinked
<1>5. ASSUME l[b] # "GRABBED" PROVE Unlink(c.grabbed_list, b) = c.grabbed_list
  <2>1. Unlinked(c.grabbed_list, c.grabbed_count, Unlink(c.grabbed_list, b), c.grabbed_count, l, B, b, "GRABBED")
    BY <1>1, <1>5, UnlinkTagged
  <2>2. QED
    BY <1>5, <2>1 DEF Unlinked
<1>6. QED
  BY <1>2, <1>3, <1>4, <1>5 DEF l

\* men_unblock_buffer: a grabbed or locked buffer changes over to the ready list.
LEMMA UnblockedPlaced ==
  ASSUME NEW c \in Channel, NEW B, NEW h \in Heads, NEW b \in B, Placed(c, B, h)
  PROVE  Placed(Unblocked(c, b), B, h)
<1> DEFINE r == RemoveBuffer(c, b)
           a == AddReady(r, b)
<1>0. b \in Buf /\ b \in SlotsOf(h) /\ (B \ {b}) \cup {b} = B
  BY SlotsAreBufs DEF Placed
<1>1. CASE c.listname[b] \notin {"GRABBED", "NO_LIST"}
  BY <1>1 DEF Unblocked
<1>2. CASE c.listname[b] \in {"GRABBED", "NO_LIST"}
  <2>1. r \in Channel /\ Placed(r, B \ {b}, h)
    BY <1>0, RemoveBufferType, RemoveBufferPlaced
  <2>2. Placed(a, B, h)
    <3> HIDE DEF r
    <3>1. b \notin B \ {b}
      OBVIOUS
    <3>2. Placed(AddReady(r, b), (B \ {b}) \cup {b}, h)
      BY <1>0, <2>1, <3>1, AddReadyPlaced
    <3>3. QED
      BY <1>0, <3>2
  <2>3. /\ Unlink(c.free_list, b) = c.free_list /\ Unlink(c.ready_list, b) = c.ready_list
        /\ Unlink(c.hot_list, b) = c.hot_list
        /\ c.listname[b] = "NO_LIST" => Unlink(c.grabbed_list, b) = c.grabbed_list
    BY <1>2, UnlinkElsewhere
  <2>4. SameLists(a, Unblocked(c, b))
    <3> DEFINE u == Unblocked(c, b)
    <3>0. /\ r.free_list = c.free_list /\ r.ready_list = c.ready_list /\ r.hot_list = c.hot_list
          /\ r.grabbed_list = Unlink(c.grabbed_list, b) /\ r.listname = c.listname
          /\ r.free_count = c.free_count /\ r.ready_count = c.ready_count /\ r.hot_count = c.hot_count
          /\ r.grabbed_count = IF c.listname[b] = "GRABBED" THEN Dec(c.grabbed_count) ELSE c.grabbed_count
          /\ r.locked_count = IF c.listname[b] = "NO_LIST" THEN Dec(c.locked_count) ELSE c.locked_count
      BY <1>2, <2>3 DEF RemoveBuffer, Channel
    <3> HIDE DEF r
    <3>1. /\ a.free_list = r.free_list /\ a.ready_list = Append(r.ready_list, b)
          /\ a.hot_list = r.hot_list /\ a.grabbed_list = r.grabbed_list
          /\ a.listname = [r.listname EXCEPT ![b] = "READY"]
          /\ a.free_count = r.free_count /\ a.ready_count = Inc(r.ready_count)
          /\ a.hot_count = r.hot_count /\ a.grabbed_count = r.grabbed_count
          /\ a.locked_count = r.locked_count
      BY <2>1 DEF AddReady, Channel
    <3> HIDE DEF a
    <3>2. /\ u.free_list = c.free_list /\ u.ready_list = Append(c.ready_list, b)
          /\ u.hot_list = c.hot_list /\ u.listname = [c.listname EXCEPT ![b] = "READY"]
          /\ u.free_count = c.free_count /\ u.ready_count = Inc(c.ready_count)
          /\ u.hot_count = c.hot_count
          /\ c.listname[b] = "GRABBED" =>
               /\ u.grabbed_list = Unlink(c.grabbed_list, b) /\ u.grabbed_count = Dec(c.grabbed_count)
               /\ u.locked_count = c.locked_count
          /\ c.listname[b] = "NO_LIST" =>
               /\ u.grabbed_list = c.grabbed_list /\ u.grabbed_count = c.grabbed_count
               /\ u.locked_count = Dec(c.locked_count)
      <4>1. CASE c.listname[b] = "GRABBED"
        BY <4>1 DEF Unblocked, AddReady, Channel
      <4>2. CASE c.listname[b] = "NO_LIST"
        BY <4>2 DEF Unblocked, AddReady, Channel
      <4>3. QED
        BY <1>2, <4>1, <4>2
    <3> HIDE DEF u
    <3>3. SameLists(a, u)
      <4>1. CASE c.listname[b] = "GRABBED"
        BY <3>0, <3>1, <3>2, <4>1 DEF SameLists
      <4>2. CASE c.listname[b] = "NO_LIST"
        BY <2>3, <3>0, <3>1, <3>2, <4>2 DEF SameLists
      <4>3. QED
        BY <1>2, <4>1, <4>2
    <3>4. QED
      BY <3>3 DEF u
  <2>5. QED
    BY <2>2, <2>4, SameListsPlaced
<1>3. QED
  BY <1>1, <1>2

\* men_queue_buffer: a free buffer changes over to the ready list.
LEMMA MoveToReadyPlaced ==
  ASSUME NEW c \in Channel, NEW B, NEW h \in Heads, NEW b \in B, Placed(c, B, h),
         c.listname[b] = "FREE"
  PROVE  Placed(MoveToReady(c, b), B, h)
<1> DEFINE r == RemoveBuffer(c, b)
           a == AddReady(r, b)
<1>0. b \in Buf /\ b \in SlotsOf(h) /\ (B \ {b}) \cup {b} = B
  BY SlotsAreBufs DEF Placed
<1>1. r \in Channel /\ Placed(r, B \ {b}, h)
  BY <1>0, RemoveBufferType, RemoveBufferPlaced
<1>2. Placed(a, B, h)
  <2> HIDE DEF r
  <2>1. b \notin B \ {b}
    OBVIOUS
  <2>2. Placed(AddReady(r, b), (B \ {b}) \cup {b}, h)
    BY <1>0, <1>1, <2>1, AddReadyPlaced
  <2>3. QED
    BY <1>0, <2>2
<1>3. SameLists(a, MoveToReady(c, b))
  BY DEF SameLists, MoveToReady, RemoveBuffer, AddReady, Channel
<1>4. QED
  BY <1>2, <1>3, SameListsPlaced

-----------------------------------------------------------------------------
(* Frames: received, handed out, taken back.                               *)

\* The first entry of a list is one of its members, and its length is positive.
LEMMA HeadMember ==
  ASSUME NEW S, NEW s \in Seq(S), s # <<>>
  PROVE  Head(s) \in Members(s) /\ Head(s) \in S /\ Len(s) \in Nat \ {0}
<1>1. Len(s) \in Nat \ {0} /\ Head(s) = s[1] /\ 1 \in 1 .. Len(s) /\ s[1] \in S
  OBVIOUS
<1>2. QED
  BY <1>1 DEF Members

\* Dummy buffers are no registered buffers.
LEMMA DummyNotBuf ==
  ASSUME NEW h
  PROVE  DummyBuf(h) \notin Buf /\ IsDummy(DummyBuf(h)) /\ \A b \in Buf : ~IsDummy(b)
BY NumSbAssumption DEF DummyBuf, Buf, Slots, IsDummy

\* A filled buffer of handshake mode (part of men_move_hot).
AddGrabbed(c, b) ==
  [c EXCEPT !.grabbed_list = Append(@, b), !.grabbed_count = Inc(@), !.listname[b] = "GRABBED"]

\* A filled buffer joins the grabbed list.
LEMMA AddGrabbedPlaced ==
  ASSUME NEW c \in Channel, NEW B, NEW h \in Heads, NEW b \in SlotsOf(h),
         Placed(c, B, h), b \notin B
  PROVE  Placed(AddGrabbed(c, b), B \cup {b}, h)
<1> DEFINE d == AddGrabbed(c, b)
           l == c.listname
           k == [l EXCEPT ![b] = "GRABBED"]
<1>1. /\ d.ready_list = c.ready_list /\ d.ready_count = c.ready_count
      /\ d.grabbed_list = Append(c.grabbed_list, b) /\ d.grabbed_count = Inc(c.grabbed_count)
      /\ d.hot_list = c.hot_list /\ d.hot_count = c.hot_count
      /\ d.free_list = c.free_list /\ d.free_count = c.free_count
      /\ d.locked_count = c.locked_count /\ d.listname = k
  BY DEF AddGrabbed, Channel
<1>2. l \in [Buf -> ListNames] /\ B \in SUBSET Buf /\ b \in Buf /\ c.grabbed_list \in Seq(Buf)
  BY SlotsAreBufs DEF Channel, Placed
<1>2a. Retags(l, k, B, b, "GRABBED")
  BY <1>2 DEF Retags
<1> HIDE DEF k, l
<1>3. /\ Tagged(k, B \cup {b}, "GRABBED") = Tagged(l, B, "GRABBED") \cup {b}
      /\ \A m \in ListNames : m # "GRABBED" => Tagged(k, B \cup {b}, m) = Tagged(l, B, m)
  BY <1>2a, TaggedNew, TaggedOther
<1>4. Tagged(l, B, "GRABBED") \subseteq SlotsOf(h) /\ b \notin Tagged(l, B, "GRABBED")
  BY DEF Tagged, Placed
<1>5. Holds(Append(c.grabbed_list, b), Inc(c.grabbed_count), Tagged(l, B, "GRABBED") \cup {b})
  BY <1>2, <1>4, AppendCounted DEF Placed, l
<1> HIDE DEF d
<1>6. QED
  BY <1>1, <1>3, <1>5 DEF Placed, ListNames, d, l

\* A received frame leaves the hot list; a buffer of B is then in no list.
LEMMA ReceivedPlaced ==
  ASSUME NEW c \in Channel, NEW B, NEW h \in Heads, Placed(c, B, h), c.hot_list # <<>>
  PROVE  /\ Head(c.hot_list) \in Buf => Head(c.hot_list) \in B
         /\ Placed(Received(c), B \ {Head(c.hot_list)}, h)
<1> DEFINE d == Received(c)
           l == c.listname
           b == Head(c.hot_list)
           X == Tagged(l, B, "HOT")
<1>1. /\ d.ready_list = c.ready_list /\ d.ready_count = c.ready_count
      /\ d.grabbed_list = c.grabbed_list /\ d.grabbed_count = c.grabbed_count
      /\ d.hot_list = Tail(c.hot_list) /\ d.hot_count = Dec(c.hot_count)
      /\ d.free_list = c.free_list /\ d.free_count = c.free_count
      /\ d.locked_count = c.locked_count /\ d.listname = l
  BY DEF Received, Channel
<1>2. c.hot_list \in Seq(Buf \cup Dummies) /\ c.hot_count \in Nat /\ B \subseteq Buf
  BY SlotsAreBufs DEF Channel, Placed
<1>3. Holds(c.hot_list, c.hot_count, X) /\ c.hot_count <= FifoLength
  BY DEF Placed
<1>4. b \in Members(c.hot_list) /\ c.hot_count # 0
  BY <1>2, <1>3, HeadMember DEF Holds
<1>5. b \in Buf => b \in X
  BY <1>3, <1>4 DEF Holds
<1> HIDE DEF d, l, b
<1>6. /\ Tagged(l, B \ {b}, "HOT") = X \ {b} /\ (b \in X => b \in B /\ l[b] = "HOT")
      /\ b \in Buf => \A m \in ListNames : m # "HOT" => Tagged(l, B \ {b}, m) = Tagged(l, B, m)
  BY <1>5 DEF Tagged
<1>7. b \notin Buf => B \ {b} = B
  BY <1>2
<1>8. \A m \in ListNames : m # "HOT" => Tagged(l, B \ {b}, m) = Tagged(l, B, m)
  BY <1>6, <1>7
<1> HIDE DEF X
<1>9. Holds(d.hot_list, d.hot_count, Tagged(l, B \ {b}, "HOT"))
  <2>1. Holds(Tail(c.hot_list), Dec(c.hot_count), X \ {Head(c.hot_list)})
    BY <1>2, <1>3, TailHolds
  <2>2. QED
    BY <1>1, <1>6, <2>1 DEF b
<1>10. d.hot_count <= FifoLength
  BY <1>1, <1>2, <1>3, <1>4, FifoLengthAssumption DEF Dec
<1>11. \A x \in Members(d.hot_list) : x \in Buf \/ x = DummyBuf(h)
  <2>1. \A x \in Members(d.hot_list) : x \in Members(c.hot_list)
    <3> SUFFICES ASSUME NEW i \in 1 .. Len(d.hot_list) PROVE d.hot_list[i] \in Members(c.hot_list)
      BY DEF Members
    <3>1. i + 1 \in 1 .. Len(c.hot_list) /\ d.hot_list[i] = c.hot_list[i + 1]
      BY <1>1, <1>2
    <3>2. QED
      BY <3>1 DEF Members
  <2>2. QED
    BY <2>1 DEF Placed
<1>12. /\ Holds(d.free_list, d.free_count, Tagged(l, B \ {b}, "FREE"))
       /\ Holds(d.ready_list, d.ready_count, Tagged(l, B \ {b}, "READY"))
       /\ Holds(d.grabbed_list, d.grabbed_count, Tagged(l, B \ {b}, "GRABBED"))
       /\ d.locked_count = Cardinality(Tagged(l, B \ {b}, "NO_LIST"))
  BY <1>1, <1>8 DEF Placed, ListNames, l
<1>13. Placed(d, B \ {b}, h)
  BY <1>1, <1>9, <1>10, <1>11, <1>12 DEF Placed
<1>14. QED
  BY <1>5, <1>6, <1>13 DEF b, d

\* men_move_hot: the buffer goes where the mode says; a dummy buffer goes nowhere.
LEMMA MoveHotPlaced ==
  ASSUME NEW c \in Channel, NEW B, NEW h \in Heads, Placed(c, B, h)
  PROVE  /\ Placed(MoveHot(c), B, h)
         /\ (MoveHot(c)).wild = c.wild
         /\ c.hot_list # <<>> => (MoveHot(c)).hot_list = Tail(c.hot_list)
<1>0. c.hot_list \in Seq(Buf \cup Dummies) /\ c.hot_count = Len(c.hot_list)
  BY DEF Channel, Placed, Holds
<1>1. CASE c.hot_list = <<>>
  <2>1. MoveHot(c) = [c EXCEPT !.lost_count = @ + 1]
    BY <1>0, <1>1 DEF MoveHot
  <2>2. SameLists(c, MoveHot(c)) /\ (MoveHot(c)).wild = c.wild
    BY <2>1 DEF SameLists, Channel
  <2>3. QED
    BY <1>1, <2>2, SameListsPlaced
<1>2. CASE c.hot_list # <<>>
  <2> DEFINE r == Received(c)
             b == Head(c.hot_list)
             e == [r EXCEPT !.lost_count = @ + 1]
             g == [r EXCEPT !.goodcnt = @ + 1, !.frame_number[b] = r.latest_frame_number]
  <2>1. c.hot_count # 0 /\ b \in Buf \cup Dummies
    BY <1>0, <1>2, HeadMember
  <2>2. r \in Channel /\ r.hot_list = Tail(c.hot_list) /\ r.wild = c.wild
    BY <1>2, ReceivedType DEF Received, Channel
  <2>3. Placed(r, B \ {b}, h) /\ (b \in Buf => b \in B) /\ B \subseteq SlotsOf(h)
    BY <1>2, ReceivedPlaced DEF Placed
  <2>4. MoveHot(c) = IF IsDummy(b) THEN e ELSE Deliver(r, b)
    BY <1>2, <2>1 DEF MoveHot
  <2> HIDE DEF r, b
  <2>5. CASE IsDummy(b)
    <3>1. b \notin Buf /\ B \ {b} = B
      BY <2>3, <2>5, DummyNotBuf, SlotsAreBufs
    <3>2. SameLists(r, e) /\ e.wild = r.wild
      BY <2>2 DEF SameLists, Channel
    <3> HIDE DEF e
    <3>3. Placed(e, B, h) /\ e.hot_list = r.hot_list
      BY <2>3, <3>1, <3>2, SameListsPlaced DEF SameLists
    <3>4. QED
      BY <2>2, <2>4, <2>5, <3>2, <3>3
  <2>6. CASE ~IsDummy(b)
    <3>1. b \in Buf /\ b \in B /\ b \in SlotsOf(h) /\ b \notin B \ {b} /\ (B \ {b}) \cup {b} = B
      BY <2>1, <2>3, <2>6, NotDummy
    <3>2. g \in Channel
      <4> DEFINE good    == r.goodcnt + 1
                 numbers == [r.frame_number EXCEPT ![b] = r.latest_frame_number]
      <4>1. good \in Nat /\ numbers \in [Buf -> Nat]
        BY <2>2, CountParts, ChannelParts, <3>1
      <4>2. g = [r EXCEPT !.goodcnt = good, !.frame_number = numbers]
        OBVIOUS
      <4> HIDE DEF good, numbers
      <4>3. QED
        BY <2>2, <4>1, <4>2 DEF Channel
    <3>3. SameLists(r, g) /\ g.wild = r.wild /\ g.mode = r.mode
      BY <2>2 DEF SameLists, Channel
    <3>4. Deliver(r, b) \in {AddGrabbed(g, b), AddFree(g, b), AddReady(g, b)}
      BY <2>2, <3>3 DEF Deliver, AddGrabbed
    <3> HIDE DEF g
    <3>5. Placed(g, B \ {b}, h)
      BY <2>3, <3>3, SameListsPlaced
    <3>6. /\ Placed(AddGrabbed(g, b), (B \ {b}) \cup {b}, h)
          /\ Placed(AddFree(g, b), (B \ {b}) \cup {b}, h)
          /\ Placed(AddReady(g, b), (B \ {b}) \cup {b}, h)
      BY <3>1, <3>2, <3>5, AddGrabbedPlaced, AddFreePlaced, AddReadyPlaced
    <3>7. \A d \in {AddGrabbed(g, b), AddFree(g, b), AddReady(g, b)} :
             d.wild = g.wild /\ d.hot_list = g.hot_list
      BY <3>2 DEF AddGrabbed, AddFree, AddReady, Channel
    <3>8. QED
      BY <2>2, <2>4, <2>6, <3>1, <3>3, <3>4, <3>6, <3>7 DEF SameLists
  <2>7. QED
    BY <2>5, <2>6 DEF b, r
<1>3. QED
  BY <1>1, <1>2

\* men_next_blocked: the oldest grabbed buffer is locked.
LEMMA NextBlockedPlaced ==
  ASSUME NEW c \in Channel, NEW B, NEW h \in Heads, Placed(c, B, h)
  PROVE  Placed(NextBlocked(c), B, h) /\ (NextBlocked(c)).wild = c.wild
<1>0. /\ c.grabbed_list \in Seq(Buf) /\ c.grabbed_count = Len(c.grabbed_list)
      /\ B \subseteq SlotsOf(h) /\ B \subseteq Buf /\ c.listname \in [Buf -> ListNames]
      /\ Holds(c.grabbed_list, c.grabbed_count, Tagged(c.listname, B, "GRABBED"))
  BY SlotsAreBufs DEF Channel, Placed, Holds
<1>1. CASE c.grabbed_list = <<>>
  <2>1. NextBlocked(c) = c
    BY <1>0, <1>1 DEF NextBlocked
  <2>2. QED
    BY <2>1
<1>2. CASE c.grabbed_list # <<>>
  <2> DEFINE d == NextBlocked(c)
             l == c.listname
             b == Head(c.grabbed_list)
             k == [l EXCEPT ![b] = "NO_LIST"]
             X == Tagged(l, B, "NO_LIST")
             G == Tagged(l, B, "GRABBED")
  <2>1. b \in Members(c.grabbed_list) /\ b \in Buf /\ c.grabbed_count # 0
    BY <1>0, <1>2, HeadMember
  <2>2. b \in G
    BY <1>0, <2>1 DEF Holds
  <2>3. b \in B /\ l[b] = "GRABBED" /\ b \notin X /\ X \subseteq SlotsOf(h) /\ B \cup {b} = B
    BY <1>0, <2>2 DEF Tagged
  <2>4. /\ d.ready_list = c.ready_list /\ d.ready_count = c.ready_count
        /\ d.grabbed_list = Tail(c.grabbed_list) /\ d.grabbed_count = Dec(c.grabbed_count)
        /\ d.hot_list = c.hot_list /\ d.hot_count = c.hot_count
        /\ d.free_list = c.free_list /\ d.free_count = c.free_count
        /\ d.locked_count = Inc(c.locked_count) /\ d.listname = k /\ d.wild = c.wild
    BY <1>2, <2>1 DEF NextBlocked, Channel
  <2>5. Retags(l, k, B, b, "NO_LIST")
    BY <1>0, <2>1 DEF Retags
  <2>6. Holds(Tail(c.grabbed_list), Dec(c.grabbed_count), G \ {b})
    BY <1>0, <1>2, TailHolds
  <2>7. Inc(c.locked_count) = Cardinality(X \cup {b})
    <3>1. c.locked_count = Cardinality(X)
      BY DEF Placed
    <3> HIDE DEF X, b
    <3>2. QED
      BY <1>0, <2>3, <3>1, LockedCounted
  <2> HIDE DEF d, k, b, l
  <2>8. Tagged(k, B, "NO_LIST") = X \cup {b}
    BY <2>3, <2>5, TaggedNew
  <2>9. Tagged(k, B, "GRABBED") = G \ {b}
    <3>1. Tagged(k, B \cup {b}, "GRABBED") = Tagged(l, B, "GRABBED") \ {b}
      BY <2>5, TaggedOld
    <3>2. QED
      BY <2>3, <3>1
  <2>10. \A m \in {"FREE", "READY", "HOT"} : Tagged(k, B, m) = Tagged(l, B, m)
    <3>1. \A m \in ListNames : m # "NO_LIST" /\ l[b] # m => Tagged(k, B \cup {b}, m) = Tagged(l, B, m)
      BY <2>5, TaggedOther
    <3>2. QED
      BY <2>3, <3>1 DEF ListNames
  <2> HIDE DEF X, G
  <2>11. /\ Holds(d.free_list, d.free_count, Tagged(k, B, "FREE"))
         /\ Holds(d.ready_list, d.ready_count, Tagged(k, B, "READY"))
         /\ Holds(d.hot_list, d.hot_count, Tagged(k, B, "HOT"))
    BY <2>4, <2>10 DEF Placed, l
  <2>12. /\ Holds(d.grabbed_list, d.grabbed_count, Tagged(k, B, "GRABBED"))
         /\ d.locked_count = Cardinality(Tagged(k, B, "NO_LIST"))
    BY <2>4, <2>6, <2>7, <2>8, <2>9
  <2>13. Placed(d, B, h)
    BY <2>4, <2>11, <2>12 DEF Placed
  <2>14. QED
    BY <2>4, <2>13 DEF d
<1>3. QED
  BY <1>1, <1>2

\* The buffers Q get a new listname at once.
RetagsAll(l, k, B, Q, name) ==
  /\ B \subseteq Buf /\ Q \subseteq B
  /\ \A b \in Buf : k[b] = IF b \in Q THEN name ELSE l[b]

\* Giving the same listname to several buffers at once.
LEMMA TaggedAll ==
  ASSUME NEW l, NEW k, NEW B, NEW Q, NEW name, RetagsAll(l, k, B, Q, name)
  PROVE  /\ Tagged(k, B, name) = Tagged(l, B, name) \cup Q
         /\ \A m \in ListNames : m # name => Tagged(k, B, m) = Tagged(l, B, m) \ Q
BY DEF Tagged, RetagsAll

\* men_last_blocked: the newest grabbed buffer is locked, the others are ready again.
LEMMA LastBlockedPlaced ==
  ASSUME NEW c \in Channel, NEW B, NEW h \in Heads, Placed(c, B, h)
  PROVE  /\ Placed(LastBlocked(c), B, h) /\ (LastBlocked(c)).wild = c.wild
         /\ (LastBlocked(c)).grabbed_list = <<>>
<1> DEFINE l == c.listname
           s == c.grabbed_list
           n == c.grabbed_count
           G == Tagged(l, B, "GRABBED")
           R == Tagged(l, B, "READY")
           X == Tagged(l, B, "NO_LIST")
<1>0. /\ s \in Seq(Buf) /\ n = Len(s) /\ n \in Nat /\ c.ready_list \in Seq(Buf) /\ c.ready_count \in Nat
      /\ B \subseteq SlotsOf(h) /\ B \subseteq Buf /\ l \in [Buf -> ListNames]
      /\ Holds(s, n, G) /\ Holds(c.ready_list, c.ready_count, R) /\ c.locked_count = Cardinality(X)
  BY SlotsAreBufs DEF Channel, Placed, Holds
<1>1. CASE s = <<>>
  <2>1. LastBlocked(c) = c
    BY <1>0, <1>1 DEF LastBlocked
  <2>2. QED
    BY <1>1, <2>1
<1>2. CASE s # <<>>
  <2> DEFINE d    == LastBlocked(c)
             old  == FirstN(s, n - 1)
             last == s[n]
             j    == [b \in Buf |-> IF b \in Members(old) THEN "READY" ELSE l[b]]
             k    == [b \in Buf |-> IF b = last THEN "NO_LIST"
                                    ELSE IF b \in Members(old) THEN "READY" ELSE l[b]]
  <2>1. n \in Nat \ {0} /\ n - 1 \in Nat /\ n - 1 <= Len(s) /\ last \in Buf /\ last \in Members(s)
    BY <1>0, <1>2 DEF Members
  <2>2. AfterN(s, n) = <<>>
    BY <1>0 DEF AfterN
  <2>3. /\ d.ready_list = c.ready_list \o old /\ d.ready_count = c.ready_count + (n - 1)
        /\ d.grabbed_list = <<>> /\ d.grabbed_count = 0
        /\ d.hot_list = c.hot_list /\ d.hot_count = c.hot_count
        /\ d.free_list = c.free_list /\ d.free_count = c.free_count
        /\ d.locked_count = Inc(c.locked_count) /\ d.listname = k /\ d.wild = c.wild
    <3>1. c.grabbed_count # 0 /\ ~(c.grabbed_count > Len(c.grabbed_list))
      BY <1>0, <2>1
    <3>2. QED
      BY <2>2, <3>1 DEF LastBlocked, Channel
  <2>4. /\ old \in Seq(Buf) /\ Len(old) = n - 1 /\ Injective(old) /\ Members(old) \subseteq Members(s)
    <3> DEFINE p == n - 1
    <3> HIDE DEF p, s, n, G
    <3>1. p \in Nat /\ p <= Len(s) /\ s \in Seq(Buf) /\ Holds(s, n, G)
      BY <1>0, <2>1 DEF p
    <3>2. /\ FirstN(s, p) \in Seq(Buf) /\ Len(FirstN(s, p)) = p /\ Injective(FirstN(s, p))
          /\ Members(FirstN(s, p)) \subseteq Members(s)
      BY <3>1, SplitHolds
    <3>3. QED
      BY <3>2 DEF p
  <2>5. last \notin Members(old)
    <3>1. old = SubSeq(s, 1, n - 1)
      BY <1>0, <2>1 DEF FirstN, Min2
    <3>2. \A i \in 1 .. n - 1 : old[i] = s[i] /\ i \in 1 .. Len(s) /\ i # n
      BY <1>0, <2>1, <3>1
    <3>3. n \in 1 .. Len(s)
      BY <1>0, <2>1
    <3> HIDE DEF old, last
    <3>4. \A i \in 1 .. n - 1 : old[i] # last
      <4>1. \A i \in 1 .. Len(s) : i # n => s[i] # s[n]
        BY <1>0, <3>3 DEF Holds, Injective
      <4>2. QED
        BY <3>2, <4>1 DEF last
    <3>5. QED
      BY <2>4, <3>4 DEF Members
  <2>6. Members(s) = Members(old) \cup {last}
    <3>1. old = SubSeq(s, 1, n - 1)
      BY <1>0, <2>1 DEF FirstN, Min2
    <3>2. \A i \in 1 .. n : i = n \/ (i \in 1 .. Len(old) /\ old[i] = s[i])
      BY <1>0, <2>1, <2>4, <3>1
    <3> HIDE DEF old, last
    <3>3. \A x \in Members(s) : x = last \/ x \in Members(old)
      BY <1>0, <3>2 DEF Members, last
    <3>4. QED
      BY <2>1, <2>4, <3>3
  <2>7. Members(s) = G
    <3>1. \A x \in Members(s) : x \in Buf
      BY <1>0 DEF Members
    <3>2. \A x \in G : x \in Buf
      BY <1>0 DEF Tagged
    <3>3. QED
      BY <1>0, <3>1, <3>2 DEF Holds
  <2>8. Members(c.ready_list) \cap Members(old) = {}
    <3>1. \A x \in Members(c.ready_list) : x \in Buf
      BY <1>0 DEF Members
    <3>2. Members(c.ready_list) \subseteq R
      BY <1>0, <3>1 DEF Holds
    <3>3. Members(old) \subseteq G
      BY <2>4, <2>7
    <3>4. QED
      BY <3>2, <3>3 DEF Tagged
  <2> HIDE DEF d, old, last
  <2>9. Holds(d.ready_list, d.ready_count, R \cup Members(old))
    <3>1. Holds(c.ready_list \o old, c.ready_count + Len(old), R \cup Members(old))
      BY <1>0, <2>4, <2>8, ConcatHolds
    <3>2. QED
      BY <2>3, <2>4, <3>1
  <2>10. last \in B /\ last \in SlotsOf(h) /\ last \notin X /\ X \subseteq SlotsOf(h) /\ Members(old) \subseteq B
    BY <1>0, <2>1, <2>4, <2>7 DEF Tagged
  <2>11. Inc(c.locked_count) = Cardinality(X \cup {last})
    <3> HIDE DEF X
    <3>1. QED
      BY <1>0, <2>10, LockedCounted
  <2>12. RetagsAll(l, j, B, Members(old), "READY")
    BY <1>0, <2>10 DEF RetagsAll
  <2>13. Retags(j, k, B, last, "NO_LIST")
    <3>1. j \in [Buf -> ListNames]
      BY <1>0 DEF ListNames
    <3>2. k = [j EXCEPT ![last] = "NO_LIST"]
      <4>1. \A b \in Buf : k[b] = IF b = last THEN "NO_LIST" ELSE j[b]
        OBVIOUS
      <4>2. QED
        BY <2>1, <4>1
    <3>3. QED
      BY <1>0, <2>1, <3>1, <3>2 DEF Retags
  <2>14. j[last] = "GRABBED"
    BY <2>1, <2>5, <2>7 DEF Tagged
  <2> HIDE DEF j, k, l
  <2>15. /\ Tagged(j, B, "READY") = R \cup Members(old)
         /\ \A m \in ListNames : m # "READY" => Tagged(j, B, m) = Tagged(l, B, m) \ Members(old)
    BY <2>12, TaggedAll
  <2>16. B \cup {last} = B
    BY <2>10
  <2>17. Tagged(k, B, "NO_LIST") = Tagged(j, B, "NO_LIST") \cup {last}
    BY <2>13, <2>16, TaggedNew
  <2>18. Tagged(k, B, "GRABBED") = Tagged(j, B, "GRABBED") \ {last}
    <3>1. Tagged(k, B \cup {last}, "GRABBED") = Tagged(j, B, "GRABBED") \ {last}
      BY <2>13, TaggedOld
    <3>2. QED
      BY <2>16, <3>1
  <2>19. \A m \in {"FREE", "READY", "HOT"} : Tagged(k, B, m) = Tagged(j, B, m)
    <3>1. \A m \in ListNames : m # "NO_LIST" /\ j[last] # m => Tagged(k, B \cup {last}, m) = Tagged(j, B, m)
      BY <2>13, TaggedOther
    <3>2. QED
      BY <2>14, <2>16, <3>1 DEF ListNames
  <2>20. /\ Members(old) \cap Tagged(l, B, "FREE") = {} /\ Members(old) \cap Tagged(l, B, "HOT") = {}
         /\ Members(old) \cap X = {}
    BY <2>4, <2>7 DEF Tagged
  <2>21. /\ Tagged(k, B, "FREE") = Tagged(l, B, "FREE") /\ Tagged(k, B, "HOT") = Tagged(l, B, "HOT")
         /\ Tagged(k, B, "READY") = R \cup Members(old) /\ Tagged(k, B, "NO_LIST") = X \cup {last}
         /\ Tagged(k, B, "GRABBED") = {}
    <3>1. /\ Tagged(j, B, "FREE") = Tagged(l, B, "FREE") \ Members(old)
          /\ Tagged(j, B, "HOT") = Tagged(l, B, "HOT") \ Members(old)
          /\ Tagged(j, B, "NO_LIST") = X \ Members(old)
          /\ Tagged(j, B, "GRABBED") = G \ Members(old)
      BY <2>15 DEF ListNames
    <3> HIDE DEF X, G, R
    <3>2. QED
      BY <2>6, <2>7, <2>15, <2>17, <2>18, <2>19, <2>20, <3>1
  <2> HIDE DEF X, G, R
  <2>22. Holds(<<>>, 0, {})
    BY DEF Holds, Injective, Members
  <2>23. /\ Holds(d.free_list, d.free_count, Tagged(k, B, "FREE"))
         /\ Holds(d.hot_list, d.hot_count, Tagged(k, B, "HOT"))
    BY <2>3, <2>21 DEF Placed, l
  <2>24. /\ Holds(d.ready_list, d.ready_count, Tagged(k, B, "READY"))
         /\ Holds(d.grabbed_list, d.grabbed_count, Tagged(k, B, "GRABBED"))
         /\ d.locked_count = Cardinality(Tagged(k, B, "NO_LIST"))
    BY <2>3, <2>9, <2>11, <2>21, <2>22
  <2>25. Placed(d, B, h)
    BY <2>3, <2>23, <2>24 DEF Placed
  <2>26. QED
    BY <2>3, <2>25 DEF d
<1>3. QED
  BY <1>1, <1>2

-----------------------------------------------------------------------------
(* men_dma_queue_max.                                                      *)

\* As long as the board holds no more than fit, the unsigned arithmetic is exact.
LEMMA NumToQueueExact ==
  ASSUME NEW c \in Channel, c.hot_count <= FifoLength
  PROVE  /\ NumToQueue(c) \in Nat /\ NumToQueue(c) <= c.ready_count
         /\ c.hot_count + NumToQueue(c) <= FifoLength
         /\ (c.hot_count + NumToQueue(c)) % (UintMax + 1) = c.hot_count + NumToQueue(c)
         /\ c.transfer_todo > c.hot_count /\ c.hot_count = 0 /\ c.ready_count > 0 => NumToQueue(c) > 0
<1> DEFINE n  == NumToQueue(c)
           ho == c.hot_count
           td == c.transfer_todo
           rd == c.ready_count
           ff == FreeInFifo(c)
<1>1. ho \in Nat /\ td \in Int /\ rd \in Nat /\ ho <= FifoLength
  BY CountParts
<1>2. FifoLength \in Nat \ {0} /\ UintMax \in Nat /\ FifoLength <= UintMax
  BY FifoLengthAssumption, UintMaxAssumption
<1>3. ff = FifoLength - ho
  <2>1. ff = (FifoLength - ho) % (UintMax + 1)
    BY DEF FreeInFifo
  <2>2. FifoLength - ho \in 0 .. UintMax
    BY <1>1, <1>2
  <2> HIDE DEF ff, ho
  <2>3. QED
    BY <1>2, <2>1, <2>2, SmallRemainder
<1>4. n = IF td <= ho THEN 0 ELSE Min2(Min2(td - ho, rd), ff)
  BY DEF NumToQueue
<1> HIDE DEF n, ho, td, rd, ff
<1>5. n \in Nat /\ n <= rd /\ ho + n <= FifoLength
      /\ (td > ho /\ ho = 0 /\ rd > 0 => n > 0)
  BY <1>1, <1>2, <1>3, <1>4 DEF Min2
<1>6. ho + n \in 0 .. UintMax
  BY <1>1, <1>2, <1>5
<1>7. (ho + n) % (UintMax + 1) = ho + n
  BY <1>2, <1>6, SmallRemainder
<1>8. QED
  BY <1>5, <1>7 DEF n, ho, td, rd

\* Whoever calls it, the buffers it hands to the board move from the front of the ready
\* list to the end of the hot list, and it takes no more than there are.
LEMMA QueueMaxPlaced ==
  ASSUME NEW c \in Channel, NEW B, NEW h \in Heads, Placed(c, B, h)
  PROVE  /\ Placed(QueueMax(c, h), B, h) /\ (QueueMax(c, h)).wild = c.wild
         /\ (QueueMax(c, h)).hot_list = c.hot_list \o Queued(c, h)
<1> DEFINE d == QueueMax(c, h)
           l == c.listname
           H == Tagged(l, B, "HOT")
           R == Tagged(l, B, "READY")
<1>0. /\ c.hot_list \in Seq(Buf \cup Dummies) /\ c.hot_count = Len(c.hot_list) /\ c.hot_count \in Nat
      /\ c.ready_list \in Seq(Buf) /\ c.ready_count = Len(c.ready_list) /\ c.ready_count \in Nat
      /\ B \subseteq Buf /\ l \in [Buf -> ListNames] /\ c.hot_count <= FifoLength
      /\ Holds(c.hot_list, c.hot_count, H) /\ Holds(c.ready_list, c.ready_count, R)
      /\ \A b \in Members(c.hot_list) : b \in Buf \/ b = DummyBuf(h)
  BY SlotsAreBufs DEF Channel, Placed, Holds
<1>1. CASE WantsDummy(c)
  <2>1. c.hot_list = <<>> /\ c.hot_count = 0
    <3>1. c.hot_count = 0
      BY <1>1 DEF WantsDummy
    <3>2. Len(c.hot_list) = 0
      BY <1>0, <3>1
    <3>3. QED
      BY <1>0, <3>1, <3>2
  <2> DEFINE q == <<DummyBuf(h)>>
  <2>2. /\ d.ready_list = c.ready_list /\ d.ready_count = c.ready_count
        /\ d.hot_list = q \o c.hot_list /\ d.hot_count = Inc(c.hot_count)
        /\ d.grabbed_list = c.grabbed_list /\ d.grabbed_count = c.grabbed_count
        /\ d.free_list = c.free_list /\ d.free_count = c.free_count
        /\ d.locked_count = c.locked_count /\ d.listname = l /\ d.wild = c.wild
    BY <1>1 DEF QueueMax, Channel
  <2>3. d.hot_list = q /\ c.hot_list \o Queued(c, h) = q
    BY <1>1, <2>1, <2>2 DEF Queued
  <2>4. Len(q) = 1 /\ Members(q) = {DummyBuf(h)} /\ Injective(q)
    BY DEF Members, Injective
  <2>5. d.hot_count = 1
    BY <2>1, <2>2, FifoLengthAssumption, UintMaxAssumption DEF Inc
  <2> HIDE DEF q, d
  <2>6. Holds(d.hot_list, d.hot_count, H)
    <3>1. \A b \in Buf : b \notin H
      BY <1>0, <2>1 DEF Holds, Members
    <3>2. QED
      BY <2>3, <2>4, <2>5, <3>1, DummyNotBuf DEF Holds
  <2>7. d.hot_count <= FifoLength /\ \A b \in Members(d.hot_list) : b \in Buf \/ b = DummyBuf(h)
    BY <2>3, <2>4, <2>5, FifoLengthAssumption
  <2>8. Placed(d, B, h)
    BY <2>2, <2>6, <2>7 DEF Placed
  <2>9. QED
    BY <2>2, <2>3, <2>8 DEF d
<1>2. CASE ~WantsDummy(c)
  <2> DEFINE n == NumToQueue(c)
             q == FirstN(c.ready_list, n)
             k == [b \in Buf |-> IF b \in Members(q) THEN "HOT" ELSE l[b]]
  <2>1. /\ n \in Nat /\ n <= c.ready_count /\ c.hot_count + n <= FifoLength
        /\ (c.hot_count + n) % (UintMax + 1) = c.hot_count + n
    BY <1>0, NumToQueueExact
  <2>2. /\ d.ready_list = AfterN(c.ready_list, n) /\ d.ready_count = c.ready_count - n
        /\ d.hot_list = c.hot_list \o q /\ d.hot_count = (c.hot_count + n) % (UintMax + 1)
        /\ d.grabbed_list = c.grabbed_list /\ d.grabbed_count = c.grabbed_count
        /\ d.free_list = c.free_list /\ d.free_count = c.free_count
        /\ d.locked_count = c.locked_count /\ d.listname = k
    BY <1>2 DEF QueueMax, Channel
  <2>3. d.wild = c.wild
    <3>1. d.wild = (c.wild \/ n > Len(c.ready_list)) /\ c.wild \in BOOLEAN
      BY <1>2 DEF QueueMax, Channel
    <3>2. ~(n > Len(c.ready_list))
      BY <1>0, <2>1
    <3> DEFINE p == n > Len(c.ready_list)
    <3> HIDE DEF p
    <3>3. d.wild = (c.wild \/ p) /\ ~p
      BY <3>1, <3>2 DEF p
    <3>4. CASE c.wild = TRUE
      BY <3>3, <3>4
    <3>5. CASE c.wild = FALSE
      BY <3>3, <3>5
    <3>6. QED
      BY <3>1, <3>4, <3>5
  <2>4. Queued(c, h) = q
    BY <1>2 DEF Queued
  <2>5. /\ q \in Seq(Buf) /\ Len(q) = n /\ Injective(q) /\ Members(q) \subseteq Members(c.ready_list)
        /\ Holds(AfterN(c.ready_list, n), c.ready_count - n, R \ Members(q))
    <3> DEFINE s == c.ready_list
               m == c.ready_count
    <3> HIDE DEF s, m, n, R
    <3>1. n \in Nat /\ n <= Len(s) /\ s \in Seq(Buf) /\ Holds(s, m, R)
      BY <1>0, <2>1 DEF s, m
    <3>2. /\ FirstN(s, n) \in Seq(Buf) /\ Len(FirstN(s, n)) = n /\ Injective(FirstN(s, n))
          /\ Members(FirstN(s, n)) \subseteq Members(s)
          /\ Holds(AfterN(s, n), m - n, R \ Members(FirstN(s, n)))
      BY <3>1, SplitHolds
    <3>3. QED
      BY <3>2 DEF s, m
  <2>6. Members(q) \subseteq R
    <3>1. \A x \in Members(c.ready_list) : x \in Buf
      BY <1>0 DEF Members
    <3>2. QED
      BY <1>0, <2>5, <3>1 DEF Holds
  <2>7. Members(c.hot_list) \cap Members(q) = {} /\ Members(q) \subseteq B /\ Members(q) \cap H = {}
    <3>1. \A x \in R : x \in Buf /\ x \in B /\ x \notin H
      BY <1>0 DEF Tagged
    <3>2. QED
      BY <1>0, <2>6, <3>1 DEF Holds
  <2> HIDE DEF d, n, q
  <2>8. Holds(c.hot_list \o q, c.hot_count + Len(q), H \cup Members(q))
    <3>1. q \in Seq(Buf \cup Dummies)
      BY <2>5
    <3>2. QED
      BY <1>0, <2>5, <2>7, <3>1, ConcatHolds
  <2>9. RetagsAll(l, k, B, Members(q), "HOT")
    BY <1>0, <2>7 DEF RetagsAll
  <2> HIDE DEF k
  <2>10. /\ Tagged(k, B, "HOT") = H \cup Members(q)
         /\ \A m \in ListNames : m # "HOT" => Tagged(k, B, m) = Tagged(l, B, m) \ Members(q)
    BY <2>9, TaggedAll
  <2>11. \A m \in {"FREE", "GRABBED", "NO_LIST"} : Tagged(l, B, m) \cap Members(q) = {}
    BY <2>6 DEF Tagged
  <2>12. /\ Tagged(k, B, "FREE") = Tagged(l, B, "FREE") /\ Tagged(k, B, "GRABBED") = Tagged(l, B, "GRABBED")
         /\ Tagged(k, B, "NO_LIST") = Tagged(l, B, "NO_LIST") /\ Tagged(k, B, "READY") = R \ Members(q)
    <3>1. \A m \in {"FREE", "GRABBED", "NO_LIST"} : Tagged(k, B, m) = Tagged(l, B, m) \ Members(q)
      BY <2>10 DEF ListNames
    <3>2. \A m \in {"FREE", "GRABBED", "NO_LIST"} : Tagged(k, B, m) = Tagged(l, B, m)
      BY <2>11, <3>1
    <3>3. QED
      BY <2>10, <3>2 DEF ListNames
  <2>13. /\ Holds(d.hot_list, d.hot_count, Tagged(k, B, "HOT")) /\ d.hot_count <= FifoLength
         /\ Holds(d.ready_list, d.ready_count, Tagged(k, B, "READY"))
    BY <2>1, <2>2, <2>5, <2>8, <2>10, <2>12
  <2>14. \A b \in Members(d.hot_list) : b \in Buf \/ b = DummyBuf(h)
    <3>1. \A x \in Members(c.hot_list \o q) : x \in Members(c.hot_list) \/ x \in Members(q)
      <4> DEFINE a == c.hot_list \o q
      <4>0. c.hot_list \in Seq(Buf \cup Dummies) /\ q \in Seq(Buf \cup Dummies)
        BY <1>0, <2>5
      <4>1. /\ Len(c.hot_list) \in Nat /\ Len(q) \in Nat /\ Len(a) = Len(c.hot_list) + Len(q)
            /\ \A i \in 1 .. Len(a) : a[i] = IF i <= Len(c.hot_list) THEN c.hot_list[i] ELSE q[i - Len(c.hot_list)]
        BY <4>0
      <4> HIDE DEF a
      <4> SUFFICES ASSUME NEW i \in 1 .. Len(a) PROVE a[i] \in Members(c.hot_list) \/ a[i] \in Members(q)
        BY DEF Members, a
      <4>2. CASE i <= Len(c.hot_list)
        BY <4>1, <4>2 DEF Members
      <4>3. CASE i > Len(c.hot_list)
        <5>1. i - Len(c.hot_list) \in 1 .. Len(q) /\ a[i] = q[i - Len(c.hot_list)]
          BY <4>1, <4>3
        <5>2. QED
          BY <5>1 DEF Members
      <4>4. QED
        BY <4>1, <4>2, <4>3
    <3>2. QED
      BY <1>0, <2>2, <2>7, <3>1
  <2>15. /\ Holds(d.free_list, d.free_count, Tagged(k, B, "FREE"))
         /\ Holds(d.grabbed_list, d.grabbed_count, Tagged(k, B, "GRABBED"))
         /\ d.locked_count = Cardinality(Tagged(k, B, "NO_LIST"))
    BY <2>2, <2>12 DEF Placed
  <2>16. Placed(d, B, h)
    BY <2>2, <2>13, <2>14, <2>15 DEF Placed
  <2>17. QED
    BY <2>2, <2>3, <2>4, <2>16 DEF d
<1>3. QED
  BY <1>1, <1>2

-----------------------------------------------------------------------------
(* Frame numbers.                                                          *)

\* The grabbed frames are in the order of their numbers, and none is newer than
\* the newest.
Ordered(c) ==
  /\ \A i, j \in 1 .. Len(c.grabbed_list) :
       i < j => c.frame_number[c.grabbed_list[i]] < c.frame_number[c.grabbed_list[j]]
  /\ \A i \in 1 .. Len(c.grabbed_list) : c.frame_number[c.grabbed_list[i]] <= c.latest_frame_number

\* r is what is left of s when entries are taken out.
Sublist(s, r) ==
  /\ \A i \in 1 .. Len(r) : \E k \in 1 .. Len(s) : s[k] = r[i]
  /\ \A i, j \in 1 .. Len(r) : i < j =>
       \E k, m \in 1 .. Len(s) : k < m /\ s[k] = r[i] /\ s[m] = r[j]

\* A list is left of itself, and so is the empty list.
LEMMA SublistSame ==
  ASSUME NEW s
  PROVE  Sublist(s, s) /\ Sublist(s, <<>>)
BY DEF Sublist

\* Taking the first entry out.
LEMMA SublistTail ==
  ASSUME NEW s \in Seq(Buf), s # <<>>
  PROVE  Sublist(s, Tail(s))
<1> DEFINE r == Tail(s)
<1>1. Len(s) \in Nat \ {0} /\ Len(r) = Len(s) - 1 /\ \A i \in 1 .. Len(r) : r[i] = s[i + 1] /\ i + 1 \in 1 .. Len(s)
  OBVIOUS
<1> HIDE DEF r
<1>2. \A i, j \in 1 .. Len(r) : i < j => i + 1 < j + 1
  BY <1>1
<1>3. \A i \in 1 .. Len(r) : \E k \in 1 .. Len(s) : s[k] = r[i]
  BY <1>1
<1>4. \A i, j \in 1 .. Len(r) : i < j => \E k, m \in 1 .. Len(s) : k < m /\ s[k] = r[i] /\ s[m] = r[j]
  BY <1>1, <1>2
<1>5. QED
  BY <1>3, <1>4 DEF Sublist, r

\* list_del of any entry.
LEMMA SublistUnlink ==
  ASSUME NEW s \in Seq(Buf), NEW b
  PROVE  Sublist(s, Unlink(s, b))
<1>1. CASE \E i \in 1 .. Len(s) : s[i] = b
  <2> DEFINE k == CHOOSE i \in 1 .. Len(s) : s[i] = b
             r == [i \in 1 .. Len(s) - 1 |-> IF i < k THEN s[i] ELSE s[i + 1]]
             P(i) == IF i < k THEN i ELSE i + 1
  <2>1. k \in 1 .. Len(s)
    BY <1>1
  <2>2. Unlink(s, b) = r
    BY <1>1 DEF Unlink
  <2> HIDE DEF k
  <2>3. Len(s) \in Nat /\ Len(s) - 1 \in Nat
    BY <2>1
  <2>4. Len(r) = Len(s) - 1
    BY <2>3
  <2>5. \A i \in 1 .. Len(s) - 1 : r[i] = s[P(i)]
    OBVIOUS
  <2> HIDE DEF r
  <2>6. \A i \in 1 .. Len(r) : P(i) \in 1 .. Len(s) /\ s[P(i)] = r[i]
    BY <2>1, <2>3, <2>4, <2>5
  <2>7. \A i, j \in 1 .. Len(r) : i < j => P(i) < P(j)
    BY <2>1, <2>3, <2>4
  <2> HIDE DEF P
  <2>8. Sublist(s, r)
    BY <2>6, <2>7 DEF Sublist
  <2>9. QED
    BY <2>2, <2>8
<1>2. CASE ~\E i \in 1 .. Len(s) : s[i] = b
  BY <1>2, SublistSame DEF Unlink
<1>3. QED
  BY <1>1, <1>2

\* Taking frames out keeps the order of the others.
LEMMA OrderedSublist ==
  ASSUME NEW c \in Channel, NEW d \in Channel, Ordered(c), Sublist(c.grabbed_list, d.grabbed_list),
         \A b \in Members(c.grabbed_list) : d.frame_number[b] = c.frame_number[b],
         d.latest_frame_number >= c.latest_frame_number
  PROVE  Ordered(d)
<1> DEFINE s == c.grabbed_list
           r == d.grabbed_list
           f == c.frame_number
           g == d.frame_number
           p == c.latest_frame_number
           q == d.latest_frame_number
<1>1. \A k \in 1 .. Len(s) : g[s[k]] = f[s[k]] /\ f[s[k]] \in Nat
  <2>1. \A k \in 1 .. Len(s) : s[k] \in Buf /\ s[k] \in Members(s)
    BY CountParts DEF Members
  <2>2. f \in [Buf -> Nat]
    BY CountParts
  <2>3. QED
    BY <2>1, <2>2
<1>2. p \in Nat /\ q \in Nat /\ q >= p /\ Sublist(s, r)
  BY CountParts
<1>3. /\ \A i, j \in 1 .. Len(s) : i < j => f[s[i]] < f[s[j]]
      /\ \A i \in 1 .. Len(s) : f[s[i]] <= p
  BY DEF Ordered
<1> HIDE DEF s, r, f, g, p, q
<1>4. ASSUME NEW i \in 1 .. Len(r), NEW j \in 1 .. Len(r), i < j PROVE g[r[i]] < g[r[j]]
  <2>1. PICK k \in 1 .. Len(s), m \in 1 .. Len(s) : k < m /\ s[k] = r[i] /\ s[m] = r[j]
    BY <1>2, <1>4 DEF Sublist
  <2>2. g[s[k]] = f[s[k]] /\ g[s[m]] = f[s[m]] /\ f[s[k]] < f[s[m]]
    BY <1>1, <1>3, <2>1
  <2>3. QED
    BY <2>1, <2>2
<1>5. ASSUME NEW i \in 1 .. Len(r) PROVE g[r[i]] <= q
  <2>1. PICK k \in 1 .. Len(s) : s[k] = r[i]
    BY <1>2 DEF Sublist
  <2>2. g[s[k]] = f[s[k]] /\ f[s[k]] <= p /\ f[s[k]] \in Nat
    BY <1>1, <1>3
  <2>3. QED
    BY <1>2, <2>1, <2>2
<1>6. QED
  BY <1>4, <1>5 DEF Ordered, r, g, q

\* A new frame is newer than all others.
LEMMA OrderedAppend ==
  ASSUME NEW c \in Channel, NEW d \in Channel, NEW b \in Buf, Ordered(c), b \notin Members(c.grabbed_list),
         d.grabbed_list = Append(c.grabbed_list, b),
         d.latest_frame_number = c.latest_frame_number + 1,
         d.frame_number = [c.frame_number EXCEPT ![b] = c.latest_frame_number + 1]
  PROVE  Ordered(d)
<1> DEFINE s == c.grabbed_list
           r == d.grabbed_list
           f == c.frame_number
           g == d.frame_number
           p == c.latest_frame_number
           q == d.latest_frame_number
<1>1. /\ s \in Seq(Buf) /\ Len(s) \in Nat /\ Len(r) = Len(s) + 1 /\ r[Len(s) + 1] = b
      /\ \A i \in 1 .. Len(s) : r[i] = s[i]
  BY CountParts
<1>2. f \in [Buf -> Nat] /\ p \in Nat /\ q = p + 1 /\ g = [f EXCEPT ![b] = q] /\ b \notin Members(s)
  BY CountParts
<1>3. /\ \A i, j \in 1 .. Len(s) : i < j => f[s[i]] < f[s[j]]
      /\ \A i \in 1 .. Len(s) : f[s[i]] <= p
  BY DEF Ordered
<1> HIDE DEF s, r, f, g, p, q
<1>4. \A k \in 1 .. Len(s) : s[k] \in Buf /\ s[k] # b
  BY <1>1, <1>2 DEF Members
<1>5. g[b] = q
  BY <1>2
<1>6. \A k \in 1 .. Len(s) : g[r[k]] = f[s[k]] /\ f[s[k]] \in Nat
  BY <1>1, <1>2, <1>4
<1>7. \A i \in 1 .. Len(r) : i \in 1 .. Len(s) \/ i = Len(s) + 1
  BY <1>1
<1>8. ASSUME NEW i \in 1 .. Len(r), NEW j \in 1 .. Len(r), i < j PROVE g[r[i]] < g[r[j]]
  <2>1. i \in 1 .. Len(s)
    BY <1>1, <1>8
  <2>2. CASE j \in 1 .. Len(s)
    BY <1>3, <1>6, <1>8, <2>1, <2>2
  <2>3. CASE j = Len(s) + 1
    <3>1. g[r[j]] = q /\ g[r[i]] <= p /\ g[r[i]] \in Nat
      BY <1>1, <1>3, <1>5, <1>6, <2>1, <2>3
    <3>2. QED
      BY <1>2, <3>1
  <2>4. QED
    BY <1>7, <2>2, <2>3
<1>9. ASSUME NEW i \in 1 .. Len(r) PROVE g[r[i]] <= q
  <2>1. CASE i \in 1 .. Len(s)
    <3>1. g[r[i]] <= p /\ g[r[i]] \in Nat
      BY <1>3, <1>6, <2>1
    <3>2. QED
      BY <1>2, <3>1
  <2>2. CASE i = Len(s) + 1
    BY <1>1, <1>2, <1>5, <2>2
  <2>3. QED
    BY <1>7, <2>1, <2>2
<1>10. QED
  BY <1>8, <1>9 DEF Ordered, r, g, q
-----------------------------------------------------------------------------
(* What the operations leave alone while an acquisition runs.              *)

\* The board's descriptors, the mode and the frame numbers are the same, and
\* grabbed frames are at most taken out.
Keeps(c, d) ==
  /\ d.hot_list = c.hot_list /\ d.mode = c.mode
  /\ d.transfer_todo = c.transfer_todo
  /\ d.latest_frame_number = c.latest_frame_number
  /\ d.frame_number = c.frame_number
  /\ Sublist(c.grabbed_list, d.grabbed_list)

\* The order of the grabbed frames; and dummy buffers and grabbed frames are a
\* matter of handshake mode.
Runs(c) ==
  /\ Ordered(c)
  /\ c.mode # "HANDSHAKE" =>
       c.grabbed_list = <<>> /\ \A b \in Members(c.hot_list) : b \in Buf

\* Nothing is left of the empty list.
LEMMA EmptySublist ==
  ASSUME NEW r \in Seq(Buf), Sublist(<<>>, r)
  PROVE  r = <<>>
<1>1. Len(r) \in Nat /\ ~(1 \in 1 .. Len(r))
  BY DEF Sublist
<1>2. QED
  BY <1>1

\* Taking grabbed frames out keeps the rest in order.
LEMMA KeepsRuns ==
  ASSUME NEW c \in Channel, NEW d \in Channel, Keeps(c, d), Runs(c)
  PROVE  Runs(d)
<1>1. Ordered(d)
  <2>1. d.latest_frame_number >= c.latest_frame_number
    BY CountParts DEF Keeps
  <2>2. QED
    BY <2>1, OrderedSublist DEF Keeps, Runs
<1>2. c.grabbed_list = <<>> => d.grabbed_list = <<>>
  <2>1. d.grabbed_list \in Seq(Buf)
    BY CountParts
  <2>2. QED
    BY <2>1, EmptySublist DEF Keeps
<1>3. QED
  BY <1>1, <1>2 DEF Runs, Keeps

\* New buffers, frames handed out, and buffers taken back.
LEMMA AddFreeKeeps ==
  ASSUME NEW c \in Channel, NEW b \in Buf
  PROVE  Keeps(c, AddFree(c, b)) /\ (AddFree(c, b)).ready_list = c.ready_list
BY SublistSame DEF Keeps, AddFree, Channel

\* men_next_blocked takes at most the oldest grabbed frame.
LEMMA NextBlockedKeeps ==
  ASSUME NEW c \in Channel
  PROVE  Keeps(c, NextBlocked(c)) /\ (NextBlocked(c)).ready_list = c.ready_list
<1>1. CASE c.grabbed_count = 0
  BY <1>1, SublistSame DEF Keeps, NextBlocked
<1>2. CASE c.grabbed_count # 0 /\ c.grabbed_list = <<>>
  BY <1>2, SublistSame DEF Keeps, NextBlocked, Channel
<1>3. CASE c.grabbed_count # 0 /\ c.grabbed_list # <<>>
  <2>1. c.grabbed_list \in Seq(Buf)
    BY CountParts
  <2>2. Sublist(c.grabbed_list, Tail(c.grabbed_list))
    BY <1>3, <2>1, SublistTail
  <2>3. QED
    BY <1>3, <2>2 DEF Keeps, NextBlocked, Channel
<1>4. QED
  BY <1>1, <1>2, <1>3

\* men_last_blocked takes all grabbed frames, and never empties the ready list.
LEMMA LastBlockedKeeps ==
  ASSUME NEW c \in Channel, NEW B, NEW h \in Heads, Placed(c, B, h)
  PROVE  /\ Keeps(c, LastBlocked(c))
         /\ c.grabbed_list = <<>> => LastBlocked(c) = c
         /\ c.ready_list # <<>> => (LastBlocked(c)).ready_list # <<>>
<1>1. (LastBlocked(c)).grabbed_list = <<>>
  BY LastBlockedPlaced
<1>2. c.grabbed_list = <<>> => c.grabbed_count = 0
  BY DEF Placed, Holds
<1>3. c.grabbed_list = <<>> => LastBlocked(c) = c
  BY <1>2 DEF LastBlocked
<1>4. Keeps(c, LastBlocked(c))
  BY <1>1, SublistSame DEF Keeps, LastBlocked, Channel
<1>5. ASSUME c.ready_list # <<>> PROVE (LastBlocked(c)).ready_list # <<>>
  <2> DEFINE old == FirstN(c.grabbed_list, c.grabbed_count - 1)
  <2>1. c.ready_list \in Seq(Buf) /\ old \in Seq(Buf)
    <3>1. c.ready_list \in Seq(Buf) /\ c.grabbed_list \in Seq(Buf) /\ c.grabbed_count - 1 \in Int
      BY CountParts
    <3>2. QED
      BY <3>1, FirstNType
  <2>2. (LastBlocked(c)).ready_list \in {c.ready_list, c.ready_list \o old}
    BY DEF LastBlocked, Channel
  <2> HIDE DEF old
  <2>3. QED
    BY <1>5, <2>1, <2>2
<1>6. QED
  BY <1>3, <1>4, <1>5

\* A buffer the client gives back leaves the grabbed list for the ready list.
LEMMA UnblockedKeeps ==
  ASSUME NEW c \in Channel, NEW b \in Buf
  PROVE  /\ Keeps(c, Unblocked(c, b))
         /\ (Unblocked(c, b)).ready_list = IF c.listname[b] \in {"GRABBED", "NO_LIST"}
                                           THEN Append(c.ready_list, b) ELSE c.ready_list
<1>1. Sublist(c.grabbed_list, Unlink(c.grabbed_list, b)) /\ Sublist(c.grabbed_list, c.grabbed_list)
  BY SublistUnlink, SublistSame, CountParts
<1>2. CASE c.listname[b] = "GRABBED"
  <2> DEFINE d == Unblocked(c, b)
  <2>1. /\ d.hot_list = c.hot_list /\ d.mode = c.mode /\ d.transfer_todo = c.transfer_todo
        /\ d.latest_frame_number = c.latest_frame_number /\ d.frame_number = c.frame_number
        /\ d.grabbed_list = Unlink(c.grabbed_list, b) /\ d.ready_list = Append(c.ready_list, b)
    BY <1>2 DEF Unblocked, AddReady, Channel
  <2> HIDE DEF d
  <2>2. Keeps(c, d)
    BY <1>1, <2>1 DEF Keeps
  <2>3. QED
    BY <1>2, <2>1, <2>2 DEF d
<1>3. CASE c.listname[b] = "NO_LIST"
  BY <1>1, <1>3 DEF Keeps, Unblocked, AddReady, Channel
<1>4. CASE c.listname[b] \notin {"GRABBED", "NO_LIST"}
  BY <1>1, <1>4 DEF Keeps, Unblocked
<1>5. QED
  BY <1>2, <1>3, <1>4

\* Removing a buffer that is not on the board.
LEMMA RemoveBufferKeeps ==
  ASSUME NEW c \in Channel, NEW B, NEW h \in Heads, NEW b \in B, Placed(c, B, h),
         c.listname[b] # "HOT"
  PROVE  Keeps(c, RemoveBuffer(c, b))
<1>1. Sublist(c.grabbed_list, Unlink(c.grabbed_list, b)) /\ Unlink(c.hot_list, b) = c.hot_list
  BY SublistUnlink, UnlinkElsewhere, CountParts
<1>2. QED
  BY <1>1 DEF Keeps, RemoveBuffer, Channel

\* Queueing a free buffer.
LEMMA MoveToReadyKeeps ==
  ASSUME NEW c \in Channel, NEW B, NEW h \in Heads, NEW b \in B, Placed(c, B, h),
         c.listname[b] = "FREE"
  PROVE  Keeps(c, MoveToReady(c, b))
<1>1. Sublist(c.grabbed_list, Unlink(c.grabbed_list, b)) /\ Unlink(c.hot_list, b) = c.hot_list
  BY SublistUnlink, UnlinkElsewhere, CountParts
<1>2. QED
  BY <1>1 DEF Keeps, MoveToReady, Channel

\* A buffer in another list is not grabbed.
LEMMA NotGrabbed ==
  ASSUME NEW c, NEW B, NEW h \in Heads, Placed(c, B, h), NEW b \in Buf,
         b \notin B \/ c.listname[b] # "GRABBED"
  PROVE  b \notin Members(c.grabbed_list)
BY DEF Placed, Holds, Tagged

\* men_dma_queue_max numbers the buffers it queues anew, none of which is grabbed.
LEMMA QueueMaxRuns ==
  ASSUME NEW c \in Channel, NEW B, NEW h \in Heads, Placed(c, B, h), Runs(c)
  PROVE  Runs(QueueMax(c, h))
<1> DEFINE d == QueueMax(c, h)
           q == FirstN(c.ready_list, NumToQueue(c))
<1>1. d \in Channel /\ c.latest_frame_number \in Nat
  BY QueueMaxType, CountParts
<1>2. /\ d.mode = c.mode /\ d.grabbed_list = c.grabbed_list
      /\ d.latest_frame_number = c.latest_frame_number
      /\ \A b \in Buf : d.frame_number[b] = c.frame_number[b] \/ b \in Members(q)
  BY DEF QueueMax, Channel
<1>3. q \in Seq(Buf) /\ Members(q) \subseteq Members(c.ready_list)
  <2> DEFINE n == NumToQueue(c)
             s == c.ready_list
             m == c.ready_count
             R == Tagged(c.listname, B, "READY")
  <2>1. n \in Nat /\ n <= m /\ s \in Seq(Buf) /\ Holds(s, m, R) /\ m = Len(s)
    BY NumToQueueExact, CountParts DEF Placed, Holds
  <2> HIDE DEF n, s, m, R
  <2>2. FirstN(s, n) \in Seq(Buf) /\ Members(FirstN(s, n)) \subseteq Members(s)
    BY <2>1, SplitHolds
  <2>3. QED
    BY <2>2 DEF n, s
<1>4. \A b \in Members(c.grabbed_list) : b \in Buf /\ b \notin Members(q)
  <2>1. \A b \in Members(c.grabbed_list) : b \in Buf
    BY CountParts DEF Members
  <2>2. \A b \in Buf : b \in Members(c.ready_list) => c.listname[b] = "READY"
    BY DEF Placed, Holds, Tagged
  <2>3. \A b \in Buf : b \in Members(c.grabbed_list) => c.listname[b] = "GRABBED"
    BY DEF Placed, Holds, Tagged
  <2> HIDE DEF q
  <2>4. QED
    BY <1>3, <2>1, <2>2, <2>3
<1>5. Ordered(d)
  <2> HIDE DEF d, q
  <2>1. \A b \in Members(c.grabbed_list) : d.frame_number[b] = c.frame_number[b]
    BY <1>2, <1>4
  <2>2. Sublist(c.grabbed_list, d.grabbed_list) /\ d.latest_frame_number >= c.latest_frame_number
    BY <1>1, <1>2, SublistSame
  <2>3. QED
    BY <1>1, <2>1, <2>2, OrderedSublist DEF Runs
<1>6. ASSUME c.mode # "HANDSHAKE" PROVE \A b \in Members(d.hot_list) : b \in Buf
  <2>1. d.hot_list = c.hot_list \o q
    <3>1. ~WantsDummy(c)
      BY <1>6 DEF WantsDummy
    <3>2. QED
      BY <3>1 DEF QueueMax, Channel
  <2>2. \A i \in 1 .. Len(c.hot_list) : c.hot_list[i] \in Buf
    BY <1>6 DEF Runs, Members
  <2>3. c.hot_list \in Seq(Buf)
    <3>1. c.hot_list \in Seq(Buf \cup Dummies)
      BY CountParts
    <3>2. QED
      BY <2>2, <3>1
  <2> HIDE DEF q, d
  <2>4. d.hot_list \in Seq(Buf)
    BY <1>3, <2>1, <2>3
  <2>5. QED
    BY <2>4 DEF Members
<1> HIDE DEF d
<1>7. Runs(d)
  BY <1>2, <1>5, <1>6 DEF Runs
<1>8. QED
  BY <1>7 DEF d

\* men_move_hot numbers the frame it takes from the board.
LEMMA MoveHotRuns ==
  ASSUME NEW c \in Channel, NEW B, NEW h \in Heads, Placed(c, B, h), Runs(c)
  PROVE  Runs(MoveHot(c)) /\ (MoveHot(c)).mode = c.mode
<1> DEFINE d == MoveHot(c)
           b == Head(c.hot_list)
<1>0. d \in Channel /\ c.hot_list \in Seq(Buf \cup Dummies) /\ c.hot_count = Len(c.hot_list)
      /\ c.latest_frame_number \in Nat
  BY MoveHotType, CountParts DEF Placed, Holds
<1>1. CASE c.hot_list = <<>>
  <2>1. d = [c EXCEPT !.lost_count = @ + 1]
    BY <1>0, <1>1 DEF MoveHot
  <2>2. Keeps(c, d)
    BY <2>1, SublistSame DEF Keeps, Channel
  <2>3. QED
    BY <1>0, <2>2, KeepsRuns DEF Keeps
<1>2. CASE c.hot_list # <<>>
  <2> DEFINE r == Received(c)
  <2>1. c.hot_count # 0 /\ b \in Buf \cup Dummies /\ b \in Members(c.hot_list)
    BY <1>0, <1>2, HeadMember
  <2>2. /\ r \in Channel /\ r.hot_list = Tail(c.hot_list) /\ r.mode = c.mode
        /\ r.grabbed_list = c.grabbed_list /\ r.frame_number = c.frame_number
        /\ r.latest_frame_number = c.latest_frame_number + 1
    BY <1>2, ReceivedType DEF Received, Channel
  <2>3. d = IF IsDummy(b) THEN [r EXCEPT !.lost_count = @ + 1] ELSE Deliver(r, b)
    BY <1>2, <2>1 DEF MoveHot
  <2>4. d.hot_list = Tail(c.hot_list)
    BY <1>2, MoveHotPlaced
  <2> HIDE DEF r, b
  <2>5. d.mode = c.mode /\ d.latest_frame_number = c.latest_frame_number + 1
    BY <2>2, <2>3 DEF Deliver, AddFree, AddReady, Channel
  <2>6. ASSUME c.mode # "HANDSHAKE" PROVE d.grabbed_list = <<>> /\ \A x \in Members(d.hot_list) : x \in Buf
    <3>1. d.grabbed_list = r.grabbed_list
      BY <2>2, <2>3, <2>6 DEF Deliver, AddFree, AddReady, Channel
    <3>2. \A x \in Members(d.hot_list) : x \in Members(c.hot_list)
      <4> SUFFICES ASSUME NEW i \in 1 .. Len(d.hot_list) PROVE d.hot_list[i] \in Members(c.hot_list)
        BY DEF Members
      <4>1. i + 1 \in 1 .. Len(c.hot_list) /\ d.hot_list[i] = c.hot_list[i + 1]
        BY <1>0, <1>2, <2>4
      <4>2. QED
        BY <4>1 DEF Members
    <3>3. QED
      BY <2>2, <2>6, <3>1, <3>2 DEF Runs
  <2>7. Ordered(d)
    <3>1. CASE IsDummy(b)
      <4>1. d.grabbed_list = c.grabbed_list /\ d.frame_number = c.frame_number
        BY <2>2, <2>3, <3>1 DEF Channel
      <4>2. d.latest_frame_number >= c.latest_frame_number /\ Sublist(c.grabbed_list, d.grabbed_list)
        BY <1>0, <2>5, <4>1, SublistSame
      <4>3. QED
        BY <1>0, <4>1, <4>2, OrderedSublist DEF Runs
    <3>2. CASE ~IsDummy(b) /\ c.mode = "HANDSHAKE"
      <4>1. b \in Buf
        BY <2>1, <3>2, NotDummy
      <4>2. b \notin Members(c.grabbed_list)
        <5>1. c.listname[b] = "HOT"
          BY <2>1, <4>1 DEF Placed, Holds, Tagged
        <5>2. QED
          BY <4>1, <5>1, NotGrabbed
      <4> DEFINE e == [r EXCEPT !.goodcnt = @ + 1, !.frame_number[b] = r.latest_frame_number]
      <4>3. e.grabbed_list = r.grabbed_list /\ e.frame_number = [r.frame_number EXCEPT ![b] = r.latest_frame_number]
            /\ e.grabbed_count = r.grabbed_count /\ e.listname = r.listname /\ e.mode = r.mode
        BY <2>2 DEF Channel
      <4>4. d = [e EXCEPT !.grabbed_list = Append(@, b), !.grabbed_count = Inc(@), !.listname[b] = "GRABBED"]
        BY <2>2, <2>3, <3>2 DEF Deliver
      <4>5. d.grabbed_list = Append(e.grabbed_list, b) /\ d.frame_number = e.frame_number
        BY <2>2, <4>4 DEF Channel
      <4> HIDE DEF e
      <4>6. /\ d.grabbed_list = Append(c.grabbed_list, b)
            /\ d.frame_number = [c.frame_number EXCEPT ![b] = c.latest_frame_number + 1]
        BY <2>2, <4>3, <4>5
      <4> HIDE DEF d
      <4>7. QED
        BY <1>0, <2>5, <4>1, <4>2, <4>6, OrderedAppend DEF Runs
    <3>3. CASE c.mode # "HANDSHAKE"
      BY <2>6, <3>3 DEF Ordered
    <3>4. QED
      BY <3>1, <3>2, <3>3
  <2> HIDE DEF d
  <2>8. Runs(d) /\ d.mode = c.mode
    BY <2>5, <2>6, <2>7 DEF Runs
  <2>9. QED
    BY <2>8 DEF d
<1>3. QED
  BY <1>1, <1>2
-----------------------------------------------------------------------------
(* The board keeps a descriptor.                                           *)

\* The board has a descriptor, unless nothing is ready in selective mode.
Fed(c) == c.mode # "SELECTIVE" \/ c.ready_list # <<>> => c.hot_list # <<>>

\* In the modes without dummy buffers the buffers circulate.
Circulates(c) == c.mode = "CONT" => c.hot_list # <<>> \/ c.ready_list # <<>>

\* Of a list that is not empty, something is in the front part or in the rest.
LEMMA SplitNotEmpty ==
  ASSUME NEW s \in Seq(Buf), NEW k \in Nat, k <= Len(s), s # <<>>
  PROVE  /\ k > 0 => FirstN(s, k) # <<>>
         /\ k = 0 => AfterN(s, k) = s
<1>1. FirstN(s, k) = SubSeq(s, 1, k) /\ AfterN(s, k) = SubSeq(s, k + 1, Len(s)) /\ Len(s) \in Nat
  BY DEF FirstN, AfterN, Min2
<1>2. Len(SubSeq(s, 1, k)) = k
  BY <1>1
<1>3. k > 0 => FirstN(s, k) # <<>>
  BY <1>1, <1>2
<1>4. SubSeq(s, 1, Len(s)) = s
  BY <1>1
<1>5. QED
  BY <1>1, <1>3, <1>4

\* One list behind another is empty only if both are.
LEMMA ConcatNotEmpty ==
  ASSUME NEW s \in Seq(Buf \cup Dummies), NEW q \in Seq(Buf \cup Dummies)
  PROVE  s # <<>> \/ q # <<>> => s \o q # <<>>
<1>1. Len(s \o q) = Len(s) + Len(q) /\ Len(s) \in Nat /\ Len(q) \in Nat
  OBVIOUS
<1>2. (s # <<>> => Len(s) > 0) /\ (q # <<>> => Len(q) > 0) /\ Len(<<>>) = 0
  OBVIOUS
<1>3. QED
  BY <1>1, <1>2

\* What men_dma_queue_max does to the two lists.
LEMMA QueueMaxLists ==
  ASSUME NEW c \in Channel, NEW B, NEW h \in Heads, Placed(c, B, h)
  PROVE  /\ (QueueMax(c, h)).mode = c.mode
         /\ c.hot_list # <<>> => (QueueMax(c, h)).hot_list # <<>>
         /\ WantsDummy(c) => (QueueMax(c, h)).hot_list # <<>>
         /\ ~WantsDummy(c) /\ c.ready_list # <<>> /\ NumToQueue(c) > 0 => (QueueMax(c, h)).hot_list # <<>>
         /\ ~WantsDummy(c) /\ NumToQueue(c) = 0 => (QueueMax(c, h)).ready_list = c.ready_list
<1> DEFINE d == QueueMax(c, h)
           n == NumToQueue(c)
           q == Queued(c, h)
<1>1. /\ c.hot_list \in Seq(Buf \cup Dummies) /\ q \in Seq(Buf \cup Dummies) /\ c.ready_list \in Seq(Buf)
      /\ c.hot_count = Len(c.hot_list) /\ n \in Nat /\ n <= Len(c.ready_list)
  BY QueuedType, CountParts, NumToQueueExact DEF Placed, Holds
<1>2. d.hot_list = c.hot_list \o q
  BY QueueMaxPlaced
<1>3. d.mode = c.mode
  BY DEF QueueMax, Channel
<1>4. ASSUME WantsDummy(c) PROVE q # <<>>
  BY <1>4 DEF Queued
<1>5. ASSUME ~WantsDummy(c), c.ready_list # <<>>, n > 0 PROVE q # <<>>
  <2>1. q = FirstN(c.ready_list, n)
    BY <1>5 DEF Queued
  <2> HIDE DEF n, q
  <2>2. QED
    BY <1>1, <1>5, <2>1, SplitNotEmpty
<1>6. ASSUME ~WantsDummy(c), n = 0 PROVE d.ready_list = c.ready_list
  <2>1. d.ready_list = AfterN(c.ready_list, n)
    BY <1>6 DEF QueueMax, Channel
  <2>2. AfterN(c.ready_list, 0) = c.ready_list
    BY <1>1 DEF AfterN
  <2>3. QED
    BY <1>6, <2>1, <2>2
<1> HIDE DEF q, d, n
<1>7. c.hot_list # <<>> \/ q # <<>> => d.hot_list # <<>>
  BY <1>1, <1>2, ConcatNotEmpty
<1>8. QED
  BY <1>3, <1>4, <1>5, <1>6, <1>7 DEF d, n

\* Whenever frames are outstanding, men_dma_queue_max leaves the board fed ...
LEMMA QueueMaxFeeds ==
  ASSUME NEW c \in Channel, NEW B, NEW h \in Heads, Placed(c, B, h),
         c.transfer_todo > 0, Circulates(c)
  PROVE  Fed(QueueMax(c, h))
<1> DEFINE d == QueueMax(c, h)
<1>1. /\ d.mode = c.mode
      /\ c.hot_list # <<>> => d.hot_list # <<>>
      /\ WantsDummy(c) => d.hot_list # <<>>
      /\ ~WantsDummy(c) /\ c.ready_list # <<>> /\ NumToQueue(c) > 0 => d.hot_list # <<>>
      /\ ~WantsDummy(c) /\ NumToQueue(c) = 0 => d.ready_list = c.ready_list
  BY QueueMaxLists
<1>2. /\ c.hot_count = Len(c.hot_list) /\ c.ready_count = Len(c.ready_list) /\ c.hot_count <= FifoLength
      /\ c.ready_list \in Seq(Buf) /\ c.mode \in Modes
  BY CountParts DEF Placed, Holds
<1>3. /\ c.ready_list # <<>> => c.ready_count > 0
      /\ c.ready_list = <<>> => c.ready_count = 0
      /\ c.hot_list = <<>> => c.hot_count = 0
  BY <1>2
<1>4. NumToQueue(c) \in Nat /\ NumToQueue(c) <= c.ready_count
      /\ (c.transfer_todo > c.hot_count /\ c.hot_count = 0 /\ c.ready_count > 0 => NumToQueue(c) > 0)
  BY <1>2, NumToQueueExact
<1> HIDE DEF d
<1>5. CASE c.hot_list # <<>>
  BY <1>1, <1>5 DEF Fed, d
<1>6. CASE c.hot_list = <<>> /\ c.ready_list # <<>>
  <2>1. ~WantsDummy(c) /\ NumToQueue(c) > 0
    BY <1>3, <1>4, <1>6 DEF WantsDummy
  <2>2. QED
    BY <1>1, <1>6, <2>1 DEF Fed, d
<1>7. CASE c.hot_list = <<>> /\ c.ready_list = <<>>
  <2>1. CASE c.mode = "HANDSHAKE"
    <3>1. WantsDummy(c)
      BY <1>3, <1>7, <2>1 DEF WantsDummy
    <3>2. QED
      BY <1>1, <3>1 DEF Fed, d
  <2>2. CASE c.mode = "SELECTIVE"
    <3>1. ~WantsDummy(c)
      BY <2>2 DEF WantsDummy
    <3>2. NumToQueue(c) = 0
      BY <1>3, <1>4, <1>7
    <3>3. QED
      BY <1>1, <1>7, <2>2, <3>1, <3>2 DEF Fed, d
  <2>3. QED
    BY <1>2, <1>7, <2>1, <2>2 DEF Modes, Circulates
<1>8. QED
  BY <1>5, <1>6, <1>7

\* ... and it never loses a buffer.
LEMMA QueueMaxCirculates ==
  ASSUME NEW c \in Channel, NEW B, NEW h \in Heads, Placed(c, B, h), Circulates(c)
  PROVE  Circulates(QueueMax(c, h))
<1> DEFINE d == QueueMax(c, h)
<1>1. /\ d.mode = c.mode
      /\ c.hot_list # <<>> => d.hot_list # <<>>
      /\ WantsDummy(c) => d.hot_list # <<>>
      /\ ~WantsDummy(c) /\ c.ready_list # <<>> /\ NumToQueue(c) > 0 => d.hot_list # <<>>
      /\ ~WantsDummy(c) /\ NumToQueue(c) = 0 => d.ready_list = c.ready_list
  BY QueueMaxLists
<1>2. NumToQueue(c) \in Nat
  BY NumToQueueExact DEF Placed
<1> HIDE DEF d
<1>3. QED
  BY <1>1, <1>2 DEF Circulates, d

\* A filled buffer is ready again in the modes without handshake.
LEMMA MoveHotCirculates ==
  ASSUME NEW c \in Channel, NEW B, NEW h \in Heads, Placed(c, B, h), Runs(c), Circulates(c)
  PROVE  Circulates(MoveHot(c))
<1> DEFINE d == MoveHot(c)
           b == Head(c.hot_list)
           r == Received(c)
<1>0. c.hot_list \in Seq(Buf \cup Dummies) /\ c.hot_count = Len(c.hot_list) /\ d.mode = c.mode
  <2>1. c.hot_list \in Seq(Buf \cup Dummies) /\ c.hot_count = Len(c.hot_list)
    BY CountParts DEF Placed, Holds
  <2>2. QED
    BY <2>1, MoveHotRuns
<1>1. CASE c.hot_list = <<>>
  <2>1. d = [c EXCEPT !.lost_count = @ + 1]
    BY <1>0, <1>1 DEF MoveHot
  <2>2. QED
    BY <2>1 DEF Circulates, Channel
<1>2. CASE c.hot_list # <<>> /\ c.mode = "CONT"
  <2>1. c.hot_count # 0 /\ b \in Members(c.hot_list)
    BY <1>0, <1>2, HeadMember
  <2>2. b \in Buf /\ ~IsDummy(b)
    BY <1>2, <2>1, DummyNotBuf DEF Runs
  <2>3. d = Deliver(r, b)
    BY <1>2, <2>1, <2>2 DEF MoveHot
  <2>4. r \in Channel /\ r.mode = "CONT"
    BY <1>2, ReceivedType DEF Received, Channel
  <2> DEFINE e == [r EXCEPT !.goodcnt = @ + 1, !.frame_number[b] = r.latest_frame_number]
  <2> HIDE DEF r, b
  <2>5. d = AddReady(e, b)
    BY <2>3, <2>4 DEF Deliver
  <2>6. e.ready_list = r.ready_list /\ r.ready_list \in Seq(Buf)
    BY <2>4, CountParts DEF Channel
  <2>7. d.ready_list = Append(r.ready_list, b)
    BY <2>4, <2>5, <2>6 DEF AddReady, Channel
  <2>8. Append(r.ready_list, b) # <<>>
    BY <2>2, <2>6
  <2>9. QED
    BY <2>7, <2>8 DEF Circulates
<1>3. CASE c.mode # "CONT"
  BY <1>0, <1>3 DEF Circulates
<1>4. QED
  BY <1>1, <1>2, <1>3

\* men_unblock_buffer refills a board that is about to run dry.
LEMMA UnblockFed ==
  ASSUME NEW c \in Channel, NEW B, NEW h \in Heads, NEW b \in B, Placed(c, B, h), Circulates(c)
  PROVE  /\ Circulates(UnblockBuffer(c, b, h))
         /\ Fed(c) /\ c.transfer_todo > 0 => Fed(UnblockBuffer(c, b, h))
<1> DEFINE d == Unblocked(c, b)
<1>0. b \in Buf
  BY SlotsAreBufs DEF Placed
<1>1. d \in Channel /\ Placed(d, B, h) /\ Keeps(c, d)
  BY <1>0, UnblockedType, UnblockedPlaced, UnblockedKeeps
<1>2. d.ready_list = IF c.listname[b] \in {"GRABBED", "NO_LIST"} THEN Append(c.ready_list, b) ELSE c.ready_list
  BY <1>0, UnblockedKeeps
<1>3. c.ready_list \in Seq(Buf) /\ Append(c.ready_list, b) # <<>>
  <2>1. c.ready_list \in Seq(Buf)
    BY CountParts
  <2>2. QED
    BY <1>0, <2>1
<1>4. Circulates(d)
  BY <1>1, <1>2, <1>3 DEF Circulates, Keeps
<1>5. CASE RefillAfterUnblock(c, b)
  <2>1. UnblockBuffer(c, b, h) = QueueMax(d, h)
    BY <1>5 DEF UnblockBuffer
  <2> HIDE DEF d
  <2>2. c.transfer_todo > 0 => d.transfer_todo > 0
    BY <1>1 DEF Keeps
  <2>3. QED
    BY <1>1, <1>4, <2>1, <2>2, QueueMaxFeeds, QueueMaxCirculates
<1>6. CASE ~RefillAfterUnblock(c, b)
  <2>1. UnblockBuffer(c, b, h) = d
    BY <1>6 DEF UnblockBuffer
  <2>2. CASE c.listname[b] \notin {"GRABBED", "NO_LIST"}
    BY <1>1, <1>2, <1>4, <2>1, <2>2 DEF Fed, Keeps
  <2>3. CASE c.listname[b] \in {"GRABBED", "NO_LIST"}
    <3>1. d.ready_count = Len(d.ready_list) /\ d.ready_list \in Seq(Buf) /\ d.ready_list # <<>>
      BY <1>1, <1>2, <1>3, <2>3, CountParts DEF Placed, Holds
    <3> HIDE DEF d
    <3>2. d.ready_count > 0
      BY <3>1
    <3>3. ~(c.hot_count <= 1)
      BY <1>6, <2>3, <3>2 DEF RefillAfterUnblock, d
    <3>4. c.hot_list # <<>>
      BY <3>3 DEF Placed, Holds
    <3>5. QED
      BY <1>1, <1>4, <2>1, <3>4 DEF Fed, Keeps
  <2>4. QED
    BY <2>2, <2>3
<1>7. QED
  BY <1>5, <1>6
-----------------------------------------------------------------------------
(* The lists in every state of the channel.                                *)

\* Clients queue no buffer that another list holds (men_queue_buffer only warns).
Careful == "queue" \in ClientOps => ~QueueAnyList

\* men_queue_buffer while the acquisition runs, for a buffer outside the free list.
QueuesUnfree ==
  state = "STARTED" /\ \E b \in Buf : QueueBuffer(b) /\ b[1] \in linked /\ chan.listname[b] # "FREE"

\* The registered buffers of the head the channel works for.
Mine == {b \in bufs : b[1] = active}

\* No start is between men_clean_bh's first and last statement.
NoClean == \A t \in Threads : thr[t].pc # "clean"

\* men_queue_buffer on a channel that is not started marks a buffer READY without
\* moving it; only the next start puts the lists right.
Kept == state = "STARTED" \/ "queue" \notin ClientOps

\* The buffers men_clean_bh has put back so far.
Cleaned(t) == {b \in Mine : \E i \in 0 .. thr[t].idx - 1 : b[2] = (thr[t].slot + i) % NumSb}

\* A start has not begun its loop.
Unbegun(t) == thr[t].pc \in {"window", "relock", "locked", "begin"} => thr[t].idx = 0

\* What a start has done to the lists.
Cleaning(t) ==
  thr[t].pc = "clean" =>
    Placed(chan, Cleaned(t), active) /\ chan.hot_list = <<>> /\ chan.grabbed_list = <<>>

\* The inductive strengthening of ListsConsistent.
PlacedInv ==
  /\ active # NoHead /\ NoClean /\ Kept => Placed(chan, Mine, active)
  /\ state = "STARTED" => active # NoHead /\ NoClean
  /\ \A t \in Threads : Cleaning(t) /\ Unbegun(t)

\* A step that leaves the lists alone.
LEMMA PlacedUnchanged ==
  ASSUME PlacedInv, SameLists(chan, chan'), UNCHANGED <<active, bufs>>,
         state' = "STARTED" => state = "STARTED",
         \A t \in Threads : /\ thr'[t].pc = "clean" <=> thr[t].pc = "clean"
                            /\ thr[t].pc = "clean" => thr'[t] = thr[t],
         \A t \in Threads : Unbegun(t)'
  PROVE  PlacedInv'
<1>1. Mine' = Mine /\ (NoClean' <=> NoClean) /\ (Kept' => Kept)
  BY DEF Mine, NoClean, Kept
<1>2. active' # NoHead /\ NoClean' /\ Kept' => Placed(chan', Mine', active')
  BY <1>1, SameListsPlaced DEF PlacedInv
<1>3. state' = "STARTED" => active' # NoHead /\ NoClean'
  BY <1>1 DEF PlacedInv
<1>4. ASSUME NEW t \in Threads PROVE Cleaning(t)'
  <2> SUFFICES ASSUME thr'[t].pc = "clean" PROVE Cleaning(t)'
    BY DEF Cleaning
  <2>1. thr'[t] = thr[t] /\ thr[t].pc = "clean"
    OBVIOUS
  <2>2. Cleaned(t)' = Cleaned(t)
    BY <1>1, <2>1 DEF Cleaned
  <2>3. Placed(chan, Cleaned(t), active) /\ chan.hot_list = <<>> /\ chan.grabbed_list = <<>>
    BY <2>1 DEF PlacedInv, Cleaning
  <2>4. Placed(chan', Cleaned(t)', active')
    BY <2>2, <2>3, SameListsPlaced
  <2>5. QED
    BY <2>3, <2>4 DEF Cleaning, SameLists
<1>5. QED
  BY <1>2, <1>3, <1>4 DEF PlacedInv

\* A step during which nobody is starting.
LEMMA PlacedStep ==
  ASSUME NoClean', \A t \in Threads : Unbegun(t)',
         active' # NoHead /\ Kept' => Placed(chan', Mine', active'),
         state' = "STARTED" => active' # NoHead
  PROVE  PlacedInv'
BY DEF PlacedInv, NoClean, Cleaning

\* The remainder of a sum of two slot numbers.
LEMMA SlotSum ==
  ASSUME NEW n \in Nat \ {0}, NEW a \in 0 .. n - 1, NEW i \in 0 .. n - 1
  PROVE  (a + i) % n = IF a + i < n THEN a + i ELSE a + i - n
<1>1. CASE a + i < n
  <2>1. a + i \in 0 .. n - 1
    BY <1>1
  <2>2. PICK m \in Nat : n = m + 1
    <3>1. n - 1 \in Nat /\ n = (n - 1) + 1
      OBVIOUS
    <3>2. QED
      BY <3>1
  <2>3. QED
    BY <1>1, <2>1, <2>2, SmallRemainder
<1>2. CASE a + i >= n
  <2> DEFINE x == a + i
             q == x \div n
             r == x % n
  <2>1. x \in Nat /\ x >= n /\ x < n + n
    BY <1>2
  <2> HIDE DEF x
  <2>2. q \in Int /\ r \in 0 .. n - 1 /\ x = n * q + r
    BY <2>1
  <2> HIDE DEF q, r
  <2>3. q = 1
    <3>1. ASSUME q <= 0 PROVE FALSE
      <4>1. n * q <= 0
        BY <2>2, <3>1
      <4>2. QED
        BY <2>1, <2>2, <4>1
    <3>2. ASSUME q >= 2 PROVE FALSE
      <4>1. n * q >= n + n
        BY <2>2, <3>2
      <4>2. QED
        BY <2>1, <2>2, <4>1
    <3>3. QED
      BY <2>2, <3>1, <3>2
  <2>4. r = x - n
    BY <2>1, <2>2, <2>3
  <2>5. QED
    BY <1>2, <2>1, <2>4 DEF x, r
<1>3. QED
  BY <1>1, <1>2

\* The loop of men_clean_bh reaches every slot of the head, and none twice.
LEMMA SlotsVisited ==
  ASSUME NEW a \in Slots, NEW k \in 0 .. NumSb
  PROVE  /\ k < NumSb => /\ (a + k) % NumSb \in Slots
                         /\ \A i \in 0 .. k - 1 : (a + i) % NumSb # (a + k) % NumSb
         /\ k = NumSb => \A s \in Slots : \E i \in 0 .. k - 1 : s = (a + i) % NumSb
<1> DEFINE n == NumSb
<1>0. n \in Nat \ {0} /\ a \in 0 .. n - 1 /\ k \in 0 .. n /\ Slots = 0 .. n - 1
  BY NumSbAssumption DEF Slots
<1>1. \A i \in 0 .. n - 1 : (a + i) % n = IF a + i < n THEN a + i ELSE a + i - n
  BY <1>0, SlotSum
<1> HIDE DEF n
<1>2. ASSUME k < n
      PROVE  /\ (a + k) % n \in Slots
             /\ \A i \in 0 .. k - 1 : (a + i) % n # (a + k) % n
  <2>1. k \in 0 .. n - 1 /\ \A i \in 0 .. k - 1 : i \in 0 .. n - 1 /\ i # k
    BY <1>0, <1>2
  <2>2. (a + k) % n \in Slots
    BY <1>0, <1>1, <2>1
  <2>3. ASSUME NEW i \in 0 .. k - 1 PROVE (a + i) % n # (a + k) % n
    BY <1>0, <1>1, <2>1
  <2>4. QED
    BY <2>2, <2>3
<1>3. ASSUME k = n, NEW s \in Slots PROVE \E i \in 0 .. k - 1 : s = (a + i) % n
  <2>1. CASE s >= a
    <3>1. s - a \in 0 .. n - 1 /\ (a + (s - a)) % n = s
      BY <1>0, <1>1, <2>1
    <3>2. QED
      BY <1>3, <3>1
  <2>2. CASE s < a
    <3>1. s - a + n \in 0 .. n - 1 /\ (a + (s - a + n)) % n = s
      BY <1>0, <1>1, <2>2
    <3>2. QED
      BY <1>3, <3>1
  <2>3. QED
    BY <1>0, <2>1, <2>2
<1>4. QED
  BY <1>2, <1>3 DEF n

\* Buffers of the channel's head.
LEMMA MineSlots ==
  ASSUME TypeOK
  PROVE  Mine \subseteq SlotsOf(active) /\ Mine \subseteq Buf
         /\ \A b \in Buf : b \in Mine <=> b \in bufs /\ b[1] = active
BY DEF TypeOK, Mine, SlotsOf, Buf

\* men_dma_clean_sync leaves the lists as they were handed to it.
LEMMA CleanSyncLists ==
  ASSUME NEW c \in Channel, CleanSync(c)
  PROVE  SameLists(c, chan') /\ state' # "STARTED" /\ chan'.wild = c.wild
<1>1. chan' \in {c, [c EXCEPT !.transfer_todo = 0]}
  BY DEF CleanSync
<1>2. SameLists(c, chan') /\ chan'.wild = c.wild
  BY <1>1 DEF SameLists, Channel
<1>3. QED
  BY <1>2, CleanSyncNotStarted

\* Storing the request leaves the lists alone.
LEMMA StoreRequestLists ==
  ASSUME chan \in Channel, NEW t
  PROVE  SameLists(chan, StoreRequest(t)) /\ (StoreRequest(t)).wild = chan.wild
BY DEF StoreRequest, SameLists, Channel

\* men_stop_dma_locked only ends the count of frames.
LEMMA StopLockedLists ==
  ASSUME chan \in Channel, StopLocked
  PROVE  SameLists(chan, chan') /\ chan'.wild = chan.wild
<1>1. chan' \in {chan, [chan EXCEPT !.transfer_todo = 0]}
  BY DEF StopLocked
<1>2. QED
  BY <1>1 DEF SameLists, Channel

\* At the end of the loop of men_clean_bh all buffers of the head are back.
LEMMA AllCleaned ==
  ASSUME IInv, PlacedInv, NEW t \in Threads, thr[t].pc = "clean", thr[t].idx = NumSb
  PROVE  Cleaned(t) = Mine /\ Placed(chan, Mine, active) /\ chan.hot_list = <<>> /\ active \in Heads
<1>1. thr[t] \in Thread /\ TypeOK /\ thr[t].slot \in Slots /\ thr[t].idx \in 0 .. NumSb
  BY DEF IInv, TypeOK, Thread
<1>2. \A s \in Slots : \E i \in 0 .. thr[t].idx - 1 : s = (thr[t].slot + i) % NumSb
  BY <1>1, SlotsVisited
<1>3. \A b \in Mine : b[2] \in Slots
  BY <1>1 DEF TypeOK, Mine, Buf
<1>4. Cleaned(t) = Mine
  BY <1>2, <1>3 DEF Cleaned
<1>5. active \in Heads
  BY DEF IInv, ThreadInv, Starting
<1>6. QED
  BY <1>4, <1>5 DEF PlacedInv, Cleaning

\* One iteration puts one more buffer back.
LEMMA StartCleanBufferPlaced ==
  ASSUME IInv, PlacedInv, NEW t \in Threads, StartCleanBuffer(t)
  PROVE  PlacedInv'
<1> DEFINE k == (thr[t].slot + thr[t].idx) % NumSb
           b == <<active, k>>
<1>1. /\ thr \in [Threads -> Thread] /\ TypeOK /\ thr[t] \in Thread /\ thr[t].slot \in Slots
      /\ thr[t].idx \in 0 .. NumSb /\ chan \in Channel
  BY DEF IInv, TypeOK, Thread
<1>2. /\ thr[t].pc = "clean" /\ thr[t].idx < NumSb /\ UNCHANGED <<state, active, bufs>>
      /\ chan' = IF b \in bufs THEN CleanBuffer(chan, b) ELSE chan
      /\ thr' = [thr EXCEPT ![t].idx = @ + 1]
  BY DEF StartCleanBuffer, memVars
<1>3. thr'[t] = [thr[t] EXCEPT !.idx = thr[t].idx + 1] /\ \A u \in Threads : u # t => thr'[u] = thr[u]
  BY <1>1, <1>2
<1>4. thr'[t].pc = "clean" /\ thr'[t].slot = thr[t].slot /\ thr'[t].idx = thr[t].idx + 1
  BY <1>1, <1>2, <1>3 DEF Thread
<1>5. active \in Heads /\ \A u \in Threads : u # t => thr[u].pc # "clean"
  BY <1>2 DEF IInv, ThreadInv, Starting, LockInv, HoldsBh
<1>6. k \in Slots /\ \A i \in 0 .. thr[t].idx - 1 : (thr[t].slot + i) % NumSb # k
  BY <1>1, <1>2, SlotsVisited
<1> HIDE DEF k
<1>7. b \in SlotsOf(active) /\ b \in Buf /\ b \notin Cleaned(t)
  BY <1>5, <1>6 DEF SlotsOf, Buf, Cleaned
<1>8. Cleaned(t)' = Cleaned(t) \cup (IF b \in bufs THEN {b} ELSE {})
  <2>1. Mine' = Mine
    BY <1>2 DEF Mine
  <2>2. \A i : i \in 0 .. thr'[t].idx - 1 <=> i \in 0 .. thr[t].idx - 1 \/ i = thr[t].idx
    BY <1>1, <1>4
  <2>3. Cleaned(t)' = {x \in Mine : \E i \in 0 .. thr'[t].idx - 1 : x[2] = (thr[t].slot + i) % NumSb}
    BY <1>4, <2>1 DEF Cleaned
  <2>4. \A x \in Mine : (\E i \in 0 .. thr'[t].idx - 1 : x[2] = (thr[t].slot + i) % NumSb)
                         <=> (x \in Cleaned(t) \/ x[2] = k)
    BY <2>2 DEF Cleaned, k
  <2>5. \A x \in Mine : x[2] = k <=> x = b
    BY <1>1 DEF Mine, TypeOK, Buf
  <2>6. b \in Mine <=> b \in bufs
    BY DEF Mine
  <2>7. Cleaned(t) \subseteq Mine
    BY DEF Cleaned
  <2> HIDE DEF b
  <2>8. QED
    BY <2>3, <2>4, <2>5, <2>6, <2>7
<1>9. Placed(chan, Cleaned(t), active) /\ chan.hot_list = <<>> /\ chan.grabbed_list = <<>>
  BY <1>2 DEF PlacedInv, Cleaning
<1> HIDE DEF b
<1>10. Placed(chan', Cleaned(t)', active')
  <2>1. CASE b \in bufs
    BY <1>1, <1>2, <1>5, <1>7, <1>8, <1>9, <2>1, CleanBufferPlaced
  <2>2. CASE b \notin bufs
    BY <1>2, <1>8, <1>9, <2>2
  <2>3. QED
    BY <2>1, <2>2
<1>11. chan'.hot_list = <<>> /\ chan'.grabbed_list = <<>>
  <2>1. /\ (CleanBuffer(chan, b)).hot_list = chan.hot_list
        /\ (CleanBuffer(chan, b)).grabbed_list = chan.grabbed_list
    BY <1>1 DEF CleanBuffer, AddReady, AddFree, Channel
  <2>2. QED
    BY <1>2, <1>9, <2>1
<1>12. ASSUME NEW u \in Threads PROVE Cleaning(u)' /\ Unbegun(u)'
  <2>1. CASE u = t
    BY <1>4, <1>10, <1>11, <2>1 DEF Cleaning, Unbegun
  <2>2. CASE u # t
    BY <1>3, <1>5, <2>2 DEF Cleaning, Unbegun, PlacedInv
  <2>3. QED
    BY <2>1, <2>2
<1>13. ~NoClean' /\ state' # "STARTED"
  <2>1. ~NoClean /\ ~NoClean'
    BY <1>2, <1>4 DEF NoClean
  <2>2. QED
    BY <1>2, <2>1 DEF PlacedInv
<1>14. QED
  BY <1>12, <1>13 DEF PlacedInv

\* A start: the lists are rebuilt from the registered buffers of the head, whatever
\* an earlier acquisition left of them.
LEMMA StartPlaced ==
  ASSUME IInv, PlacedInv, NEW t \in Threads, StartNext(t)
  PROVE  PlacedInv'
<1> USE DEF timerVars, memVars, hwVars, lifeVars
<1>0. /\ thr \in [Threads -> Thread] /\ IdleThread.pc = "idle" /\ chan \in Channel /\ thr[t] \in Thread
      /\ \A u \in Threads : Unbegun(u)
  BY DEF IInv, TypeOK, IdleThread, PlacedInv
<1>00. HoldsBh(t) => \A u \in Threads : u # t => thr[u].pc # "clean"
  BY DEF IInv, LockInv, HoldsBh
<1>000. SameLists(chan, chan)
  BY DEF SameLists
<1>1. CASE \E b \in Buf, n \in Todos, m \in StartModes, tmo \in Timeouts : StartCheck(t, b, n, m, tmo)
  <2>1. UNCHANGED <<chan, state, active, bufs>> /\ \A u \in Threads : u # t => thr'[u] = thr[u]
    BY <1>0, <1>1 DEF StartCheck
  <2>2. thr[t].pc = "idle" /\ thr'[t].pc # "clean" /\ thr'[t].idx = 0
    BY <1>0, <1>1 DEF StartCheck
  <2>3. \A u \in Threads : Unbegun(u)'
    BY <1>0, <2>1, <2>2 DEF Unbegun
  <2>4. QED
    BY <1>000, <2>1, <2>2, <2>3, PlacedUnchanged
<1>2. CASE StartCancelWork(t) \/ StartHeadGone(t) \/ StartLock(t)
  <2>1. UNCHANGED <<chan, state, active, bufs>> /\ \A u \in Threads : u # t => thr'[u] = thr[u]
    BY <1>0, <1>2 DEF StartCancelWork, StartHeadGone, StartLock
  <2>2. thr[t].pc \in {"window", "relock", "locked"} /\ thr'[t].pc # "clean" /\ (thr'[t].idx = thr[t].idx \/ thr'[t].pc = "idle")
    BY <1>0, <1>2 DEF StartCancelWork, StartHeadGone, StartLock, Thread
  <2>3. \A u \in Threads : Unbegun(u)'
    BY <1>0, <2>1, <2>2 DEF Unbegun
  <2>4. QED
    BY <1>000, <2>1, <2>2, <2>3, PlacedUnchanged
<1>3. CASE StartRelock(t)
  <2>1. UNCHANGED <<active, bufs>> /\ \A u \in Threads : u # t => thr'[u] = thr[u]
    BY <1>0, <1>3 DEF StartRelock
  <2>2. thr[t].pc = "relock" /\ thr'[t].pc # "clean" /\ (thr'[t].idx = thr[t].idx \/ thr'[t].pc = "idle")
    BY <1>0, <1>3 DEF StartRelock, Thread
  <2>3. \A u \in Threads : Unbegun(u)'
    BY <1>0, <2>1, <2>2 DEF Unbegun
  <2>4. SameLists(chan, chan') /\ (state' # "STARTED" \/ state' = state)
    BY <1>0, <1>000, <1>3, CleanSyncLists DEF StartRelock
  <2>5. QED
    BY <2>1, <2>2, <2>3, <2>4, PlacedUnchanged
<1>4. CASE StartBusy(t)
  <2>1. UNCHANGED <<active, bufs>> /\ \A u \in Threads : u # t => thr'[u] = thr[u]
    BY <1>0, <1>4 DEF StartBusy
  <2>2. thr[t].pc = "begin" /\ thr'[t].pc = "idle"
    BY <1>0, <1>4 DEF StartBusy
  <2>3. \A u \in Threads : Unbegun(u)'
    BY <1>0, <2>1, <2>2 DEF Unbegun
  <2>4. SameLists(chan, chan') /\ state' # "STARTED"
    <3>1. StoreRequest(t) \in Channel /\ CleanSync(StoreRequest(t))
      BY <1>4, StoreRequestType DEF StartBusy
    <3>2. QED
      BY <1>0, <3>1, CleanSyncLists, StoreRequestLists DEF SameLists
  <2>5. QED
    BY <2>1, <2>2, <2>3, <2>4, PlacedUnchanged
<1>5. CASE StartBegin(t)
  <2>1. StoreRequest(t) \in Channel /\ chan' = ClearLists(StoreRequest(t)) /\ state' = "STARTING"
    BY <1>5, StoreRequestType DEF StartBegin
  <2>2. Placed(chan', {}, active') /\ chan'.hot_list = <<>> /\ chan'.grabbed_list = <<>>
    <3>1. chan'.hot_list = <<>> /\ chan'.grabbed_list = <<>>
      BY <2>1 DEF ClearLists, Channel
    <3>2. QED
      BY <2>1, <3>1, ClearListsPlaced
  <2>3. thr[t].pc = "begin" /\ thr'[t].pc = "clean" /\ thr'[t].idx = thr[t].idx /\ \A u \in Threads : u # t => thr'[u] = thr[u]
    BY <1>0, <1>5 DEF StartBegin, Thread
  <2>4. thr'[t].idx = 0
    BY <1>0, <2>3 DEF Unbegun
  <2>5. Cleaned(t)' = {}
    BY <2>4 DEF Cleaned
  <2>6. ASSUME NEW u \in Threads PROVE Cleaning(u)' /\ Unbegun(u)'
    <3>1. CASE u = t
      BY <2>2, <2>3, <2>5, <3>1 DEF Cleaning, Unbegun
    <3>2. CASE u # t
      BY <1>0, <1>00, <2>3, <3>2 DEF Cleaning, Unbegun, HoldsBh
    <3>3. QED
      BY <3>1, <3>2
  <2>7. ~NoClean'
    BY <2>3 DEF NoClean
  <2>8. QED
    BY <2>1, <2>6, <2>7 DEF PlacedInv
<1>6. CASE StartCleanBuffer(t)
  BY <1>6, StartCleanBufferPlaced
<1>7. CASE StartFails(t) \/ StartSucceeds(t)
  <2>1. /\ thr[t].pc = "clean" /\ thr[t].idx = NumSb /\ UNCHANGED <<active, bufs>>
        /\ thr'[t].pc = "idle" /\ \A u \in Threads : u # t => thr'[u] = thr[u]
    BY <1>0, <1>7 DEF StartFails, StartSucceeds
  <2>2. NoClean' /\ \A u \in Threads : Unbegun(u)'
    BY <1>0, <1>00, <2>1 DEF NoClean, Unbegun, HoldsBh
  <2>3. Placed(chan, Mine, active) /\ active \in Heads
    BY <2>1, AllCleaned
  <2>4. QueueMax(chan, active) \in Channel /\ Placed(QueueMax(chan, active), Mine, active)
    BY <1>0, <2>3, QueueMaxType, QueueMaxPlaced
  <2> DEFINE q == QueueMax(chan, active)
  <2>5. SameLists(chan, chan') \/ SameLists(q, chan')
    <3>1. CleanSync(chan) \/ CleanSync(q) \/ chan' = q
      BY <1>7 DEF StartFails, StartSucceeds
    <3> HIDE DEF q
    <3>2. q \in Channel /\ SameLists(q, q)
      BY <2>4 DEF q, SameLists
    <3>3. QED
      BY <1>0, <3>1, <3>2, CleanSyncLists
  <2> HIDE DEF q
  <2>6. Placed(chan', Mine', active')
    <3>1. Mine' = Mine
      BY <2>1 DEF Mine
    <3>2. Placed(q, Mine, active)
      BY <2>4 DEF q
    <3>3. QED
      BY <2>1, <2>3, <2>5, <3>1, <3>2, SameListsPlaced
  <2>7. active' # NoHead
    BY <2>1, <2>3, ChannelAssumption
  <2>8. QED
    BY <2>2, <2>6, <2>7, PlacedStep
<1>9. QED
  BY <1>1, <1>2, <1>3, <1>4, <1>5, <1>6, <1>7 DEF StartNext

\* men_unblock_buffer, with or without a refill of the board.
LEMMA UnblockPlaced ==
  ASSUME NEW c \in Channel, NEW B, NEW h \in Heads, NEW b \in B, Placed(c, B, h)
  PROVE  /\ Placed(UnblockBuffer(c, b, h), B, h)
         /\ (UnblockBuffer(c, b, h)).wild = c.wild
         /\ (UnblockBuffer(c, b, h)).hot_list = c.hot_list \o UnblockQueues(c, b, h)
<1> DEFINE d == Unblocked(c, b)
<1>0. b \in Buf /\ c.hot_list \in Seq(Buf \cup Dummies)
  BY SlotsAreBufs, CountParts DEF Placed
<1>1. d \in Channel /\ Placed(d, B, h) /\ d.hot_list = c.hot_list
  BY <1>0, UnblockedType, UnblockedPlaced, UnblockedKeeps DEF Keeps
<1>2. d.wild = c.wild
  BY DEF Unblocked, AddReady, Channel
<1>3. CASE RefillAfterUnblock(c, b)
  <2>1. UnblockBuffer(c, b, h) = QueueMax(d, h) /\ UnblockQueues(c, b, h) = Queued(d, h)
    BY <1>3 DEF UnblockBuffer, UnblockQueues
  <2> HIDE DEF d
  <2>2. QED
    BY <1>1, <1>2, <2>1, QueueMaxPlaced
<1>4. CASE ~RefillAfterUnblock(c, b)
  <2>1. UnblockBuffer(c, b, h) = d /\ UnblockQueues(c, b, h) = <<>>
    BY <1>4 DEF UnblockBuffer, UnblockQueues
  <2> HIDE DEF d
  <2>2. c.hot_list \o <<>> = c.hot_list
    BY <1>0
  <2>3. QED
    BY <1>1, <1>2, <2>1, <2>2
<1>5. QED
  BY <1>3, <1>4

\* While nobody starts, a head that is linked is the one the channel works for.
LEMMA LinkedIsActive ==
  ASSUME IInv
  PROVE  /\ \A h \in linked : h = active /\ active \in Heads /\ active # NoHead
         /\ NoClean /\ active # NoHead => active \in linked /\ active \in Heads
BY ChannelAssumption DEF IInv, LinkConsistent, TypeOK, NoClean

\* Unlocking all buffers, closing.
LEMMA ThreadPlaced ==
  ASSUME IInv, PlacedInv, NEW t \in Threads, ThreadNext(t)
  PROVE  PlacedInv'
<1> USE DEF timerVars, memVars, hwVars, lifeVars
<1>0. /\ thr \in [Threads -> Thread] /\ IdleThread.pc = "idle" /\ chan \in Channel /\ thr[t] \in Thread
      /\ (\A u \in Threads : Unbegun(u)) /\ TypeOK
  BY DEF IInv, TypeOK, IdleThread, PlacedInv
<1>000. SameLists(chan, chan)
  BY DEF SameLists
<1>1. CASE StartNext(t)
  BY <1>1, StartPlaced
<1>2. CASE (\E h \in Heads : UnlockAllBegin(t, h)) \/ UnlockAllEnd(t)
  <2>1. /\ UNCHANGED <<chan, state, active, bufs>> /\ \A u \in Threads : u # t => thr'[u] = thr[u]
        /\ thr[t].pc # "clean" /\ thr'[t].pc \in {"idle", "unlock"}
    BY <1>0, <1>2 DEF UnlockAllBegin, UnlockAllEnd, IdleThread
  <2>2. \A u \in Threads : Unbegun(u)'
    BY <1>0, <2>1 DEF Unbegun
  <2>3. QED
    BY <1>000, <2>1, <2>2, PlacedUnchanged
<1>3. CASE UnlockAllStep(t)
  <2> DEFINE b == <<thr[t].head, thr[t].idx>>
  <2>1. NoClean
    BY <1>3 DEF UnlockAllStep, IInv, LockInv, HoldsBh, NoClean
  <2>2. /\ \A u \in Threads : u # t => thr'[u] = thr[u]
        /\ thr[t].pc = "unlock" /\ thr'[t].pc = "unlock" /\ UNCHANGED <<state, active, bufs>>
    BY <1>0, <1>3 DEF UnlockAllStep, Thread
  <2>3. NoClean' /\ \A u \in Threads : Unbegun(u)'
    BY <1>0, <2>1, <2>2 DEF NoClean, Unbegun
  <2>4. IF b \in bufs THEN Unblock(b) ELSE chan' = chan
    BY <1>3 DEF UnlockAllStep
  <2>5. active \in Heads /\ active # NoHead /\ (b \in bufs => b \in Mine)
    <3>1. thr[t].head \in linked
      BY <2>2 DEF IInv, ThreadInv
    <3>2. QED
      BY <3>1, LinkedIsActive DEF Mine
  <2>6. Mine' = Mine /\ (Kept' <=> Kept)
    BY <2>2 DEF Mine, Kept
  <2> HIDE DEF b
  <2>7. Kept => Placed(chan, Mine, active)
    BY <2>1, <2>5 DEF PlacedInv
  <2>8. Kept => Placed(chan', Mine, active)
    BY <1>0, <2>4, <2>5, <2>7, UnblockPlaced DEF Unblock
  <2>9. QED
    BY <2>2, <2>3, <2>5, <2>6, <2>8, PlacedStep
<1>4. CASE CloseChannels(t)
  <2>1. /\ \A u \in Threads : u # t => thr'[u] = thr[u]
        /\ thr[t].pc = "idle" /\ thr'[t].pc = "close" /\ UNCHANGED <<active, bufs>>
    BY <1>0, <1>4 DEF CloseChannels, Thread
  <2>2. \A u \in Threads : Unbegun(u)'
    BY <1>0, <2>1 DEF Unbegun
  <2>3. SameLists(chan, chan') /\ (state' = "STARTED" => state = "STARTED")
    BY <1>0, <1>000, <1>4, StopLockedLists DEF CloseChannels, StopLocked
  <2>4. QED
    BY <2>1, <2>2, <2>3, PlacedUnchanged
<1>5. CASE CloseMem(t)
  <2>1. /\ \A u \in Threads : u # t => thr'[u] = thr[u]
        /\ thr[t].pc = "close" /\ thr'[t].pc = "idle" /\ UNCHANGED <<chan, state>>
    BY <1>0, <1>5 DEF CloseMem
  <2>2. NoClean
    BY <2>1 DEF NoClean, IInv, LockInv, HoldsBh
  <2>3. NoClean' /\ \A u \in Threads : Unbegun(u)'
    BY <1>0, <2>1, <2>2 DEF NoClean, Unbegun
  <2>4. active # NoHead => linked \cap heads # {} /\ state # "STARTED"
    <3>1. active # NoHead => active \in linked /\ active \in heads
      BY <2>2, LinkedIsActive DEF IInv, LinkConsistent
    <3>2. linked # {} => ChanFree
      BY <1>5 DEF CloseMem
    <3>3. ChanFree => state # "STARTED"
      BY <2>1 DEF IInv, ThreadInv, ChanFree
    <3>4. QED
      BY <3>1, <3>2, <3>3
  <2>5. active' = NoHead /\ state # "STARTED"
    <3>1. active' = IF linked \cap heads # {} /\ state # "STARTED" THEN NoHead ELSE active
      BY <1>5 DEF CloseMem, ReleaseHeads
    <3>2. state = "STARTED" => active # NoHead
      BY DEF PlacedInv
    <3>3. QED
      BY <2>4, <3>1, <3>2
  <2>6. QED
    BY <2>1, <2>3, <2>5, PlacedStep
<1>6. QED
  BY <1>1, <1>2, <1>3, <1>4, <1>5 DEF ThreadNext

\* The interrupt handler books frames and refills the board.
LEMMA IrqPlaced ==
  ASSUME IInv, PlacedInv, IrqNext
  PROVE  PlacedInv'
<1> USE DEF timerVars, memVars, hwVars, lifeVars
<1>0. chan \in Channel /\ irq \in Irq /\ TypeOK /\ \A u \in Threads : Unbegun(u)
  BY DEF IInv, TypeOK, PlacedInv
<1>00. UNCHANGED <<active, bufs, thr>>
  BY DEF IrqNext, IrqEnter, IrqRead, IrqOverflow, IrqLock, IrqFrame, IrqFinish
<1>000. \A u \in Threads : Unbegun(u)'
  BY <1>0, <1>00 DEF Unbegun
<1>1. CASE IrqEnter \/ IrqRead \/ IrqOverflow \/ IrqLock
  <2>1. UNCHANGED state
    BY <1>1 DEF IrqEnter, IrqRead, IrqOverflow, IrqLock
  <2>2. chan' \in {chan, [chan EXCEPT !.lost_count = @ + 1], [chan EXCEPT !.lost_count = @ + Len(irq.got)]}
    BY <1>1 DEF IrqEnter, IrqRead, IrqOverflow, IrqLock
  <2>3. SameLists(chan, chan')
    BY <1>0, <2>2 DEF Channel, SameLists
  <2>4. QED
    BY <1>00, <1>000, <2>1, <2>3, PlacedUnchanged
<1>2. CASE IrqFrame \/ IrqFinish
  <2>1. NoClean /\ NoClean' /\ irq.pc = "frames"
    BY <1>00, <1>2, ListFreeNoClean DEF IrqFrame, IrqFinish, NoClean
  <2>2. active \in Heads /\ active # NoHead
    BY <2>1, LinkedIsActive DEF IInv, ChanInv
  <2>3. chan' \in {chan, MoveHot(chan), QueueMax(chan, active)}
    BY <1>2 DEF IrqFrame, IrqFinish
  <2>4. state' = "STARTED" => state = "STARTED"
    BY <1>2 DEF IrqFrame, IrqFinish
  <2>5. Kept' => Placed(chan, Mine, active)
    BY <2>1, <2>2, <2>4 DEF PlacedInv, Kept
  <2>6. Kept' => Placed(chan', Mine, active)
    BY <1>0, <2>2, <2>3, <2>5, MoveHotPlaced, QueueMaxPlaced
  <2>7. Mine' = Mine
    BY <1>00 DEF Mine
  <2>8. QED
    BY <1>00, <1>000, <2>1, <2>2, <2>6, <2>7, PlacedStep
<1>3. QED
  BY <1>1, <1>2 DEF IrqNext

\* A new buffer joins the free list of the channel its head is linked to.
LEMMA CreateUserbufPlaced ==
  ASSUME IInv, PlacedInv, NEW b \in Buf, CreateUserbuf(b)
  PROVE  PlacedInv'
<1> USE DEF timerVars, memVars, hwVars, lifeVars
<1> DEFINE names   == [chan.listname EXCEPT ![b] = "FREE"]
           numbers == [chan.frame_number EXCEPT ![b] = 0]
           c       == [chan EXCEPT !.listname = names, !.frame_number = numbers]
<1>1. chan \in Channel /\ TypeOK /\ UNCHANGED <<state, active, thr>> /\ NoClean /\ b \notin bufs
      /\ bufs' = bufs \cup {b} /\ \A u \in Threads : Unbegun(u)
  BY DEF IInv, TypeOK, CreateUserbuf, BhFree, HoldsBh, NoClean, PlacedInv
<1>2. names \in [Buf -> ListNames] /\ numbers \in [Buf -> Nat]
  BY <1>1, ChannelParts DEF ListNames
<1>3. chan' = IF b[1] \in linked THEN AddFree(c, b) ELSE c
  BY DEF CreateUserbuf
<1>4. SameLists([chan EXCEPT !.listname = names], c)
  BY <1>1 DEF SameLists, Channel
<1> HIDE DEF numbers
<1>5. c \in Channel
  <2> HIDE DEF names
  <2>1. QED
    BY <1>1, <1>2 DEF Channel
<1>6. b \notin Mine /\ Mine' = Mine \cup (IF b[1] = active THEN {b} ELSE {})
  BY <1>1 DEF Mine
<1> HIDE DEF c
<1>7. ASSUME active' # NoHead, Kept' PROVE Placed(chan', Mine', active')
  <2>1. active \in linked /\ active \in Heads /\ Placed(chan, Mine, active)
    BY <1>1, <1>7, LinkedIsActive DEF PlacedInv, Kept
  <2>2. Placed(c, Mine, active)
    BY <1>1, <1>4, <1>6, <2>1, ForeignPlaced
  <2>3. CASE b[1] = active
    <3>1. b \in SlotsOf(active)
      BY <2>3 DEF SlotsOf, Buf
    <3>2. Placed(AddFree(c, b), Mine \cup {b}, active)
      BY <1>5, <1>6, <2>1, <2>2, <3>1, AddFreePlaced
    <3>3. QED
      BY <1>1, <1>3, <1>6, <2>1, <2>3, <3>2
  <2>4. CASE b[1] # active
    <3>1. b[1] \notin linked
      BY <2>4, LinkedIsActive
    <3>2. Mine' = Mine
      BY <1>6, <2>4
    <3>3. QED
      BY <1>1, <1>3, <2>2, <3>1, <3>2
  <2>5. QED
    BY <2>3, <2>4
<1>8. NoClean' /\ \A u \in Threads : Unbegun(u)'
  BY <1>1 DEF NoClean, Unbegun
<1>9. state' = "STARTED" => active' # NoHead
  BY <1>1 DEF PlacedInv
<1>10. QED
  BY <1>7, <1>8, <1>9, PlacedStep

\* A buffer that is freed leaves the list it is in.
LEMMA FreeUserbufPlaced ==
  ASSUME IInv, PlacedInv, NEW b \in Buf, FreeUserbuf(b)
  PROVE  PlacedInv'
<1> USE DEF timerVars, memVars, hwVars, lifeVars
<1>1. chan \in Channel /\ TypeOK /\ UNCHANGED <<state, active, thr>> /\ NoClean /\ b \in bufs
      /\ bufs' = bufs \ {b} /\ \A u \in Threads : Unbegun(u)
  BY DEF IInv, TypeOK, FreeUserbuf, BhFree, HoldsBh, NoClean, PlacedInv
<1>2. chan' = IF b[1] \in linked THEN RemoveBuffer(chan, b) ELSE chan
  BY DEF FreeUserbuf
<1>3. ASSUME active' # NoHead, Kept' PROVE Placed(chan', Mine', active')
  <2>1. active \in linked /\ active \in Heads /\ Placed(chan, Mine, active)
    BY <1>1, <1>3, LinkedIsActive DEF PlacedInv, Kept
  <2>2. CASE b[1] = active
    <3>1. b \in Mine /\ Mine' = Mine \ {b}
      BY <1>1, <2>2 DEF Mine
    <3>2. QED
      BY <1>1, <1>2, <2>1, <2>2, <3>1, RemoveBufferPlaced
  <2>3. CASE b[1] # active
    <3>1. b[1] \notin linked /\ Mine' = Mine
      BY <1>1, <2>3, LinkedIsActive DEF Mine
    <3>2. QED
      BY <1>1, <1>2, <2>1, <3>1
  <2>4. QED
    BY <2>2, <2>3
<1>4. NoClean' /\ \A u \in Threads : Unbegun(u)'
  BY <1>1 DEF NoClean, Unbegun
<1>5. state' = "STARTED" => active' # NoHead
  BY <1>1 DEF PlacedInv
<1>6. QED
  BY <1>3, <1>4, <1>5, PlacedStep

\* A buffer is queued.
LEMMA QueueBufferPlaced ==
  ASSUME IInv, PlacedInv, NEW b \in Buf, QueueBuffer(b),
         state = "STARTED" /\ b[1] \in linked => chan.listname[b] = "FREE"
  PROVE  PlacedInv'
<1> USE DEF timerVars, memVars, hwVars, lifeVars
<1>1. chan \in Channel /\ TypeOK /\ UNCHANGED <<state, active, thr, bufs>> /\ NoClean /\ b \in bufs
      /\ \A u \in Threads : Unbegun(u)
  BY DEF IInv, TypeOK, QueueBuffer, BhFree, HoldsBh, NoClean, PlacedInv
<1>2. "queue" \in ClientOps
  BY DEF QueueBuffer
<1>3. ASSUME active' # NoHead, Kept' PROVE Placed(chan', Mine', active')
  <2>1. state = "STARTED" /\ Mine' = Mine
    BY <1>1, <1>2, <1>3 DEF Kept, Mine
  <2>2. active \in linked /\ active \in Heads /\ Placed(chan, Mine, active)
    BY <1>1, <1>3, <2>1, LinkedIsActive DEF PlacedInv, Kept
  <2>3. CASE b[1] \notin linked
    <3> DEFINE names == [chan.listname EXCEPT ![b] = "READY"]
    <3>1. chan' = [chan EXCEPT !.listname = names] /\ b \notin Mine
      BY <2>2, <2>3 DEF QueueBuffer, Mine
    <3>2. SameLists([chan EXCEPT !.listname = names], chan')
      BY <3>1 DEF SameLists
    <3>3. Placed(chan', Mine, active)
      BY <1>1, <2>2, <3>1, <3>2, ForeignPlaced
    <3>4. QED
      BY <1>1, <2>1, <3>3
  <2>4. CASE b[1] \in linked
    <3> DEFINE c == MoveToReady(chan, b)
    <3>1. b \in Mine
      BY <1>1, <2>4, LinkedIsActive DEF Mine
    <3>2. chan' = QueueMax(c, active)
      BY <2>1, <2>4 DEF QueueBuffer
    <3>3. c \in Channel /\ Placed(c, Mine, active)
      BY <1>1, <2>1, <2>2, <2>4, <3>1, MoveToReadyType, MoveToReadyPlaced
    <3> HIDE DEF c
    <3>4. Placed(QueueMax(c, active), Mine, active)
      BY <2>2, <3>3, QueueMaxPlaced
    <3>5. QED
      BY <1>1, <2>1, <3>2, <3>4
  <2>5. QED
    BY <2>3, <2>4
<1>4. NoClean' /\ \A u \in Threads : Unbegun(u)'
  BY <1>1 DEF NoClean, Unbegun
<1>5. state' = "STARTED" => active' # NoHead
  BY <1>1 DEF PlacedInv
<1>6. QED
  BY <1>3, <1>4, <1>5, PlacedStep

\* A head that is freed takes its channel with it, unless it is not linked.
LEMMA FreeBufHeadPlaced ==
  ASSUME IInv, PlacedInv, NEW h \in Heads, FreeBufHead(h)
  PROVE  PlacedInv'
<1> USE DEF timerVars, memVars, hwVars, lifeVars
<1>1. /\ thr \in [Threads -> Thread] /\ TypeOK /\ UNCHANGED <<chan, state>> /\ NoClean
      /\ \A u \in Threads : Unbegun(u)
  BY DEF IInv, TypeOK, FreeBufHead, BhFree, HoldsBh, NoClean, PlacedInv
<1>2. \A u \in Threads : thr'[u].pc = thr[u].pc /\ thr'[u].idx = thr[u].idx
  BY <1>1 DEF FreeBufHead, MarkMoved, Thread
<1>3. NoClean' /\ \A u \in Threads : Unbegun(u)'
  BY <1>1, <1>2 DEF NoClean, Unbegun
<1>4. /\ active' = IF linked \cap {h} # {} /\ state # "STARTED" THEN NoHead ELSE active
      /\ bufs' = {b \in bufs : b[1] \notin {h}} /\ (h \in linked => state # "STARTED")
  BY DEF FreeBufHead, ReleaseHeads
<1>5. ASSUME active' # NoHead, Kept' PROVE Placed(chan', Mine', active')
  <2>1. h \notin linked /\ active' = active
    BY <1>4, <1>5
  <2>2. active \in linked /\ Placed(chan, Mine, active)
    BY <1>1, <1>5, <2>1, LinkedIsActive DEF PlacedInv, Kept
  <2>3. Mine' = Mine
    BY <1>4, <2>1, <2>2 DEF Mine
  <2>4. QED
    BY <1>1, <2>1, <2>2, <2>3
<1>6. state' = "STARTED" => active' # NoHead
  BY <1>1, <1>4 DEF PlacedInv
<1>7. QED
  BY <1>3, <1>5, <1>6, PlacedStep

\* A step of a client under listlock that keeps the buffers where they belong.
LEMMA ClientListPlaced ==
  ASSUME IInv, PlacedInv, NoClean, UNCHANGED <<state, active, bufs, thr>>,
         active \in Heads /\ Placed(chan, Mine, active) => Placed(chan', Mine, active)
  PROVE  PlacedInv'
<1>1. Mine' = Mine /\ NoClean' /\ (\A u \in Threads : Unbegun(u)') /\ (Kept' <=> Kept)
  BY DEF Mine, NoClean, Unbegun, Kept, PlacedInv
<1>2. active' # NoHead /\ Kept' => Placed(chan', Mine', active')
  BY <1>1, LinkedIsActive DEF PlacedInv
<1>3. state' = "STARTED" => active' # NoHead
  BY DEF PlacedInv
<1>4. QED
  BY <1>1, <1>2, <1>3, PlacedStep

\* The clients' requests.
LEMMA ClientPlaced ==
  ASSUME IInv, PlacedInv, ~QueuesUnfree, ClientNext
  PROVE  PlacedInv'
<1> USE DEF timerVars, memVars, hwVars, lifeVars
<1>0. chan \in Channel /\ TypeOK /\ (\A u \in Threads : Unbegun(u)) /\ SameLists(chan, chan)
  BY DEF IInv, TypeOK, PlacedInv, SameLists
<1>1. CASE Open \/ \E h \in Heads : CreateHead(h)
  <2>1. UNCHANGED <<chan, state, active, bufs, thr>>
    BY <1>1 DEF Open, CreateHead
  <2>2. \A u \in Threads : Unbegun(u)'
    BY <1>0, <2>1 DEF Unbegun
  <2>3. QED
    BY <1>0, <2>1, <2>2, PlacedUnchanged
<1>2. ASSUME NEW h \in Heads, FreeBufHead(h) PROVE PlacedInv'
  BY <1>2, FreeBufHeadPlaced
<1>3. ASSUME NEW h \in Heads, GetNextImage(h) \/ GetActImage(h) PROVE PlacedInv'
  <2>1. UNCHANGED <<state, active, bufs, thr>> /\ chan' \in {NextBlocked(chan), LastBlocked(chan)} /\ NoClean
    BY <1>3, ListFreeNoClean DEF GetNextImage, GetActImage, ClientListSection, NoClean
  <2>2. QED
    BY <1>0, <2>1, ClientListPlaced, NextBlockedPlaced, LastBlockedPlaced
<1>4. ASSUME NEW b \in Buf, CreateUserbuf(b) \/ FreeUserbuf(b) \/ QueueBuffer(b) PROVE PlacedInv'
  <2>1. QueueBuffer(b) /\ state = "STARTED" /\ b[1] \in linked => chan.listname[b] = "FREE"
    BY DEF QueuesUnfree
  <2>2. QED
    BY <1>4, <2>1, CreateUserbufPlaced, FreeUserbufPlaced, QueueBufferPlaced
<1>5. ASSUME NEW b \in Buf, UnlockBuffer(b) PROVE PlacedInv'
  <2>1. UNCHANGED <<state, active, bufs, thr>> /\ Unblock(b) /\ NoClean /\ b[1] \in linked /\ b \in bufs
    BY <1>5, ListFreeNoClean DEF UnlockBuffer, ClientListSection, NoClean
  <2>2. b \in Mine
    BY <2>1, LinkedIsActive DEF Mine
  <2>3. QED
    BY <1>0, <2>1, <2>2, ClientListPlaced, UnblockPlaced DEF Unblock
<1>6. CASE Stop
  <2>1. UNCHANGED <<active, bufs, thr>> /\ SameLists(chan, chan') /\ (state' = "STARTED" => state = "STARTED")
    BY <1>0, <1>6, StopLockedLists DEF Stop
  <2>2. \A u \in Threads : Unbegun(u)'
    BY <1>0, <2>1 DEF Unbegun
  <2>3. QED
    BY <2>1, <2>2, PlacedUnchanged
<1>7. QED
  BY <1>1, <1>2, <1>3, <1>4, <1>5, <1>6 DEF ClientNext

\* Every step keeps lists, counters and listnames in agreement.
LEMMA NextPlaced ==
  ASSUME IInv, PlacedInv, ~QueuesUnfree, [Next]_vars
  PROVE  PlacedInv'
<1> USE DEF timerVars, memVars, hwVars, lifeVars
<1>0. chan \in Channel /\ TypeOK /\ (\A u \in Threads : Unbegun(u)) /\ SameLists(chan, chan)
  BY DEF IInv, TypeOK, PlacedInv, SameLists
<1>1. CASE ClientNext
  BY <1>1, ClientPlaced
<1>2. CASE \E t \in Threads : ThreadNext(t)
  BY <1>2, ThreadPlaced
<1>3. CASE IrqNext
  BY <1>3, IrqPlaced
<1>4. CASE (\E w \in Waiters : WaiterNext(w)) \/ EngineTransfers \/ TimerExpires \/ DmaTimeout \/ UNCHANGED vars
  <2>1. UNCHANGED <<chan, active, bufs, thr>> /\ (state' = "STARTED" => state = "STARTED")
    BY <1>4 DEF WaiterNext, WaitBegin, WaitWoken, WaitTimesOut, WaitEnd, EngineTransfers,
                TimerExpires, DmaTimeout, vars
  <2>2. \A u \in Threads : Unbegun(u)'
    BY <1>0, <2>1 DEF Unbegun
  <2>3. QED
    BY <1>0, <2>1, <2>2, PlacedUnchanged
<1>5. CASE DoneWork
  <2>1. UNCHANGED <<active, bufs, thr>> /\ SameLists(chan, chan') /\ (state' = "STARTED" => state = "STARTED")
    BY <1>0, <1>5, CleanSyncLists DEF DoneWork
  <2>2. \A u \in Threads : Unbegun(u)'
    BY <1>0, <2>1 DEF Unbegun
  <2>3. QED
    BY <2>1, <2>2, PlacedUnchanged
<1>6. QED
  BY <1>1, <1>2, <1>3, <1>4, <1>5 DEF Next

\* Careful clients make no such call.
LEMMA CarefulQueues == ASSUME Careful PROVE ~QueuesUnfree
BY DEF Careful, QueuesUnfree, QueueBuffer

\* The invariant holds before the first start.
LEMMA InitPlaced == Init => PlacedInv
BY DEF Init, PlacedInv, Cleaning, Unbegun, IdleThread

\* Buffers that are where they belong are in agreement with their counters.
LEMMA PlacedAgrees == ASSUME IInv, PlacedInv PROVE ListsConsistent
<1> SUFFICES ASSUME state = "STARTED"
             PROVE  /\ chan.free_count    = Len(chan.free_list)
                    /\ chan.ready_count   = Len(chan.ready_list)
                    /\ chan.hot_count     = Len(chan.hot_list)
                    /\ chan.grabbed_count = Len(chan.grabbed_list)
                    /\ \A name \in ListNames \ {"NO_LIST"} :
                         /\ Injective(ListOf(chan, name))
                         /\ \A b \in Buf :
                              b \in Members(ListOf(chan, name)) <=>
                                b \in bufs /\ b[1] = active /\ chan.listname[b] = name
                    /\ chan.locked_count =
                         Cardinality({b \in bufs : b[1] = active /\ chan.listname[b] = "NO_LIST"})
  BY DEF ListsConsistent
<1>1. Placed(chan, Mine, active)
  BY DEF PlacedInv, Kept
<1>2. \A name \in ListNames \ {"NO_LIST"} :
        \E n : n = Len(ListOf(chan, name)) /\ Holds(ListOf(chan, name), n, Tagged(chan.listname, Mine, name))
  BY <1>1 DEF Placed, Holds, ListNames, ListOf
<1>3. \A name, b : b \in Tagged(chan.listname, Mine, name)
                     <=> b \in bufs /\ b[1] = active /\ chan.listname[b] = name
  BY DEF Tagged, Mine
<1>4. Tagged(chan.listname, Mine, "NO_LIST") = {b \in bufs : b[1] = active /\ chan.listname[b] = "NO_LIST"}
  BY DEF Tagged, Mine
<1>5. \A name \in ListNames \ {"NO_LIST"} :
        /\ Injective(ListOf(chan, name))
        /\ \A b \in Buf : b \in Members(ListOf(chan, name)) <=>
                            b \in bufs /\ b[1] = active /\ chan.listname[b] = name
  BY <1>2, <1>3 DEF Holds
<1>6. QED
  BY <1>1, <1>4, <1>5 DEF Placed, Holds

\* While an acquisition runs, each counter is the length of its list, no buffer
\* is linked twice, and every registered buffer is in the one list its listname
\* names - for every interleaving of clients, interrupts and restarts, as long as
\* clients queue only buffers that are free.
THEOREM ListsAgree == ASSUME Careful PROVE Spec => []ListsConsistent
<1>1. IInv /\ PlacedInv /\ [Next]_vars => PlacedInv'
  BY NextPlaced, CarefulQueues
<1>2. IInv /\ PlacedInv => ListsConsistent
  BY PlacedAgrees
<1>3. QED
  BY <1>1, <1>2, InitPlaced, Inductive, PTL DEF Spec
-----------------------------------------------------------------------------
(* The hot list and the board.                                             *)

\* The descriptors on their way: collected by the handler (a), done (b), queued (c).
LEMMA QueueBehind ==
  ASSUME NEW a \in Seq(Buf \cup Dummies), NEW b \in Seq(Buf \cup Dummies), NEW c \in Seq(Buf \cup Dummies), NEW q \in Seq(Buf \cup Dummies)
  PROVE  (a \o b \o c) \o q = a \o b \o (c \o q)
OBVIOUS

\* A finished transfer moves from the queued to the done descriptors.
LEMMA TransferOne ==
  ASSUME NEW a \in Seq(Buf \cup Dummies), NEW b \in Seq(Buf \cup Dummies), NEW c \in Seq(Buf \cup Dummies), c # <<>>
  PROVE  a \o Append(b, Head(c)) \o Tail(c) = a \o b \o c
<1> DEFINE x == Append(b, Head(c))
           y == Tail(c)
<1>1. x \in Seq(Buf \cup Dummies) /\ y \in Seq(Buf \cup Dummies)
  OBVIOUS
<1>2. x \o y = b \o c
  OBVIOUS
<1>3. a \o b \o c = a \o (b \o c)
  OBVIOUS
<1> HIDE DEF x, y
<1>4. a \o x \o y = a \o (x \o y)
  BY <1>1
<1>5. QED
  BY <1>2, <1>3, <1>4 DEF x, y

\* Reading the count register moves the done descriptors to the handler.
LEMMA CollectDone ==
  ASSUME NEW b \in Seq(Buf \cup Dummies), NEW c \in Seq(Buf \cup Dummies)
  PROVE  <<>> \o b \o c = b \o <<>> \o c /\ <<>> \o <<>> \o c = c
OBVIOUS

\* Booking a frame takes the oldest descriptor.
LEMMA BookOne ==
  ASSUME NEW a \in Seq(Buf \cup Dummies), NEW b \in Seq(Buf \cup Dummies), NEW c \in Seq(Buf \cup Dummies), a # <<>>
  PROVE  Tail(a \o b \o c) = Tail(a) \o b \o c /\ a \o b \o c # <<>>
<1>1. Tail(a \o b \o c) = Tail(a) \o b \o c
  OBVIOUS
<1>2. a \o b \o c # <<>>
  OBVIOUS
<1>3. QED
  BY <1>1, <1>2

\* The board's descriptors are the hot list, from the oldest to the newest.
OnBoard == irq.got \o engine.done \o engine.fifo

\* The handler holds transfers only between reading the count and booking them.
HandlerInv ==
  /\ irq.pc \in {"idle", "entered"} => irq.got = <<>>
  /\ ~irq.fresh => irq.got = <<>>

\* The inductive strengthening of FramesInOrder, HotMatchesHardware and EngineFed.
RunInv ==
  /\ HandlerInv
  /\ state = "STARTED" =>
       /\ Runs(chan) /\ Circulates(chan)
       /\ ~irq.stale => chan.hot_list = OnBoard
       /\ irq.pc = "frames" /\ ~irq.fresh => chan.transfer_todo > 0
       /\ irq.pc # "frames" \/ ~irq.fresh => Fed(chan)

\* The types of the parts.
LEMMA BoardParts ==
  ASSUME TypeOK
  PROVE  /\ irq.got \in Seq(Buf \cup Dummies) /\ engine.done \in Seq(Buf \cup Dummies)
         /\ engine.fifo \in Seq(Buf \cup Dummies) /\ chan.hot_list \in Seq(Buf \cup Dummies)
         /\ chan \in Channel
BY CountParts DEF TypeOK, Irq, Engine

\* A step that leaves the board and the hot list alone, and the order of the frames.
LEMMA RunQuiet ==
  ASSUME IInv, RunInv, state = "STARTED", UNCHANGED <<irq, engine>>,
         Runs(chan'), chan'.hot_list = chan.hot_list, chan'.mode = chan.mode,
         chan'.transfer_todo = chan.transfer_todo,
         chan.mode = "SELECTIVE" /\ chan'.ready_list # <<>> => chan.ready_list # <<>>,
         irq.pc # "frames" \/ (chan.ready_list # <<>> => chan'.ready_list # <<>>)
  PROVE  RunInv'
<1>1. HandlerInv' /\ OnBoard' = OnBoard
  BY DEF RunInv, HandlerInv, OnBoard
<1>2. Fed(chan) => Fed(chan')
  BY DEF Fed
<1>3. Circulates(chan')
  <2>1. irq.pc # "frames" => Fed(chan)
    BY DEF RunInv
  <2>2. Circulates(chan)
    BY DEF RunInv
  <2>3. QED
    BY <2>1, <2>2 DEF Fed, Circulates
<1>4. QED
  BY <1>1, <1>2, <1>3 DEF RunInv

\* A step that hands buffers q to the board.
LEMMA RunRefilled ==
  ASSUME IInv, RunInv, state = "STARTED", UNCHANGED irq,
         NEW q \in Seq(Buf \cup Dummies), engine' = [engine EXCEPT !.fifo = @ \o q],
         Runs(chan'), Circulates(chan'), chan'.hot_list = chan.hot_list \o q,
         chan'.transfer_todo = chan.transfer_todo,
         Fed(chan) /\ chan.transfer_todo > 0 => Fed(chan')
  PROVE  RunInv'
<1>0. TypeOK
  BY DEF IInv
<1>1. engine'.fifo = engine.fifo \o q /\ engine'.done = engine.done
  BY <1>0 DEF TypeOK, Engine
<1>2. OnBoard' = OnBoard \o q
  <2>1. OnBoard' = irq.got \o engine.done \o (engine.fifo \o q)
    BY <1>1 DEF OnBoard
  <2> DEFINE a == irq.got
             b == engine.done
             c == engine.fifo
  <2>2. a \in Seq(Buf \cup Dummies) /\ b \in Seq(Buf \cup Dummies) /\ c \in Seq(Buf \cup Dummies)
    BY <1>0, BoardParts
  <2>3. OnBoard = a \o b \o c /\ OnBoard' = a \o b \o (c \o q)
    BY <2>1 DEF OnBoard
  <2> HIDE DEF a, b, c
  <2>4. QED
    BY <2>2, <2>3, QueueBehind
<1>3. HandlerInv'
  BY DEF RunInv, HandlerInv
<1>4. irq.pc # "frames" \/ ~irq.fresh => chan.transfer_todo > 0
  BY DEF RunInv, IInv, StartedIsStoppable
<1>5. ~irq.stale => chan'.hot_list = OnBoard'
  BY <1>2 DEF RunInv
<1>6. QED
  BY <1>3, <1>4, <1>5 DEF RunInv

\* men_unblock_buffer, by either of its callers.
LEMMA UnblockRuns ==
  ASSUME IInv, PlacedInv, RunInv, state = "STARTED", NEW b \in Mine, Unblock(b), UNCHANGED irq
  PROVE  RunInv'
<1> DEFINE q == UnblockQueues(chan, b, active)
<1>1. /\ chan \in Channel /\ active \in Heads /\ Placed(chan, Mine, active) /\ b \in Buf
      /\ Runs(chan) /\ Circulates(chan)
  BY LinkedIsActive, MineSlots DEF PlacedInv, Kept, RunInv, IInv, TypeOK
<1>2. chan' = UnblockBuffer(chan, b, active) /\ engine' = [engine EXCEPT !.fifo = @ \o q]
  BY DEF Unblock
<1>3. q \in Seq(Buf \cup Dummies) /\ chan'.transfer_todo = chan.transfer_todo
  BY <1>1, <1>2, UnblockBufferType DEF SameProgress
<1>4. chan'.hot_list = chan.hot_list \o q
  BY <1>1, <1>2, UnblockPlaced
<1>5. Circulates(chan') /\ (Fed(chan) /\ chan.transfer_todo > 0 => Fed(chan'))
  BY <1>1, <1>2, UnblockFed
<1>6. Runs(chan')
  <2> DEFINE d == Unblocked(chan, b)
  <2>1. d \in Channel /\ Placed(d, Mine, active) /\ Keeps(chan, d)
    BY <1>1, UnblockedType, UnblockedPlaced, UnblockedKeeps
  <2>2. chan' \in {d, QueueMax(d, active)}
    BY <1>2 DEF UnblockBuffer
  <2> HIDE DEF d
  <2>3. Runs(d)
    BY <1>1, <2>1, KeepsRuns
  <2>4. QED
    BY <1>1, <2>1, <2>2, <2>3, QueueMaxRuns
<1> HIDE DEF q
<1>7. QED
  BY <1>2, <1>3, <1>4, <1>5, <1>6, RunRefilled

\* men_queue_buffer while the acquisition runs.
LEMMA QueueBufferRuns ==
  ASSUME IInv, PlacedInv, RunInv, Careful, state = "STARTED", NEW b \in Buf, QueueBuffer(b)
  PROVE  RunInv'
<1> USE DEF timerVars, memVars, hwVars, lifeVars
<1>1. /\ chan \in Channel /\ active \in Heads /\ active \in linked /\ Placed(chan, Mine, active)
      /\ Runs(chan) /\ Circulates(chan) /\ b \in bufs /\ chan.listname[b] = "FREE"
      /\ UNCHANGED irq
  BY LinkedIsActive DEF PlacedInv, Kept, RunInv, IInv, TypeOK, QueueBuffer, Careful
<1>2. CASE b[1] \notin linked
  <2>1. chan' = [chan EXCEPT !.listname[b] = "READY"] /\ UNCHANGED engine
    BY <1>2 DEF QueueBuffer
  <2>2. Keeps(chan, chan') /\ chan'.ready_list = chan.ready_list
    BY <1>1, <2>1, SublistSame DEF Keeps, Channel
  <2>3. chan' \in Channel
    <3>1. [chan.listname EXCEPT ![b] = "READY"] \in [Buf -> ListNames]
      BY <1>1, ChannelParts DEF ListNames
    <3>2. QED
      BY <1>1, <2>1, <3>1 DEF Channel
  <2>4. Runs(chan')
    BY <1>1, <2>2, <2>3, KeepsRuns
  <2>5. QED
    BY <1>1, <2>1, <2>2, <2>4, RunQuiet DEF Keeps
<1>3. CASE b[1] \in linked
  <2> DEFINE c == MoveToReady(chan, b)
             q == Queued(c, active)
  <2>1. b \in Mine
    BY <1>1, <1>3, LinkedIsActive DEF Mine
  <2>2. chan' = QueueMax(c, active) /\ engine' = [engine EXCEPT !.fifo = @ \o q] /\ chan.mode = "SELECTIVE"
    BY <1>3 DEF QueueBuffer
  <2>3. c \in Channel /\ Placed(c, Mine, active) /\ Keeps(chan, c)
    BY <1>1, <2>1, MoveToReadyType, MoveToReadyPlaced, MoveToReadyKeeps
  <2>4. q \in Seq(Buf \cup Dummies)
    BY <1>1, <2>3, QueuedType
  <2>5. Circulates(c) /\ Runs(c)
    <3>1. Runs(c)
      BY <1>1, <2>3, KeepsRuns
    <3>2. c.mode # "CONT"
      BY <2>2, <2>3 DEF Keeps
    <3>3. QED
      BY <3>1, <3>2 DEF Circulates
  <2> HIDE DEF c
  <2>6. chan'.hot_list = chan.hot_list \o q /\ Runs(chan') /\ Circulates(chan')
    BY <1>1, <2>2, <2>3, <2>5, QueueMaxPlaced, QueueMaxRuns, QueueMaxCirculates DEF Keeps
  <2>7. chan'.transfer_todo = chan.transfer_todo
    BY <1>1, <2>2, <2>3, QueueMaxType DEF Keeps, SameProgress
  <2>8. chan.transfer_todo > 0 => Fed(chan')
    BY <1>1, <2>2, <2>3, <2>5, QueueMaxFeeds DEF Keeps
  <2> HIDE DEF q
  <2>9. QED
    BY <1>1, <2>2, <2>4, <2>6, <2>7, <2>8, RunRefilled
<1>4. QED
  BY <1>2, <1>3

\* Frames handed out while the acquisition runs.
LEMMA GetImageRuns ==
  ASSUME IInv, PlacedInv, RunInv, state = "STARTED", NEW h \in Heads, GetNextImage(h) \/ GetActImage(h)
  PROVE  RunInv'
<1> USE DEF timerVars, memVars, hwVars, lifeVars
<1>1. /\ chan \in Channel /\ active \in Heads /\ Placed(chan, Mine, active) /\ Runs(chan)
      /\ UNCHANGED <<irq, engine>>
  BY LinkedIsActive DEF PlacedInv, Kept, RunInv, IInv, TypeOK, GetNextImage, GetActImage
<1>2. CASE GetNextImage(h)
  <2>1. chan' = NextBlocked(chan)
    BY <1>2 DEF GetNextImage
  <2>2. chan' \in Channel /\ Keeps(chan, chan') /\ chan'.ready_list = chan.ready_list
    BY <1>1, <2>1, NextBlockedType, NextBlockedKeeps
  <2>3. Runs(chan')
    BY <1>1, <2>2, KeepsRuns
  <2>4. QED
    BY <1>1, <2>2, <2>3, RunQuiet DEF Keeps
<1>3. CASE GetActImage(h)
  <2>1. chan' = LastBlocked(chan)
    BY <1>3 DEF GetActImage
  <2>2. chan' \in Channel /\ Keeps(chan, chan') /\ (chan.ready_list # <<>> => chan'.ready_list # <<>>)
        /\ (chan.grabbed_list = <<>> => chan' = chan)
    BY <1>1, <2>1, LastBlockedType, LastBlockedKeeps
  <2>3. Runs(chan')
    BY <1>1, <2>2, KeepsRuns
  <2>4. chan.mode = "SELECTIVE" => chan' = chan
    BY <1>1, <2>2 DEF Runs
  <2>5. QED
    BY <1>1, <2>2, <2>3, <2>4, RunQuiet DEF Keeps
<1>4. QED
  BY <1>2, <1>3

\* Buffers registered and removed while the acquisition runs.
LEMMA UserbufRuns ==
  ASSUME IInv, PlacedInv, RunInv, state = "STARTED", NEW b \in Buf, CreateUserbuf(b) \/ FreeUserbuf(b)
  PROVE  RunInv'
<1> USE DEF timerVars, memVars, hwVars, lifeVars
<1>1. /\ chan \in Channel /\ active \in Heads /\ Placed(chan, Mine, active) /\ Runs(chan)
      /\ UNCHANGED <<irq, engine>>
  BY LinkedIsActive DEF PlacedInv, Kept, RunInv, IInv, TypeOK, CreateUserbuf, FreeUserbuf
<1>2. CASE CreateUserbuf(b)
  <2> DEFINE names   == [chan.listname EXCEPT ![b] = "FREE"]
             numbers == [chan.frame_number EXCEPT ![b] = 0]
             c       == [chan EXCEPT !.listname = names, !.frame_number = numbers]
  <2>1. names \in [Buf -> ListNames] /\ numbers \in [Buf -> Nat]
    BY <1>1, ChannelParts DEF ListNames
  <2>2. chan' \in {c, AddFree(c, b)} /\ b \notin Mine
    BY <1>2 DEF CreateUserbuf, Mine
  <2>3. \A x \in Buf : x # b => numbers[x] = chan.frame_number[x]
    BY <1>1, CountParts
  <2> HIDE DEF names, numbers
  <2>4. /\ c \in Channel /\ c.hot_list = chan.hot_list /\ c.mode = chan.mode /\ c.ready_list = chan.ready_list
        /\ c.transfer_todo = chan.transfer_todo /\ c.latest_frame_number = chan.latest_frame_number
        /\ c.grabbed_list = chan.grabbed_list /\ c.frame_number = numbers
    BY <1>1, <2>1 DEF Channel
  <2> HIDE DEF c
  <2>5. Runs(c)
    <3>1. b \notin Members(chan.grabbed_list)
      BY <1>1, <2>2, NotGrabbed
    <3>2. \A x \in Members(chan.grabbed_list) : x \in Buf
      BY <1>1, CountParts DEF Members
    <3>3. \A x \in Members(chan.grabbed_list) : c.frame_number[x] = chan.frame_number[x]
      BY <2>3, <2>4, <3>1, <3>2
    <3>4. Sublist(chan.grabbed_list, c.grabbed_list) /\ c.latest_frame_number >= chan.latest_frame_number
      BY <1>1, <2>4, SublistSame, CountParts
    <3>5. Ordered(c)
      BY <1>1, <2>4, <3>3, <3>4, OrderedSublist DEF Runs
    <3>6. QED
      BY <1>1, <2>4, <3>5 DEF Runs
  <2>6. /\ Runs(chan') /\ chan'.hot_list = chan.hot_list /\ chan'.mode = chan.mode
        /\ chan'.ready_list = chan.ready_list /\ chan'.transfer_todo = chan.transfer_todo
    <3>1. Keeps(c, AddFree(c, b)) /\ (AddFree(c, b)).ready_list = c.ready_list /\ AddFree(c, b) \in Channel
      BY <2>4, AddFreeKeeps, AddFreeType
    <3>2. Runs(AddFree(c, b))
      BY <2>4, <2>5, <3>1, KeepsRuns
    <3>3. QED
      BY <2>2, <2>4, <2>5, <3>1, <3>2 DEF Keeps
  <2>7. QED
    BY <1>1, <2>6, RunQuiet
<1>3. CASE FreeUserbuf(b)
  <2>1. CASE b[1] \notin linked
    <3>1. chan' = chan
      BY <1>3, <2>1 DEF FreeUserbuf
    <3>2. QED
      BY <1>1, <3>1, RunQuiet
  <2>2. CASE b[1] \in linked
    <3>1. chan' = RemoveBuffer(chan, b) /\ chan.listname[b] # "HOT" /\ irq.pc # "frames" /\ b \in Mine
      BY <1>3, <2>2, LinkedIsActive DEF FreeUserbuf, ChanFree, Mine
    <3>2. chan' \in Channel /\ Keeps(chan, chan')
      BY <1>1, <3>1, RemoveBufferType, RemoveBufferKeeps
    <3>3. Runs(chan')
      BY <1>1, <3>2, KeepsRuns
    <3>4. chan.ready_list = <<>> => chan'.ready_list = <<>>
      <4>1. chan'.ready_list = Unlink(chan.ready_list, b)
        BY <1>1, <3>1 DEF RemoveBuffer, Channel
      <4>2. Unlink(<<>>, b) = <<>>
        BY DEF Unlink
      <4>3. QED
        BY <4>1, <4>2
    <3>5. QED
      BY <1>1, <3>1, <3>2, <3>3, <3>4, RunQuiet DEF Keeps
  <2>3. QED
    BY <2>1, <2>2
<1>4. QED
  BY <1>2, <1>3

\* The board finishes a transfer.
LEMMA EngineRuns ==
  ASSUME IInv, RunInv, EngineTransfers
  PROVE  RunInv'
<1> USE DEF timerVars, memVars, hwVars, lifeVars
<1> DEFINE a == irq.got
           b == engine.done
           c == engine.fifo
<1>0. TypeOK /\ irq \in Irq /\ engine \in Engine
  BY DEF IInv, TypeOK
<1>1. a \in Seq(Buf \cup Dummies) /\ b \in Seq(Buf \cup Dummies) /\ c \in Seq(Buf \cup Dummies) /\ c # <<>>
  BY <1>0, BoardParts DEF EngineTransfers
<1>2. /\ engine'.done = Append(b, Head(c)) /\ engine'.fifo = Tail(c)
      /\ irq'.got = a /\ irq'.pc = irq.pc /\ irq'.fresh = irq.fresh /\ irq'.stale = irq.stale
      /\ UNCHANGED <<chan, state>>
  BY <1>0 DEF EngineTransfers, Irq, Engine
<1>3. OnBoard' = a \o Append(b, Head(c)) \o Tail(c) /\ OnBoard = a \o b \o c
  BY <1>2 DEF OnBoard
<1> HIDE DEF a, b, c
<1>4. OnBoard' = OnBoard
  BY <1>1, <1>3, TransferOne
<1>5. HandlerInv'
  BY <1>2 DEF RunInv, HandlerInv, a
<1>6. QED
  BY <1>2, <1>4, <1>5 DEF RunInv

\* The handler collects the count register and takes chanlock.
LEMMA IrqEntryRuns ==
  ASSUME IInv, PlacedInv, RunInv, IrqEnter \/ IrqRead \/ IrqOverflow \/ IrqLock
  PROVE  RunInv'
<1> USE DEF timerVars, memVars, hwVars, lifeVars
<1> DEFINE b == engine.done
           c == engine.fifo
<1>0. TypeOK /\ irq \in Irq /\ engine \in Engine /\ chan \in Channel /\ UNCHANGED state
  BY DEF IInv, TypeOK, IrqEnter, IrqRead, IrqOverflow, IrqLock
<1>1. b \in Seq(Buf \cup Dummies) /\ c \in Seq(Buf \cup Dummies)
  BY <1>0, BoardParts
<1>2. CASE IrqEnter
  <2>1. /\ irq.pc = "idle" /\ irq'.pc = "entered" /\ irq'.got = irq.got /\ irq'.fresh = irq.fresh
        /\ irq'.stale = irq.stale /\ UNCHANGED <<engine, chan>>
    BY <1>0, <1>2 DEF IrqEnter, Irq
  <2>2. OnBoard' = OnBoard /\ HandlerInv'
    BY <2>1 DEF OnBoard, HandlerInv, RunInv
  <2>3. QED
    BY <1>0, <2>1, <2>2 DEF RunInv
<1>3. CASE IrqRead
  <2>1. /\ irq.pc = "entered" /\ irq'.pc = "read" /\ irq'.got = b /\ irq'.fresh = (b # <<>>)
        /\ irq'.stale = irq.stale /\ UNCHANGED chan /\ engine'.done = <<>> /\ engine'.fifo = c
    BY <1>0, <1>3 DEF IrqRead, Irq, Engine
  <2>2. irq.got = <<>>
    BY <2>1 DEF RunInv, HandlerInv
  <2>3. OnBoard' = b \o <<>> \o c /\ OnBoard = <<>> \o b \o c
    BY <2>1, <2>2 DEF OnBoard
  <2>4. HandlerInv'
    BY <2>1 DEF HandlerInv
  <2> HIDE DEF b, c
  <2>5. OnBoard' = OnBoard
    BY <1>1, <2>3, CollectDone
  <2>6. QED
    BY <1>0, <2>1, <2>4, <2>5 DEF RunInv
<1>4. CASE IrqOverflow
  <2>1. /\ irq.pc = "entered" /\ irq'.pc = "idle" /\ irq'.got = irq.got /\ irq'.fresh = irq.fresh
        /\ irq'.stale = TRUE /\ chan' = [chan EXCEPT !.lost_count = @ + 1]
    BY <1>0, <1>4 DEF IrqOverflow, Irq
  <2>2. HandlerInv'
    BY <2>1 DEF HandlerInv, RunInv
  <2>3. Keeps(chan, chan') /\ chan'.ready_list = chan.ready_list
    BY <1>0, <2>1, SublistSame DEF Keeps, Channel
  <2>4. chan' \in Channel
    <3>1. chan.lost_count + 1 \in Nat
      BY <1>0, CountParts
    <3>2. QED
      BY <1>0, <2>1, <3>1 DEF Channel
  <2>5. Runs(chan) => Runs(chan')
    BY <1>0, <2>3, <2>4, KeepsRuns
  <2>6. (Circulates(chan) => Circulates(chan')) /\ (Fed(chan) => Fed(chan'))
    BY <2>3 DEF Keeps, Circulates, Fed
  <2>7. QED
    BY <1>0, <2>1, <2>2, <2>5, <2>6 DEF RunInv
<1>5. CASE IrqLock
  <2>1. CASE active = NoHead
    <3>1. irq'.pc = "idle" /\ irq'.got = <<>>
      BY <1>0, <1>5, <2>1 DEF IrqLock, Irq
    <3>2. state # "STARTED"
      BY <2>1 DEF PlacedInv
    <3>3. QED
      BY <1>0, <3>1, <3>2 DEF RunInv, HandlerInv
  <2>2. CASE active # NoHead
    <3>1. /\ irq.pc = "read" /\ irq'.pc = "frames" /\ irq'.got = irq.got /\ irq'.fresh = irq.fresh
          /\ irq'.stale = irq.stale /\ UNCHANGED <<engine, chan>>
      BY <1>0, <1>5, <2>2 DEF IrqLock, Irq
    <3>2. OnBoard' = OnBoard /\ HandlerInv'
      BY <3>1 DEF OnBoard, HandlerInv, RunInv
    <3>3. state = "STARTED" => chan.transfer_todo > 0
      BY <3>1 DEF IInv, StartedIsStoppable
    <3>4. QED
      BY <1>0, <3>1, <3>2, <3>3 DEF RunInv
  <2>3. QED
    BY <2>1, <2>2
<1>6. QED
  BY <1>2, <1>3, <1>4, <1>5

\* One frame is booked: the oldest of the hot list and of the collected transfers.
LEMMA IrqFrameRuns ==
  ASSUME IInv, PlacedInv, RunInv, IrqFrame
  PROVE  RunInv'
<1> USE DEF timerVars, memVars, hwVars, lifeVars
<1> DEFINE a == irq.got
           b == engine.done
           c == engine.fifo
<1>0. TypeOK /\ irq \in Irq /\ engine \in Engine /\ chan \in Channel /\ UNCHANGED <<state, engine>>
  BY DEF IInv, TypeOK, IrqFrame
<1>1. a \in Seq(Buf \cup Dummies) /\ b \in Seq(Buf \cup Dummies) /\ c \in Seq(Buf \cup Dummies) /\ a # <<>>
  BY <1>0, BoardParts DEF IrqFrame
<1>2. /\ irq.pc = "frames" /\ irq'.pc = "frames" /\ irq'.got = Tail(a) /\ irq'.fresh = irq.fresh
      /\ irq'.stale = irq.stale /\ chan' = MoveHot(chan)
  BY <1>0 DEF IrqFrame, Irq
<1>3. irq.fresh
  BY <1>1 DEF RunInv, HandlerInv
<1>4. HandlerInv'
  BY <1>2, <1>3 DEF HandlerInv
<1>5. OnBoard = a \o b \o c /\ OnBoard' = Tail(a) \o b \o c
  BY <1>0, <1>2 DEF OnBoard
<1> HIDE DEF a, b, c
<1>6. Tail(OnBoard) = OnBoard' /\ OnBoard # <<>>
  BY <1>1, <1>5, BookOne
<1>7. ASSUME state = "STARTED"
      PROVE  Runs(chan') /\ Circulates(chan') /\ (chan.hot_list # <<>> => chan'.hot_list = Tail(chan.hot_list))
  <2>1. active \in Heads /\ Placed(chan, Mine, active) /\ Runs(chan) /\ Circulates(chan)
    BY <1>7, LinkedIsActive DEF PlacedInv, Kept, RunInv
  <2>2. QED
    BY <1>0, <1>2, <2>1, MoveHotPlaced, MoveHotRuns, MoveHotCirculates
<1>8. state = "STARTED" /\ ~irq.stale => chan'.hot_list = OnBoard'
  BY <1>6, <1>7 DEF RunInv
<1>9. QED
  BY <1>0, <1>2, <1>3, <1>4, <1>7, <1>8 DEF RunInv

\* The handler refills the board, or finds nothing booked, or ends the acquisition.
LEMMA IrqFinishRuns ==
  ASSUME IInv, PlacedInv, RunInv, IrqFinish
  PROVE  RunInv'
<1> USE DEF timerVars, memVars, hwVars, lifeVars
<1>0. TypeOK /\ irq \in Irq /\ engine \in Engine /\ chan \in Channel
  BY DEF IInv, TypeOK
<1>1. irq.pc = "frames" /\ irq.got = <<>>
  BY DEF IrqFinish
<1>2. irq' = irq \/ irq' = [irq EXCEPT !.pc = "idle", !.fresh = FALSE]
  BY DEF IrqFinish
<1>3. irq'.got = <<>> /\ irq'.stale = irq.stale /\ (irq'.pc = "idle" \/ irq' = irq)
  BY <1>0, <1>1, <1>2 DEF Irq
<1>4. HandlerInv'
  BY <1>3 DEF HandlerInv
<1>5. ASSUME state' = "STARTED" PROVE RunInv'
  <2> DEFINE b == engine.done
             c == engine.fifo
             q == Queued(chan, active)
  <2>1. state = "STARTED" /\ chan.transfer_todo > 0
    BY <1>5 DEF IrqFinish
  <2>2. active \in Heads /\ Placed(chan, Mine, active) /\ Runs(chan) /\ Circulates(chan)
    BY <2>1, LinkedIsActive DEF PlacedInv, Kept, RunInv
  <2>3. q \in Seq(Buf \cup Dummies) /\ b \in Seq(Buf \cup Dummies) /\ c \in Seq(Buf \cup Dummies)
    BY <1>0, <2>2, QueuedType, BoardParts
  <2>4. OnBoard = <<>> \o b \o c /\ (~irq.stale => chan.hot_list = OnBoard)
    BY <1>1, <2>1 DEF OnBoard, RunInv
  <2>5. CASE irq.fresh
    <3>1. chan' = QueueMax(chan, active) /\ engine'.fifo = c \o q /\ engine'.done = b
      BY <1>0, <2>1, <2>5 DEF IrqFinish, Engine
    <3>2. OnBoard' = <<>> \o b \o (c \o q)
      BY <1>3, <3>1 DEF OnBoard
    <3>3. chan'.hot_list = chan.hot_list \o q /\ Runs(chan') /\ Circulates(chan') /\ Fed(chan')
      BY <1>0, <2>1, <2>2, <3>1, QueueMaxPlaced, QueueMaxRuns, QueueMaxCirculates, QueueMaxFeeds
    <3>4. chan'.transfer_todo > 0
      BY <1>0, <2>1, <2>2, <3>1, QueueMaxType DEF SameProgress
    <3> HIDE DEF b, c, q
    <3>5. <<>> \in Seq(Buf \cup Dummies)
      OBVIOUS
    <3>6. OnBoard' = OnBoard \o q
      BY <2>3, <2>4, <3>2, <3>5, QueueBehind
    <3>7. ~irq'.stale => chan'.hot_list = OnBoard'
      BY <1>3, <2>4, <3>3, <3>6
    <3>8. QED
      BY <1>4, <3>3, <3>4, <3>7 DEF RunInv
  <2>6. CASE ~irq.fresh
    <3>1. chan' = chan /\ engine'.fifo = c /\ engine'.done = b
      BY <1>0, <2>1, <2>6 DEF IrqFinish, Engine
    <3>2. OnBoard' = OnBoard
      BY <1>1, <1>3, <3>1 DEF OnBoard
    <3>3. Fed(chan)
      BY <2>1, <2>6 DEF RunInv
    <3>4. QED
      BY <1>3, <1>4, <2>1, <2>2, <2>4, <3>1, <3>2, <3>3 DEF RunInv
  <2>7. QED
    BY <2>5, <2>6
<1>6. QED
  BY <1>4, <1>5 DEF RunInv

\* A start: the board and the hot list begin with the same buffers.
LEMMA StartSucceedsRuns ==
  ASSUME IInv, PlacedInv, RunInv, NEW t \in Threads, StartSucceeds(t)
  PROVE  RunInv'
<1> USE DEF timerVars, memVars, hwVars, lifeVars
<1> DEFINE q == Queued(chan, active)
<1>0. TypeOK /\ irq \in Irq /\ engine \in Engine /\ chan \in Channel /\ thr[t].pc = "clean" /\ thr[t].idx = NumSb
  BY DEF IInv, TypeOK, StartSucceeds
<1>1. active \in Heads /\ Placed(chan, Mine, active) /\ chan.hot_list = <<>> /\ chan.grabbed_list = <<>>
  BY <1>0, AllCleaned DEF PlacedInv, Cleaning
<1>2. /\ irq'.got = irq.got /\ irq'.pc = irq.pc /\ irq'.fresh = irq.fresh
      /\ irq'.stale = (irq.got # <<>>) /\ irq.pc # "frames"
  BY <1>0 DEF StartSucceeds, Irq, IInv, LockInv, HoldsChan
<1>3. chan' = QueueMax(chan, active) /\ engine'.fifo = q /\ engine'.done = <<>> /\ ~NothingReady
  BY DEF StartSucceeds
<1>4. HandlerInv'
  BY <1>2 DEF HandlerInv, RunInv
<1>5. Runs(chan)
  BY <1>1 DEF Runs, Ordered, Members
<1>6. Circulates(chan)
  <2>1. chan.ready_count = Len(chan.ready_list)
    BY <1>1 DEF Placed, Holds
  <2>2. chan.mode = "CONT" => chan.ready_count # 0
    BY <1>3 DEF NothingReady
  <2>3. Len(<<>>) = 0
    OBVIOUS
  <2>4. QED
    BY <2>1, <2>2, <2>3 DEF Circulates
<1>7. chan.transfer_todo > 0
  BY <1>0 DEF IInv, ThreadInv
<1>8. q \in Seq(Buf \cup Dummies)
  BY <1>0, <1>1, QueuedType
<1>9. /\ chan'.hot_list = chan.hot_list \o q /\ Runs(chan') /\ Circulates(chan') /\ Fed(chan')
  BY <1>0, <1>1, <1>3, <1>5, <1>6, <1>7, QueueMaxPlaced, QueueMaxRuns, QueueMaxCirculates, QueueMaxFeeds
<1>10. OnBoard' = irq.got \o <<>> \o q
  BY <1>2, <1>3 DEF OnBoard
<1> HIDE DEF q
<1>11. <<>> \o q = q /\ <<>> \o <<>> \o q = q
  BY <1>8
<1>12. ~irq'.stale => chan'.hot_list = OnBoard'
  BY <1>1, <1>2, <1>9, <1>10, <1>11
<1>13. QED
  BY <1>2, <1>4, <1>9, <1>12 DEF RunInv

\* A step that touches neither the channel nor the board.
LEMMA RunAside ==
  ASSUME RunInv, UNCHANGED <<chan, state, irq, engine>>
  PROVE  RunInv'
BY DEF RunInv, HandlerInv, OnBoard

\* A step after which no acquisition runs.
LEMMA RunOver ==
  ASSUME RunInv, state' # "STARTED",
         irq'.pc = irq.pc, irq'.got = irq.got, irq'.fresh = irq.fresh
  PROVE  RunInv'
BY DEF RunInv, HandlerInv

\* The clients' requests.
LEMMA ClientRuns ==
  ASSUME IInv, PlacedInv, RunInv, Careful, ClientNext
  PROVE  RunInv'
<1> USE DEF timerVars, memVars, hwVars, lifeVars
<1>1. CASE Open \/ \E h \in Heads : CreateHead(h) \/ FreeBufHead(h)
  <2>1. UNCHANGED <<chan, state, irq, engine>>
    BY <1>1 DEF Open, CreateHead, FreeBufHead
  <2>2. QED
    BY <2>1, RunAside
<1>2. ASSUME NEW h \in Heads, GetNextImage(h) \/ GetActImage(h) PROVE RunInv'
  <2>1. UNCHANGED <<state, irq>>
    BY <1>2 DEF GetNextImage, GetActImage
  <2>2. QED
    BY <1>2, <2>1, GetImageRuns, RunOver
<1>3. ASSUME NEW b \in Buf, CreateUserbuf(b) \/ FreeUserbuf(b) PROVE RunInv'
  <2>1. UNCHANGED <<state, irq>>
    BY <1>3 DEF CreateUserbuf, FreeUserbuf
  <2>2. QED
    BY <1>3, <2>1, UserbufRuns, RunOver
<1>4. ASSUME NEW b \in Buf, UnlockBuffer(b) PROVE RunInv'
  <2>1. UNCHANGED <<state, irq>> /\ Unblock(b) /\ b \in bufs /\ b[1] \in linked
    BY <1>4 DEF UnlockBuffer, ClientListSection
  <2>2. b \in Mine
    BY <2>1, LinkedIsActive DEF Mine
  <2>3. QED
    BY <2>1, <2>2, UnblockRuns, RunOver
<1>5. ASSUME NEW b \in Buf, QueueBuffer(b) PROVE RunInv'
  <2>1. UNCHANGED <<state, irq>>
    BY <1>5 DEF QueueBuffer
  <2>2. QED
    BY <1>5, <2>1, QueueBufferRuns, RunOver
<1>6. CASE Stop
  <2>1. UNCHANGED <<irq, engine>> /\ (UNCHANGED <<chan, state>> \/ state' = "STOPPING")
    BY <1>6 DEF Stop, StopLocked
  <2>2. QED
    BY <2>1, RunAside, RunOver
<1>7. QED
  BY <1>1, <1>2, <1>3, <1>4, <1>5, <1>6 DEF ClientNext

\* Starting, unlocking all buffers, closing.
LEMMA ThreadRuns ==
  ASSUME IInv, PlacedInv, RunInv, NEW t \in Threads, ThreadNext(t)
  PROVE  RunInv'
<1> USE DEF timerVars, memVars, hwVars, lifeVars
<1>0. irq \in Irq
  BY DEF IInv, TypeOK
<1>1. CASE \/ \E b \in Buf, n \in Todos, m \in StartModes, tmo \in Timeouts : StartCheck(t, b, n, m, tmo)
           \/ StartCancelWork(t) \/ StartHeadGone(t) \/ StartLock(t)
           \/ (\E h \in Heads : UnlockAllBegin(t, h)) \/ UnlockAllEnd(t) \/ CloseMem(t)
  <2>1. UNCHANGED <<chan, state, irq, engine>>
    BY <1>1 DEF StartCheck, StartCancelWork, StartHeadGone, StartLock, UnlockAllBegin, UnlockAllEnd, CloseMem
  <2>2. QED
    BY <2>1, RunAside
<1>2. CASE StartRelock(t)
  <2>1. UNCHANGED irq /\ (UNCHANGED <<chan, state, engine>> \/ state' # "STARTED")
    BY <1>2, CleanSyncNotStarted DEF StartRelock
  <2>2. QED
    BY <2>1, RunAside, RunOver
<1>3. CASE StartBusy(t) \/ StartBegin(t)
  <2>1. UNCHANGED irq /\ state' # "STARTED"
    BY <1>3, CleanSyncNotStarted DEF StartBusy, StartBegin
  <2>2. QED
    BY <2>1, RunOver
<1>4. CASE StartCleanBuffer(t)
  <2>1. UNCHANGED <<irq, state>> /\ thr[t].pc = "clean"
    BY <1>4 DEF StartCleanBuffer
  <2>2. state' # "STARTED"
    BY <2>1 DEF PlacedInv, NoClean
  <2>3. QED
    BY <2>1, <2>2, RunOver
<1>5. CASE StartFails(t)
  <2>1. state' # "STARTED" /\ (irq' = irq \/ irq' = [irq EXCEPT !.stale = irq.got # <<>>])
    BY <1>5, CleanSyncNotStarted DEF StartFails
  <2>2. irq'.pc = irq.pc /\ irq'.got = irq.got /\ irq'.fresh = irq.fresh
    BY <1>0, <2>1 DEF Irq
  <2>3. QED
    BY <2>1, <2>2, RunOver
<1>6. CASE StartSucceeds(t)
  BY <1>6, StartSucceedsRuns
<1>7. CASE UnlockAllStep(t)
  <2> DEFINE b == <<thr[t].head, thr[t].idx>>
  <2>1. /\ UNCHANGED <<state, irq>> /\ thr[t].pc = "unlock"
        /\ IF b \in bufs THEN Unblock(b) ELSE UNCHANGED <<chan, engine>>
    BY <1>7 DEF UnlockAllStep
  <2>2. thr[t].head = active
    BY <2>1, LinkedIsActive DEF IInv, ThreadInv
  <2>3. b \in bufs => b \in Mine
    BY <2>2 DEF Mine
  <2> HIDE DEF b
  <2>4. QED
    BY <2>1, <2>3, UnblockRuns, RunAside, RunOver
<1>8. CASE CloseChannels(t)
  <2>1. UNCHANGED <<irq, engine>> /\ (UNCHANGED <<chan, state>> \/ state' = "STOPPING")
    BY <1>8 DEF CloseChannels, StopLocked
  <2>2. QED
    BY <2>1, RunAside, RunOver
<1>9. QED
  BY <1>1, <1>2, <1>3, <1>4, <1>5, <1>6, <1>7, <1>8 DEF ThreadNext, StartNext

\* Every step keeps the hot list and the board in step.
LEMMA NextRuns ==
  ASSUME IInv, PlacedInv, RunInv, Careful, [Next]_vars
  PROVE  RunInv'
<1> USE DEF timerVars, memVars, hwVars, lifeVars
<1>1. CASE ClientNext
  BY <1>1, ClientRuns
<1>2. CASE \E t \in Threads : ThreadNext(t)
  BY <1>2, ThreadRuns
<1>3. CASE IrqNext
  BY <1>3, IrqEntryRuns, IrqFrameRuns, IrqFinishRuns DEF IrqNext
<1>4. CASE EngineTransfers
  BY <1>4, EngineRuns
<1>5. CASE (\E w \in Waiters : WaiterNext(w)) \/ TimerExpires \/ UNCHANGED vars
  <2>1. UNCHANGED <<chan, state, irq, engine>>
    BY <1>5 DEF WaiterNext, WaitBegin, WaitWoken, WaitTimesOut, WaitEnd, TimerExpires, vars
  <2>2. QED
    BY <2>1, RunAside
<1>6. CASE DoneWork
  <2>1. UNCHANGED irq /\ (UNCHANGED <<chan, state, engine>> \/ state' # "STARTED")
    BY <1>6, CleanSyncNotStarted DEF DoneWork
  <2>2. QED
    BY <2>1, RunAside, RunOver
<1>7. CASE DmaTimeout
  <2>1. UNCHANGED irq /\ state' # "STARTED"
    BY <1>7 DEF DmaTimeout
  <2>2. QED
    BY <2>1, RunOver
<1>8. QED
  BY <1>1, <1>2, <1>3, <1>4, <1>5, <1>6, <1>7 DEF Next

\* The invariant holds before the first start.
LEMMA InitRuns == Init => RunInv
BY DEF Init, RunInv, HandlerInv, IdleIrq

\* Together: where every buffer is, and what the board has of it.
LEMMA RunInductive == ASSUME Careful PROVE Spec => [](IInv /\ PlacedInv /\ RunInv)
<1>1. IInv /\ PlacedInv /\ [Next]_vars => PlacedInv'
  BY NextPlaced, CarefulQueues
<1>2. IInv /\ PlacedInv /\ RunInv /\ [Next]_vars => RunInv'
  BY NextRuns
<1>3. QED
  BY <1>1, <1>2, InitPlaced, InitRuns, Inductive, PTL DEF Spec

\* Frames leave the driver in the order they were received: men_next_blocked
\* finds the oldest frame first in the grabbed list and men_last_blocked the newest last.
THEOREM FramesAreInOrder == ASSUME Careful PROVE Spec => []FramesInOrder
<1>1. RunInv => FramesInOrder
  BY DEF RunInv, Runs, Ordered, FramesInOrder
<1>2. QED
  BY <1>1, RunInductive, PTL

\* The head of the hot list is the buffer the board filled first, whatever clients
\* and handler do between the transfer and its booking.
THEOREM HotListIsTheBoards == ASSUME Careful PROVE Spec => []HotMatchesHardware
<1>1. RunInv => HotMatchesHardware
  BY DEF RunInv, OnBoard, HotMatchesHardware
<1>2. QED
  BY <1>1, RunInductive, PTL

\* The board never idles while frames are outstanding and a buffer could be queued.
THEOREM BoardIsFed == ASSUME Careful PROVE Spec => []EngineFed
<1>1. RunInv => EngineFed
  BY DEF RunInv, Fed, EngineFed
<1>2. QED
  BY <1>1, RunInductive, PTL

\* The board never writes to memory that is no longer registered: a buffer among its
\* descriptors is a registered buffer, or the dummy buffer, of a head that exists.
THEOREM BoardBuffersRegistered == ASSUME Careful PROVE Spec => []QueuedBuffersRegistered
<1>1. IInv /\ PlacedInv /\ RunInv => QueuedBuffersRegistered
  <2> SUFFICES ASSUME IInv, PlacedInv, RunInv, state = "STARTED", ~irq.stale,
                      NEW b \in Members(engine.fifo)
               PROVE  b[1] \in heads /\ (IsDummy(b) \/ b \in bufs)
    BY DEF QueuedBuffersRegistered
  <2>1. active \in heads /\ active \in Heads /\ Placed(chan, Mine, active)
    BY LinkedIsActive DEF PlacedInv, Kept, IInv, LinkConsistent
  <2>2. b \in Members(chan.hot_list)
    <3> DEFINE x == irq.got \o engine.done
               y == engine.fifo
    <3>1. x \in Seq(Buf \cup Dummies) /\ y \in Seq(Buf \cup Dummies)
      BY BoardParts DEF IInv
    <3>2. chan.hot_list = x \o y
      BY DEF RunInv, OnBoard
    <3>3. b \in Members(y)
      OBVIOUS
    <3> HIDE DEF x, y
    <3>4. PICK i \in 1 .. Len(y) : b = y[i]
      BY <3>3 DEF Members
    <3>5. Len(x) + i \in 1 .. Len(x \o y) /\ (x \o y)[Len(x) + i] = b
      BY <3>1, <3>4
    <3>6. QED
      BY <3>2, <3>5 DEF Members
  <2>3. b \in Buf \/ b = DummyBuf(active)
    BY <2>1, <2>2 DEF Placed
  <2>4. CASE b \in Buf
    <3>1. b \in Mine
      BY <2>1, <2>2, <2>4 DEF Placed, Holds, Tagged
    <3>2. QED
      BY <2>1, <3>1 DEF Mine
  <2>5. CASE b = DummyBuf(active)
    BY <2>1, <2>5 DEF DummyBuf, IsDummy
  <2>6. QED
    BY <2>3, <2>4, <2>5
<1>2. QED
  BY <1>1, RunInductive, PTL
-----------------------------------------------------------------------------
(* Clients that do anything the driver accepts: which ioctl spoils the     *)
(* lists of a running acquisition?  Only men_queue_buffer, for a buffer    *)
(* that another list holds, which it merely warns of.                      *)

\* What men_unblock_buffer and men_dma_queue_max do to the listnames.
LEMMA UnblockNames ==
  ASSUME NEW c \in Channel, NEW b \in Buf, NEW h \in Heads, NEW x \in Buf,
         (UnblockBuffer(c, b, h)).listname[x] \in {"GRABBED", "NO_LIST"}
  PROVE  x # b /\ c.listname[x] \in {"GRABBED", "NO_LIST"}
<1> DEFINE d == Unblocked(c, b)
<1>0. c.listname \in [Buf -> ListNames] /\ d \in Channel
  BY CountParts, UnblockedType
<1>1. d.listname = IF c.listname[b] \in {"GRABBED", "NO_LIST"}
                   THEN [c.listname EXCEPT ![b] = "READY"] ELSE c.listname
  BY DEF Unblocked, AddReady, Channel
<1>2. UnblockBuffer(c, b, h) \in {d, QueueMax(d, h)}
  BY DEF UnblockBuffer
<1> HIDE DEF d
<1>3. ASSUME NEW y \in Buf, (QueueMax(d, h)).listname[y] \in {"GRABBED", "NO_LIST"}
      PROVE  d.listname[y] \in {"GRABBED", "NO_LIST"}
  <2>1. CASE WantsDummy(d)
    <3>1. (QueueMax(d, h)).listname = d.listname
      BY <1>0, <2>1 DEF QueueMax, Channel
    <3>2. QED
      BY <1>3, <3>1
  <2>2. CASE ~WantsDummy(d)
    <3> DEFINE q == FirstN(d.ready_list, NumToQueue(d))
    <3>1. (QueueMax(d, h)).listname = [z \in Buf |-> IF z \in Members(q) THEN "HOT" ELSE d.listname[z]]
      BY <1>0, <2>2 DEF QueueMax, Channel
    <3> HIDE DEF q
    <3>2. QED
      BY <1>3, <3>1
  <2>3. QED
    BY <2>1, <2>2
<1>4. d.listname[x] \in {"GRABBED", "NO_LIST"}
  BY <1>2, <1>3
<1>5. QED
  BY <1>0, <1>1, <1>4

\* The buffers the loop over all slots of the head has passed are not held by the client.
Released(t) ==
  thr[t].pc = "unlock" =>
    \A b \in Mine : b[2] < thr[t].idx => chan.listname[b] \notin {"GRABBED", "NO_LIST"}

AllReleased == \A t \in Threads : Released(t)

\* The step takes no entry of an empty list, and keeps AllReleased.
StaysSound == chan'.wild = chan.wild /\ AllReleased'

\* A step that leaves the listnames and the registered buffers alone.
LEMMA SoundAside ==
  ASSUME AllReleased, chan'.wild = chan.wild, chan'.listname = chan.listname,
         UNCHANGED <<active, bufs>>,
         \A t \in Threads : thr'[t].pc = "unlock" => thr'[t] = thr[t]
  PROVE  StaysSound
<1>1. Mine' = Mine
  BY DEF Mine
<1>2. QED
  BY <1>1 DEF StaysSound, AllReleased, Released

\* A step while nobody unlocks all buffers.
LEMMA SoundStep ==
  ASSUME chan'.wild = chan.wild, \A t \in Threads : thr'[t].pc # "unlock"
  PROVE  StaysSound
BY DEF StaysSound, AllReleased, Released

\* Nobody unlocks all buffers while somebody else is in a section under listlock.
LEMMA ListFreeNoUnlock ==
  ASSUME ListFree
  PROVE  \A t \in Threads : thr[t].pc # "unlock"
BY DEF ListFree, HoldsList

\* A running acquisition has a head, whose buffers are in the lists.
LEMMA RunningPlaced ==
  ASSUME IInv, PlacedInv, state = "STARTED"
  PROVE  NoClean /\ active \in linked /\ active \in Heads /\ Placed(chan, Mine, active)
BY LinkedIsActive DEF PlacedInv, Kept

\* The clients' requests.
LEMMA ClientSound ==
  ASSUME IInv, PlacedInv, AllReleased, state = "STARTED", ~QueuesUnfree,
         ClientNext
  PROVE  StaysSound
<1> USE DEF timerVars, memVars, hwVars, lifeVars
<1>0. chan \in Channel /\ thr \in [Threads -> Thread]
  BY DEF IInv, TypeOK
<1>1. CASE Open \/ \E h \in Heads : CreateHead(h)
  <2>1. UNCHANGED <<chan, active, bufs, thr>>
    BY <1>1 DEF Open, CreateHead
  <2>2. QED
    BY <2>1, SoundAside
<1>2. ASSUME NEW h \in Heads, FreeBufHead(h) PROVE StaysSound
  <2>1. UNCHANGED chan /\ \A t \in Threads : thr[t].pc # "unlock"
    BY <1>2 DEF FreeBufHead, BhFree, HoldsBh
  <2>2. \A t \in Threads : thr'[t].pc = thr[t].pc
    BY <1>0, <1>2 DEF FreeBufHead, MarkMoved, Thread
  <2>3. QED
    BY <1>0, <2>1, <2>2, SoundStep
<1>3. ASSUME NEW h \in Heads, GetNextImage(h) \/ GetActImage(h) PROVE StaysSound
  <2>1. /\ UNCHANGED thr /\ chan' \in {NextBlocked(chan), LastBlocked(chan)} /\ ListFree
        /\ h \in linked
    BY <1>3 DEF GetNextImage, GetActImage, ClientListSection
  <2>2. NoClean /\ \A t \in Threads : thr'[t].pc # "unlock"
    BY <2>1, ListFreeNoClean, ListFreeNoUnlock DEF NoClean
  <2>3. active \in Heads /\ Placed(chan, Mine, active)
    BY <2>1, <2>2, LinkedIsActive, RunningPlaced
  <2>4. chan'.wild = chan.wild
    BY <1>0, <2>1, <2>3, NextBlockedPlaced, LastBlockedPlaced
  <2>5. QED
    BY <2>2, <2>4, SoundStep
<1>4. ASSUME NEW b \in Buf, CreateUserbuf(b) \/ FreeUserbuf(b) PROVE StaysSound
  <2>1. UNCHANGED thr /\ \A t \in Threads : thr[t].pc # "unlock"
    BY <1>4 DEF CreateUserbuf, FreeUserbuf, BhFree, HoldsBh
  <2>2. CASE CreateUserbuf(b)
    <3> DEFINE c == [chan EXCEPT !.listname[b] = "FREE", !.frame_number[b] = 0]
    <3>1. chan' \in {c, AddFree(c, b)}
      BY <2>2 DEF CreateUserbuf
    <3>2. DOMAIN c = DOMAIN chan /\ c.wild = chan.wild
      BY <1>0 DEF Channel
    <3>3. (AddFree(c, b)).wild = c.wild
      BY <1>0 DEF AddFree, Channel
    <3>4. QED
      BY <1>0, <2>1, <3>1, <3>2, <3>3, SoundStep
  <2>3. CASE FreeUserbuf(b)
    <3>1. chan' \in {chan, RemoveBuffer(chan, b)}
      BY <2>3 DEF FreeUserbuf
    <3>2. chan'.wild = chan.wild
      BY <1>0, <3>1 DEF RemoveBuffer, Channel
    <3>3. QED
      BY <1>0, <2>1, <3>2, SoundStep
  <2>4. QED
    BY <1>4, <2>2, <2>3
<1>5. ASSUME NEW b \in Buf, UnlockBuffer(b) PROVE StaysSound
  <2>1. UNCHANGED thr /\ Unblock(b) /\ ListFree /\ b \in bufs /\ b[1] \in linked
    BY <1>5 DEF UnlockBuffer, ClientListSection
  <2>2. NoClean /\ \A t \in Threads : thr'[t].pc # "unlock"
    BY <2>1, ListFreeNoClean, ListFreeNoUnlock DEF NoClean
  <2>3. active \in Heads /\ Placed(chan, Mine, active) /\ b \in Mine
    BY <2>1, <2>2, LinkedIsActive, RunningPlaced DEF Mine
  <2>4. chan'.wild = chan.wild
    BY <1>0, <2>1, <2>3, UnblockPlaced DEF Unblock
  <2>5. QED
    BY <2>2, <2>4, SoundStep
<1>6. ASSUME NEW b \in Buf, QueueBuffer(b) PROVE StaysSound
  <2>1. UNCHANGED thr /\ \A t \in Threads : thr[t].pc # "unlock"
    BY <1>6 DEF QueueBuffer, BhFree, HoldsBh
  <2>2. CASE b[1] \notin linked
    <3>1. chan' = [chan EXCEPT !.listname[b] = "READY"]
      BY <1>6, <2>2 DEF QueueBuffer
    <3>2. chan'.wild = chan.wild
      BY <1>0, <3>1 DEF Channel
    <3>3. QED
      BY <2>1, <3>2, SoundStep
  <2>3. CASE b[1] \in linked
    <3> DEFINE c == MoveToReady(chan, b)
    <3>1. /\ chan' = QueueMax(c, active) /\ chan.listname[b] = "FREE" /\ b \in bufs
          /\ active \in Heads /\ Placed(chan, Mine, active)
      BY <1>6, <2>3, RunningPlaced DEF QueueBuffer, QueuesUnfree
    <3>2. b \in Mine
      BY <2>3, <3>1, LinkedIsActive DEF Mine
    <3>3. c \in Channel /\ Placed(c, Mine, active)
      BY <1>0, <3>1, <3>2, MoveToReadyType, MoveToReadyPlaced
    <3>4. c.wild = chan.wild
      <4>1. c.wild = (chan.wild \/ chan.listname[b] = "NO_LIST")
        BY <1>0 DEF MoveToReady, Channel
      <4>2. chan.listname[b] # "NO_LIST" /\ chan.wild \in BOOLEAN
        BY <1>0, <3>1 DEF Channel
      <4>3. QED
        BY <4>1, <4>2
    <3> HIDE DEF c
    <3>5. (QueueMax(c, active)).wild = c.wild
      BY <3>1, <3>3, QueueMaxPlaced
    <3>6. QED
      BY <2>1, <3>1, <3>4, <3>5, SoundStep
  <2>4. QED
    BY <2>2, <2>3
<1>7. CASE Stop
  <2>1. UNCHANGED thr /\ ListFree /\ StopLocked
    BY <1>7 DEF Stop
  <2>2. QED
    BY <1>0, <2>1, StopLockedLists, ListFreeNoUnlock, SoundStep
<1>8. QED
  BY <1>1, <1>2, <1>3, <1>4, <1>5, <1>6, <1>7 DEF ClientNext

\* A start: under listlock, so nobody is unlocking.
LEMMA StartSound ==
  ASSUME IInv, PlacedInv, AllReleased, state = "STARTED", NEW t \in Threads, StartNext(t)
  PROVE  StaysSound
<1> USE DEF timerVars, memVars, hwVars, lifeVars
<1>0. /\ chan \in Channel /\ thr \in [Threads -> Thread] /\ thr[t] \in Thread
      /\ IdleThread.pc = "idle"
  BY DEF IInv, TypeOK, IdleThread
<1>1. CASE \/ \E b \in Buf, n \in Todos, m \in StartModes, tmo \in Timeouts : StartCheck(t, b, n, m, tmo)
           \/ StartCancelWork(t) \/ StartHeadGone(t) \/ StartLock(t)
  <2>1. UNCHANGED <<chan, active, bufs>> /\ (\A u \in Threads : u # t => thr'[u] = thr[u])
        /\ thr'[t].pc # "unlock"
    BY <1>0, <1>1 DEF StartCheck, StartCancelWork, StartHeadGone, StartLock, Thread
  <2>2. QED
    BY <2>1, SoundAside
<1>2. CASE StartRelock(t)
  <2>1. UNCHANGED <<active, bufs>> /\ (\A u \in Threads : u # t => thr'[u] = thr[u])
        /\ thr'[t].pc # "unlock"
    BY <1>0, <1>2 DEF StartRelock, Thread
  <2>2. SameLists(chan, chan') /\ chan'.wild = chan.wild
    BY <1>0, <1>2, CleanSyncLists DEF StartRelock, SameLists
  <2>3. QED
    BY <2>1, <2>2, SoundAside DEF SameLists
<1>3. CASE StartBusy(t) \/ StartBegin(t) \/ StartCleanBuffer(t) \/ StartFails(t) \/ StartSucceeds(t)
  <2>1. /\ thr[t].pc \in {"begin", "clean"} /\ thr'[t].pc # "unlock"
        /\ \A u \in Threads : u # t => thr'[u] = thr[u]
    BY <1>0, <1>3 DEF StartBusy, StartBegin, StartCleanBuffer, StartFails, StartSucceeds, Thread
  <2>2. \A u \in Threads : thr'[u].pc # "unlock"
    BY <2>1 DEF IInv, LockInv, HoldsBh
  <2>3. chan'.wild = chan.wild
    <3>1. CASE StartBusy(t)
      <4>1. StoreRequest(t) \in Channel /\ CleanSync(StoreRequest(t))
        BY <3>1, StoreRequestType DEF StartBusy
      <4>2. QED
        BY <1>0, <4>1, CleanSyncLists, StoreRequestLists
    <3>2. CASE StartBegin(t)
      <4>1. StoreRequest(t) \in Channel /\ chan' = ClearLists(StoreRequest(t))
        BY <3>2, StoreRequestType DEF StartBegin
      <4>2. chan'.wild = (StoreRequest(t)).wild
        BY <4>1 DEF ClearLists, Channel
      <4>3. QED
        BY <1>0, <4>2, StoreRequestLists
    <3>3. CASE StartCleanBuffer(t)
      <4>1. PICK b : chan' \in {chan, CleanBuffer(chan, b)}
        BY <3>3 DEF StartCleanBuffer
      <4>2. QED
        BY <1>0, <4>1 DEF CleanBuffer, AddReady, AddFree, Channel
    <3>4. CASE StartFails(t) \/ StartSucceeds(t)
      <4>1. thr[t].pc = "clean" /\ thr[t].idx = NumSb
        BY <3>4 DEF StartFails, StartSucceeds
      <4>2. active \in Heads /\ Placed(chan, Mine, active)
        BY <4>1, AllCleaned
      <4>3. QueueMax(chan, active) \in Channel /\ (QueueMax(chan, active)).wild = chan.wild
        BY <1>0, <4>2, QueueMaxType, QueueMaxPlaced
      <4>4. chan' = QueueMax(chan, active) \/ CleanSync(chan) \/ CleanSync(QueueMax(chan, active))
        BY <3>4 DEF StartFails, StartSucceeds
      <4>5. QED
        BY <1>0, <4>3, <4>4, CleanSyncLists
    <3>5. QED
      BY <1>3, <3>1, <3>2, <3>3, <3>4
  <2>4. QED
    BY <2>2, <2>3, SoundStep
<1>4. QED
  BY <1>1, <1>2, <1>3 DEF StartNext

\* Unlocking all buffers, slot by slot; closing.
LEMMA ThreadSound ==
  ASSUME IInv, PlacedInv, AllReleased, state = "STARTED", NEW t \in Threads, ThreadNext(t)
  PROVE  StaysSound
<1> USE DEF timerVars, memVars, hwVars, lifeVars
<1>0. /\ chan \in Channel /\ thr \in [Threads -> Thread] /\ thr[t] \in Thread
      /\ IdleThread.pc = "idle"
  BY DEF IInv, TypeOK, IdleThread
<1>1. CASE StartNext(t)
  BY <1>1, StartSound
<1>2. ASSUME NEW h \in Heads, UnlockAllBegin(t, h) PROVE StaysSound
  <2>1. UNCHANGED <<chan, active, bufs>> /\ (\A u \in Threads : u # t => thr'[u] = thr[u])
        /\ thr'[t] = [IdleThread EXCEPT !.pc = "unlock", !.head = h] /\ ListFree
    BY <1>0, <1>2 DEF UnlockAllBegin, ClientListSection
  <2>2. thr'[t].idx = 0
    BY <2>1 DEF IdleThread
  <2>3. \A b \in Mine : ~(b[2] < 0)
    BY NumSbAssumption DEF Mine, IInv, TypeOK, Buf, Slots
  <2>4. Mine' = Mine /\ \A u \in Threads : thr[u].pc # "unlock"
    BY <2>1, ListFreeNoUnlock DEF Mine
  <2>5. ASSUME NEW u \in Threads PROVE Released(u)'
    BY <2>1, <2>2, <2>3, <2>4 DEF Released
  <2>6. QED
    BY <1>0, <2>1, <2>5 DEF StaysSound, AllReleased
<1>3. CASE UnlockAllStep(t)
  <2> DEFINE b == <<thr[t].head, thr[t].idx>>
  <2>1. /\ thr[t].pc = "unlock" /\ UNCHANGED <<active, bufs>> /\ thr[t].idx < NumSb
        /\ IF b \in bufs THEN Unblock(b) ELSE UNCHANGED chan
        /\ thr'[t].pc = "unlock" /\ thr'[t].idx = thr[t].idx + 1 /\ \A u \in Threads : u # t => thr'[u] = thr[u]
    BY <1>0, <1>3 DEF UnlockAllStep, Thread
  <2>2. NoClean /\ \A u \in Threads : u # t => thr[u].pc # "unlock"
    BY <2>1 DEF NoClean, IInv, LockInv, HoldsBh
  <2>3. thr[t].head = active /\ active \in Heads /\ active # NoHead
    BY <2>1, LinkedIsActive DEF IInv, ThreadInv
  <2>4. Placed(chan, Mine, active) /\ (b \in bufs => b \in Mine) /\ Mine' = Mine
    BY <2>1, <2>2, <2>3, RunningPlaced DEF Mine
  <2>5. Mine \subseteq Buf /\ thr[t].idx \in Nat /\ \A x \in Mine : x[2] \in Nat /\ x = <<active, x[2]>>
    <3>1. thr[t].idx \in 0 .. NumSb
      BY <1>0 DEF Thread
    <3>2. QED
      BY <3>1, NumSbAssumption DEF Mine, IInv, TypeOK, Buf, Slots
  <2>6. \A x \in Mine : x[2] < thr[t].idx + 1 => x[2] < thr[t].idx \/ x = b
    BY <2>3, <2>5
  <2>7. b \notin bufs => b \notin Mine
    BY DEF Mine
  <2> HIDE DEF b
  <2>8. chan'.wild = chan.wild
    BY <1>0, <2>1, <2>3, <2>4, UnblockPlaced DEF Unblock
  <2>9. ASSUME NEW x \in Mine, x[2] < thr[t].idx + 1, chan'.listname[x] \in {"GRABBED", "NO_LIST"}
        PROVE  FALSE
    <3>1. chan.listname[x] \in {"GRABBED", "NO_LIST"} /\ x # b
      <4>1. CASE b \in bufs
        <5>1. b \in Buf /\ chan' = UnblockBuffer(chan, b, active)
          BY <2>1, <2>4, <2>5, <4>1 DEF Unblock
        <5>2. QED
          BY <1>0, <2>3, <2>5, <2>9, <5>1, UnblockNames
      <4>2. CASE b \notin bufs
        BY <2>1, <2>7, <2>9, <4>2
      <4>3. QED
        BY <4>1, <4>2
    <3>2. x[2] < thr[t].idx
      BY <2>6, <2>9, <3>1
    <3>3. QED
      BY <2>1, <3>1, <3>2 DEF AllReleased, Released
  <2>10. ASSUME NEW u \in Threads PROVE Released(u)'
    <3>1. CASE u = t
      BY <2>1, <2>4, <2>9, <3>1 DEF Released
    <3>2. CASE u # t
      BY <2>1, <2>2, <3>2 DEF Released
    <3>3. QED
      BY <3>1, <3>2
  <2>11. QED
    BY <2>8, <2>10 DEF StaysSound, AllReleased
<1>4. CASE UnlockAllEnd(t)
  <2>1. UNCHANGED <<chan, active, bufs>> /\ (\A u \in Threads : u # t => thr'[u] = thr[u])
        /\ thr'[t].pc # "unlock"
    BY <1>0, <1>4 DEF UnlockAllEnd
  <2>2. QED
    BY <2>1, SoundAside
<1>5. CASE CloseChannels(t)
  <2>1. /\ ListFree /\ (chan' = chan \/ StopLocked) /\ thr'[t].pc = "close"
        /\ \A u \in Threads : u # t => thr'[u] = thr[u]
    BY <1>0, <1>5 DEF CloseChannels, Thread
  <2>2. chan'.wild = chan.wild
    BY <1>0, <2>1, StopLockedLists
  <2>3. QED
    BY <2>1, <2>2, ListFreeNoUnlock, SoundStep
<1>6. CASE CloseMem(t)
  <2>1. /\ thr[t].pc = "close" /\ thr'[t].pc = "idle" /\ chan' = chan
        /\ \A u \in Threads : u # t => thr'[u] = thr[u]
    BY <1>0, <1>6 DEF CloseMem
  <2>2. \A u \in Threads : thr'[u].pc # "unlock"
    BY <2>1 DEF IInv, LockInv, HoldsBh
  <2>3. QED
    BY <1>0, <2>1, <2>2, SoundStep
<1>7. QED
  BY <1>1, <1>2, <1>3, <1>4, <1>5, <1>6 DEF ThreadNext

\* The interrupt handler books and refills only between two sections under listlock.
LEMMA IrqSound ==
  ASSUME IInv, PlacedInv, AllReleased, state = "STARTED", IrqNext
  PROVE  StaysSound
<1> USE DEF timerVars, memVars, hwVars, lifeVars
<1>0. chan \in Channel /\ UNCHANGED <<active, bufs, thr>>
  BY DEF IInv, TypeOK, IrqNext, IrqEnter, IrqRead, IrqOverflow, IrqLock, IrqFrame, IrqFinish
<1>1. CASE IrqEnter \/ IrqRead \/ IrqOverflow \/ IrqLock
  <2>1. chan' \in {chan, [chan EXCEPT !.lost_count = @ + 1], [chan EXCEPT !.lost_count = @ + Len(irq.got)]}
    BY <1>1 DEF IrqEnter, IrqRead, IrqOverflow, IrqLock
  <2>2. chan'.wild = chan.wild /\ chan'.listname = chan.listname
    BY <1>0, <2>1 DEF Channel
  <2>3. QED
    BY <1>0, <2>2, SoundAside
<1>2. CASE IrqFrame \/ IrqFinish
  <2>1. ListFree /\ irq.pc = "frames" /\ chan' \in {chan, MoveHot(chan), QueueMax(chan, active)}
    BY <1>2 DEF IrqFrame, IrqFinish
  <2>2. NoClean /\ (\A t \in Threads : thr'[t].pc # "unlock") /\ active # NoHead
    BY <1>0, <2>1, ListFreeNoClean, ListFreeNoUnlock DEF NoClean, IInv, ChanInv
  <2>3. active \in Heads /\ Placed(chan, Mine, active)
    BY <2>2, RunningPlaced
  <2>4. chan'.wild = chan.wild
    BY <1>0, <2>1, <2>3, MoveHotPlaced, QueueMaxPlaced
  <2>5. QED
    BY <2>2, <2>4, SoundStep
<1>3. QED
  BY <1>1, <1>2 DEF IrqNext

\* Every other step is sound.
LEMMA NextSound ==
  ASSUME IInv, PlacedInv, AllReleased, state = "STARTED", ~QueuesUnfree, [Next]_vars
  PROVE  StaysSound
<1> USE DEF timerVars, memVars, hwVars, lifeVars
<1>0. chan \in Channel
  BY DEF IInv, TypeOK
<1>1. CASE ClientNext
  BY <1>1, ClientSound
<1>2. CASE \E t \in Threads : ThreadNext(t)
  BY <1>2, ThreadSound
<1>3. CASE IrqNext
  BY <1>3, IrqSound
<1>4. CASE (\E w \in Waiters : WaiterNext(w)) \/ EngineTransfers \/ TimerExpires \/ DmaTimeout \/ UNCHANGED vars
  <2>1. UNCHANGED <<chan, active, bufs, thr>>
    BY <1>4 DEF WaiterNext, WaitBegin, WaitWoken, WaitTimesOut, WaitEnd, EngineTransfers,
                TimerExpires, DmaTimeout, vars
  <2>2. QED
    BY <2>1, SoundAside
<1>5. CASE DoneWork
  <2>1. UNCHANGED <<active, bufs, thr>> /\ (chan' = chan \/ CleanSync(chan))
    BY <1>5 DEF DoneWork
  <2>2. SameLists(chan, chan') /\ chan'.wild = chan.wild
    BY <1>0, <2>1, CleanSyncLists DEF SameLists
  <2>3. QED
    BY <2>1, <2>2, SoundAside DEF SameLists
<1>6. QED
  BY <1>1, <1>2, <1>3, <1>4, <1>5 DEF Next

\* A start comes to an end while nobody unlocks all buffers.
LEMMA BeginsReleased ==
  ASSUME IInv, [Next]_vars, state # "STARTED", state' = "STARTED"
  PROVE  AllReleased'
<1> USE DEF timerVars, memVars, hwVars, lifeVars
<1>1. PICK t \in Threads : StartSucceeds(t)
  <2>1. CASE ClientNext
    BY <2>1 DEF ClientNext, Open, CreateHead, FreeBufHead, CreateUserbuf, FreeUserbuf, UnlockBuffer,
                QueueBuffer, GetNextImage, GetActImage, Stop, StopLocked
  <2>2. ASSUME NEW t \in Threads, ThreadNext(t), ~StartSucceeds(t) PROVE FALSE
    BY <2>2, CleanSyncNotStarted DEF ThreadNext, StartNext, StartCheck, StartCancelWork, StartHeadGone,
                StartRelock, StartLock, StartBusy, StartBegin, StartCleanBuffer, StartFails,
                UnlockAllBegin, UnlockAllStep, UnlockAllEnd, CloseChannels, CloseMem, StopLocked
  <2>3. CASE IrqNext
    BY <2>3 DEF IrqNext, IrqEnter, IrqRead, IrqOverflow, IrqLock, IrqFrame, IrqFinish
  <2>4. CASE \/ (\E w \in Waiters : WaiterNext(w)) \/ EngineTransfers \/ TimerExpires \/ DmaTimeout
             \/ DoneWork \/ UNCHANGED vars
    BY <2>4, CleanSyncNotStarted DEF WaiterNext, WaitBegin, WaitWoken, WaitTimesOut, WaitEnd,
                EngineTransfers, TimerExpires, DmaTimeout, DoneWork, vars
  <2>5. QED
    BY <2>1, <2>2, <2>3, <2>4 DEF Next
<1>2. /\ thr[t].pc = "clean" /\ thr \in [Threads -> Thread] /\ IdleThread.pc = "idle"
      /\ thr' = [thr EXCEPT ![t] = IdleThread]
  BY <1>1 DEF StartSucceeds, IInv, TypeOK, IdleThread
<1>3. \A u \in Threads : u # t => thr[u].pc # "unlock"
  BY <1>2 DEF IInv, LockInv, HoldsBh
<1>4. \A u \in Threads : thr'[u].pc # "unlock"
  BY <1>2, <1>3
<1>5. QED
  BY <1>4 DEF AllReleased, Released

\* Once every slot is unlocked, no buffer is grabbed or locked.
LEMMA AllUnlocked ==
  ASSUME IInv, PlacedInv, AllReleased, state = "STARTED",
         NEW t \in Threads, thr[t].pc = "unlock", thr[t].idx = NumSb
  PROVE  chan.grabbed_count = 0 /\ chan.locked_count = 0
<1>1. chan \in Channel /\ Placed(chan, Mine, active)
  BY RunningPlaced DEF IInv, TypeOK
<1>2. \A b \in Mine : b[2] < NumSb
  BY NumSbAssumption DEF Mine, IInv, TypeOK, Buf, Slots
<1>3. \A b \in Mine : chan.listname[b] \notin {"GRABBED", "NO_LIST"}
  BY <1>2 DEF AllReleased, Released
<1>4. Tagged(chan.listname, Mine, "GRABBED") = {} /\ Tagged(chan.listname, Mine, "NO_LIST") = {}
  BY <1>3 DEF Tagged
<1>5. chan.locked_count = 0
  BY <1>1, <1>4, FS_EmptySet DEF Placed
<1>6. chan.grabbed_count = 0
  <2> DEFINE s == chan.grabbed_list
  <2>1. s \in Seq(Buf) /\ chan.grabbed_count = Len(s) /\ \A b \in Buf : b \notin Members(s)
    BY <1>1, <1>4, CountParts DEF Placed, Holds
  <2> HIDE DEF s
  <2>2. Len(s) \in Nat /\ \A i \in 1 .. Len(s) : s[i] \in Buf /\ s[i] \in Members(s)
    BY <2>1 DEF Members
  <2>3. ~(1 \in 1 .. Len(s))
    BY <2>1, <2>2
  <2>4. QED
    BY <2>1, <2>2, <2>3
<1>7. QED
  BY <1>5, <1>6

\* The lists hold what they should and the loop over all slots has done its work.
ListsSound == PlacedInv /\ (state = "STARTED" => AllReleased)

\* Whatever clients do, the lists of a running acquisition go wrong in one way only:
\* men_queue_buffer for a buffer that another list holds, which the driver merely
\* warns of.  They are sound at first; while they are, they agree with their
\* counters and the BUG_ONs of men_ioctl_unlock_buffer do not fire; every other
\* step keeps them sound and takes no entry of an empty list.
THEOREM OnlyQueueingSpoilsTheLists ==
  Spec => /\ ListsSound
          /\ [](ListsSound /\ state = "STARTED" => ListsConsistent /\ UnlockAllComplete)
          /\ [][ListsSound /\ ~QueuesUnfree
                 => ListsSound' /\ (state = "STARTED" => chan'.wild = chan.wild)]_vars
<1>1. Init => ListsSound
  BY InitPlaced DEF Init, ListsSound
<1>2. IInv /\ ListsSound /\ state = "STARTED" => ListsConsistent /\ UnlockAllComplete
  BY PlacedAgrees, AllUnlocked DEF ListsSound, UnlockAllComplete
<1>3. IInv /\ [Next]_vars /\ ListsSound /\ ~QueuesUnfree
      => ListsSound' /\ (state = "STARTED" => chan'.wild = chan.wild)
  <2> SUFFICES ASSUME IInv, [Next]_vars, ListsSound, ~QueuesUnfree
               PROVE  ListsSound' /\ (state = "STARTED" => chan'.wild = chan.wild)
    OBVIOUS
  <2>1. PlacedInv'
    BY NextPlaced DEF ListsSound
  <2>2. CASE state = "STARTED"
    BY <2>1, <2>2, NextSound DEF ListsSound, StaysSound
  <2>3. CASE state # "STARTED"
    BY <2>1, <2>3, BeginsReleased DEF ListsSound
  <2>4. QED
    BY <2>2, <2>3
<1>4. QED
  BY <1>1, <1>2, <1>3, Inductive, PTL DEF Spec
=============================================================================
