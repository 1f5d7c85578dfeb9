-------------------------- MODULE DmaChannelProofs --------------------------
(***************************************************************************)
(* Type correctness and the control invariants of DmaChannel, for every    *)
(* number of heads, slots, threads and waiters, every FIFO depth, every    *)
(* set of modes, frame counts and faults.                                  *)
(***************************************************************************)
EXTENDS DmaChannel, TLAPS

(***************************************************************************)
(* What the list operations of BufferLists preserve: each takes a channel  *)
(* record to a channel record and leaves alone what the control part of    *)
(* DmaChannel relies on.                                                   *)
(***************************************************************************)

\* No list operation changes how many frames are still to be transferred or
\* how many have been received; only MoveHot and a start do.
SameProgress(c, d) == d.transfer_todo = c.transfer_todo /\ d.goodcnt = c.goodcnt

\* unsigned int arithmetic stays in the naturals.
LEMMA CounterType ==
  ASSUME NEW n \in Nat
  PROVE  Inc(n) \in Nat /\ Dec(n) \in Nat
BY UintMaxAssumption DEF Inc, Dec

\* list_del of an element leaves a list of the same elements, one shorter.
LEMMA UnlinkType ==
  ASSUME NEW S, NEW s \in Seq(S), NEW b
  PROVE  Unlink(s, b) \in Seq(S)
<1>1. CASE \E i \in 1 .. Len(s) : s[i] = b
  <2> DEFINE k == CHOOSE i \in 1 .. Len(s) : s[i] = b
             u == [i \in 1 .. Len(s) - 1 |-> IF i < k THEN s[i] ELSE s[i + 1]]
  <2>1. Unlink(s, b) = u
    BY <1>1 DEF Unlink
  <2>2. Len(s) \in Nat /\ Len(s) - 1 \in Nat /\ \A i \in 1 .. Len(s) : s[i] \in S
    BY <1>1
  <2>3. \A i \in 1 .. Len(s) - 1 : (IF i < k THEN s[i] ELSE s[i + 1]) \in S
    BY <2>2
  <2>4. u \in [1 .. Len(s) - 1 -> S]
    BY <2>3
  <2>5. QED
    BY <2>1, <2>2, <2>4
<1>2. CASE ~ \E i \in 1 .. Len(s) : s[i] = b
  BY <1>2 DEF Unlink
<1>3. QED
  BY <1>1, <1>2

\* A prefix of a list is a list of the same elements' type.
LEMMA FirstNType ==
  ASSUME NEW S, NEW s \in Seq(S), NEW n \in Int
  PROVE  FirstN(s, n) \in Seq(S)
BY DEF FirstN, Min2

\* So is what remains after a prefix.
LEMMA AfterNType ==
  ASSUME NEW S, NEW s \in Seq(S), NEW n \in Nat
  PROVE  AfterN(s, n) \in Seq(S)
BY DEF AfterN

\* The zeroed structure of men_create_dmachan is a channel record.
LEMMA FreshChannelType == FreshChannel \in Channel
BY DEF FreshChannel, Channel, ListNames, Modes

\* The parts the record-valued operations are put together from.
LEMMA ChannelParts ==
  ASSUME NEW c \in Channel, NEW b \in Buf
  PROVE  /\ Append(c.free_list, b) \in Seq(Buf)
         /\ Append(c.ready_list, b) \in Seq(Buf)
         /\ Append(c.grabbed_list, b) \in Seq(Buf)
         /\ \A l \in ListNames : [c.listname EXCEPT ![b] = l] \in [Buf -> ListNames]
         /\ \A n \in Nat : [c.frame_number EXCEPT ![b] = n] \in [Buf -> Nat]
BY DEF Channel

\* The types of the fields of a channel record, for citing.
LEMMA CountParts ==
  ASSUME NEW c \in Channel
  PROVE  /\ c.free_count \in Nat /\ c.ready_count \in Nat /\ c.hot_count \in Nat
         /\ c.grabbed_count \in Nat /\ c.locked_count \in Nat /\ c.lost_count \in Nat
         /\ c.goodcnt \in Nat /\ c.latest_frame_number \in Nat /\ c.transfer_todo \in Int
         /\ c.free_list \in Seq(Buf) /\ c.ready_list \in Seq(Buf)
         /\ c.grabbed_list \in Seq(Buf) /\ c.hot_list \in Seq(Buf \cup Dummies)
         /\ c.listname \in [Buf -> ListNames] /\ c.frame_number \in [Buf -> Nat]
         /\ c.wild \in BOOLEAN /\ c.mode \in Modes
BY DEF Channel

\* Emptying the lists in men_clean_bh keeps the record well formed and the
\* number of frames still to transfer.
LEMMA ClearListsType ==
  ASSUME NEW c \in Channel
  PROVE  /\ ClearLists(c) \in Channel
         /\ ClearLists(c).transfer_todo = c.transfer_todo
         /\ ClearLists(c).goodcnt = 0
<1>1. <<>> \in Seq(Buf) /\ <<>> \in Seq(Buf \cup Dummies) /\ 0 \in Nat
  OBVIOUS
<1>2. ClearLists(c) \in Channel
  BY <1>1 DEF Channel, ClearLists
<1>3. ClearLists(c).transfer_todo = c.transfer_todo
  BY DEF Channel, ClearLists
<1>4. ClearLists(c).goodcnt = 0
  BY DEF Channel, ClearLists
<1>5. QED
  BY <1>2, <1>3, <1>4

\* list_add_tail to the ready list.
LEMMA AddReadyType ==
  ASSUME NEW c \in Channel, NEW b \in Buf
  PROVE  AddReady(c, b) \in Channel /\ SameProgress(c, AddReady(c, b))
<1>1. Inc(c.ready_count) \in Nat /\ "READY" \in ListNames
  BY CounterType, CountParts DEF ListNames
<1>2. AddReady(c, b) \in Channel
  BY <1>1, ChannelParts DEF Channel, AddReady
<1>3. SameProgress(c, AddReady(c, b))
  BY DEF Channel, AddReady, SameProgress
<1>4. QED
  BY <1>2, <1>3

\* list_add_tail to the free list.
LEMMA AddFreeType ==
  ASSUME NEW c \in Channel, NEW b \in Buf
  PROVE  AddFree(c, b) \in Channel /\ SameProgress(c, AddFree(c, b))
<1>1. Inc(c.free_count) \in Nat /\ "FREE" \in ListNames
  BY CounterType, CountParts DEF ListNames
<1>2. AddFree(c, b) \in Channel
  BY <1>1, ChannelParts DEF Channel, AddFree
<1>3. SameProgress(c, AddFree(c, b))
  BY DEF Channel, AddFree, SameProgress
<1>4. QED
  BY <1>2, <1>3

\* One iteration of men_clean_bh.
LEMMA CleanBufferType ==
  ASSUME NEW c \in Channel, NEW b \in Buf
  PROVE  CleanBuffer(c, b) \in Channel /\ SameProgress(c, CleanBuffer(c, b))
BY AddReadyType, AddFreeType DEF CleanBuffer

-----------------------------------------------------------------------------
(* men_dma_queue_max                                                       *)

\* The remainder of unsigned int arithmetic is a natural number.
LEMMA UintType ==
  ASSUME NEW n \in Int
  PROVE  n % (UintMax + 1) \in 0 .. UintMax
<1>1. UintMax + 1 \in Nat \ {0}
  BY UintMaxAssumption
<1>2. QED
  BY <1>1, UintMaxAssumption

\* It never queues more buffers than are counted as ready.
LEMMA NumToQueueBound ==
  ASSUME NEW c \in Channel
  PROVE  NumToQueue(c) \in Nat /\ c.ready_count - NumToQueue(c) \in Nat
<1> DEFINE t == c.transfer_todo
           h == c.hot_count
           r == c.ready_count
           f == FreeInFifo(c)
<1>1. t \in Int /\ h \in Nat /\ r \in Nat
  BY CountParts
<1>2. f \in Nat
  <2>1. FifoLength - h \in Int
    BY <1>1, FifoLengthAssumption
  <2>2. f \in 0 .. UintMax
    BY <2>1, UintType DEF FreeInFifo
  <2>3. QED
    BY <2>2, UintMaxAssumption
<1>3. NumToQueue(c) = IF t <= h THEN 0 ELSE Min2(Min2(t - h, r), f)
  BY DEF NumToQueue
<1> HIDE DEF t, h, r, f
<1>4. NumToQueue(c) \in Nat /\ r - NumToQueue(c) \in Nat
  BY <1>1, <1>2, <1>3 DEF Min2
<1>5. QED
  BY <1>4 DEF r

\* What queue_sb is given are buffers of the channel or its dummy buffer.
LEMMA QueuedType ==
  ASSUME NEW c \in Channel, NEW h \in Heads
  PROVE  Queued(c, h) \in Seq(Buf \cup Dummies)
<1>1. DummyBuf(h) \in Buf \cup Dummies
  BY DEF Dummies
<1>2. <<DummyBuf(h)>> \in Seq(Buf \cup Dummies)
  BY <1>1
<1>3. FirstN(c.ready_list, NumToQueue(c)) \in Seq(Buf)
  BY FirstNType, NumToQueueBound, CountParts
<1>4. FirstN(c.ready_list, NumToQueue(c)) \in Seq(Buf \cup Dummies)
  BY <1>3
<1>5. QED
  BY <1>2, <1>4 DEF Queued

\* men_dma_queue_max keeps the record well formed and the progress of the
\* acquisition.
LEMMA QueueMaxType ==
  ASSUME NEW c \in Channel, NEW h \in Heads
  PROVE  QueueMax(c, h) \in Channel /\ SameProgress(c, QueueMax(c, h))
<1> DEFINE n == NumToQueue(c)
           q == FirstN(c.ready_list, n)
           rest == AfterN(c.ready_list, n)
           names == [b \in Buf |-> IF b \in Members(q) THEN "HOT" ELSE c.listname[b]]
           numbers == [b \in Buf |-> IF b \in Members(q) THEN 0 ELSE c.frame_number[b]]
           w == (c.wild \/ n > Len(c.ready_list))
           hot == c.hot_list \o q
           dummyhot == <<DummyBuf(h)>> \o c.hot_list
<1>1. CASE WantsDummy(c)
  <2>1. QueueMax(c, h) = [c EXCEPT !.hot_list = dummyhot, !.hot_count = Inc(c.hot_count)]
    BY <1>1 DEF QueueMax
  <2>2. DummyBuf(h) \in Buf \cup Dummies
    BY DEF Dummies
  <2>3. dummyhot \in Seq(Buf \cup Dummies)
    BY <2>2, CountParts
  <2>4. Inc(c.hot_count) \in Nat
    BY CounterType, CountParts
  <2> HIDE DEF dummyhot
  <2>5. QED
    BY <2>1, <2>3, <2>4 DEF Channel, SameProgress
<1>2. CASE ~WantsDummy(c)
  <2>1. n \in Nat /\ c.ready_count - n \in Nat
    BY NumToQueueBound
  <2>2. q \in Seq(Buf) /\ rest \in Seq(Buf)
    <3> HIDE DEF n
    <3>1. c.ready_list \in Seq(Buf) /\ n \in Int
      BY <2>1, CountParts
    <3>2. QED
      BY <2>1, <3>1, FirstNType, AfterNType
  <2>3. hot \in Seq(Buf \cup Dummies)
    <3>1. q \in Seq(Buf \cup Dummies)
      BY <2>2
    <3>2. QED
      BY <3>1, CountParts
  <2>4. names \in [Buf -> ListNames] /\ numbers \in [Buf -> Nat] /\ w \in BOOLEAN
    BY CountParts DEF ListNames
  <2> DEFINE fewer == c.ready_count - n
             more  == (c.hot_count + n) % (UintMax + 1)
             d     == [c EXCEPT !.hot_list = hot, !.ready_list = rest,
                                !.ready_count = fewer, !.hot_count = more,
                                !.wild = w, !.listname = names, !.frame_number = numbers]
  <2>5. QueueMax(c, h) = d
    BY <1>2 DEF QueueMax
  <2>6. fewer \in Nat /\ more \in Nat
    <3>1. c.hot_count + n \in Int
      BY <2>1, CountParts
    <3>2. more \in 0 .. UintMax
      BY <3>1, UintType
    <3>3. QED
      BY <2>1, <3>2, UintMaxAssumption
  <2> HIDE DEF n, q, rest, names, numbers, w, hot, fewer, more
  <2>7. d \in Channel
    BY <2>2, <2>3, <2>4, <2>6 DEF Channel
  <2>8. SameProgress(c, d)
    BY DEF Channel, SameProgress
  <2>9. QED
    BY <2>5, <2>7, <2>8
<1>3. QED
  BY <1>1, <1>2

-----------------------------------------------------------------------------
(* men_move_hot                                                            *)

\* An entry of the hot list whose index is not -1 is a real buffer.
LEMMA NotDummy ==
  ASSUME NEW b \in Buf \cup Dummies, ~IsDummy(b)
  PROVE  b \in Buf
BY DEF Dummies, DummyBuf, IsDummy

\* The common part of men_move_hot takes one frame off the number to transfer.
LEMMA ReceivedType ==
  ASSUME NEW c \in Channel, c.hot_list # <<>>
  PROVE  /\ Received(c) \in Channel
         /\ Received(c).transfer_todo = c.transfer_todo - 1
<1> DEFINE rest == Tail(c.hot_list)
           n    == Dec(c.hot_count)
           todo == c.transfer_todo - 1
           num  == c.latest_frame_number + 1
           d    == [c EXCEPT !.transfer_todo = todo, !.hot_count = n,
                             !.latest_frame_number = num, !.hot_list = rest]
<1>1. rest \in Seq(Buf \cup Dummies) /\ n \in Nat /\ todo \in Int /\ num \in Nat
  <2>1. c.hot_list \in Seq(Buf \cup Dummies) /\ c.hot_count \in Nat
        /\ c.transfer_todo \in Int /\ c.latest_frame_number \in Nat
    BY CountParts
  <2>2. rest \in Seq(Buf \cup Dummies)
    BY <2>1
  <2>3. n \in Nat
    BY <2>1, CounterType
  <2>4. QED
    BY <2>1, <2>2, <2>3
<1>2. Received(c) = d
  BY DEF Received
<1> HIDE DEF rest, n, todo, num
<1>3. d \in Channel
  BY <1>1 DEF Channel
<1>4. d.transfer_todo = todo
  BY DEF Channel
<1>5. QED
  BY <1>2, <1>3, <1>4 DEF todo

\* The mode-dependent part of men_move_hot counts one good frame.
LEMMA DeliverType ==
  ASSUME NEW c \in Channel, NEW b \in Buf
  PROVE  Deliver(c, b) \in Channel /\ Deliver(c, b).transfer_todo = c.transfer_todo
<1> DEFINE good    == c.goodcnt + 1
           numbers == [c.frame_number EXCEPT ![b] = c.latest_frame_number]
           d       == [c EXCEPT !.goodcnt = good, !.frame_number = numbers]
           e       == [d EXCEPT !.grabbed_list = Append(@, b), !.grabbed_count = Inc(@),
                                !.listname[b] = "GRABBED"]
<1>1. good \in Nat /\ numbers \in [Buf -> Nat]
  BY CountParts, ChannelParts
<1>2. d = [c EXCEPT !.goodcnt = @ + 1, !.frame_number[b] = c.latest_frame_number]
  OBVIOUS
<1> HIDE DEF good, numbers
<1>3. d \in Channel
  BY <1>1 DEF Channel
<1>4. d.transfer_todo = c.transfer_todo
  BY DEF Channel
<1> HIDE DEF d
<1>5. e \in Channel
  <2>1. Inc(d.grabbed_count) \in Nat /\ "GRABBED" \in ListNames
    BY <1>3, CounterType, CountParts DEF ListNames
  <2>2. QED
    BY <1>3, <2>1, ChannelParts DEF Channel
<1>6. e.transfer_todo = d.transfer_todo
  BY <1>3 DEF Channel
<1>7. Deliver(c, b) = CASE c.mode = "HANDSHAKE" -> e
                        [] c.mode = "SELECTIVE" -> AddFree(d, b)
                        [] OTHER                -> AddReady(d, b)
  BY <1>2 DEF Deliver
<1> HIDE DEF e
<1>8. /\ AddFree(d, b) \in Channel  /\ AddFree(d, b).transfer_todo = d.transfer_todo
      /\ AddReady(d, b) \in Channel /\ AddReady(d, b).transfer_todo = d.transfer_todo
  BY <1>3, AddFreeType, AddReadyType DEF SameProgress
<1>9. QED
  BY <1>4, <1>5, <1>6, <1>7, <1>8

\* A received frame never raises the number of frames still to transfer.
LEMMA MoveHotType ==
  ASSUME NEW c \in Channel
  PROVE  MoveHot(c) \in Channel /\ MoveHot(c).transfer_todo <= c.transfer_todo
<1>1. CASE c.hot_count = 0
  <2>1. c.lost_count + 1 \in Nat
    BY CountParts
  <2>2. MoveHot(c) = [c EXCEPT !.lost_count = c.lost_count + 1]
    BY <1>1 DEF MoveHot
  <2>3. MoveHot(c) \in Channel /\ MoveHot(c).transfer_todo = c.transfer_todo
    BY <2>1, <2>2 DEF Channel
  <2>4. QED
    BY <2>3, CountParts
<1>2. CASE c.hot_count # 0 /\ c.hot_list = <<>>
  <2>1. MoveHot(c) \in Channel /\ MoveHot(c).transfer_todo = c.transfer_todo
    BY <1>2 DEF MoveHot, Channel
  <2>2. QED
    BY <2>1, CountParts
<1>3. CASE c.hot_count # 0 /\ c.hot_list # <<>>
  <2> DEFINE b == Head(c.hot_list)
             r == Received(c)
             d == [r EXCEPT !.lost_count = @ + 1]
  <2>1. b \in Buf \cup Dummies
    BY <1>3, CountParts
  <2>2. r \in Channel /\ r.transfer_todo = c.transfer_todo - 1 /\ c.transfer_todo \in Int
    BY <1>3, ReceivedType, CountParts
  <2>3. MoveHot(c) = IF IsDummy(b) THEN d ELSE Deliver(r, b)
    BY <1>3 DEF MoveHot
  <2> HIDE DEF b, r
  <2>4. r.lost_count + 1 \in Nat
    BY <2>2, CountParts
  <2>5. d \in Channel /\ d.transfer_todo = r.transfer_todo
    BY <2>2, <2>4 DEF Channel
  <2>6. ~IsDummy(b) => Deliver(r, b) \in Channel /\ Deliver(r, b).transfer_todo = r.transfer_todo
    BY <2>1, <2>2, NotDummy, DeliverType
  <2>7. QED
    BY <2>2, <2>3, <2>5, <2>6
<1>4. QED
  BY <1>1, <1>2, <1>3

-----------------------------------------------------------------------------
(* Buffers in the hands of the client                                      *)

\* men_next_blocked.
LEMMA NextBlockedType ==
  ASSUME NEW c \in Channel
  PROVE  NextBlocked(c) \in Channel /\ SameProgress(c, NextBlocked(c))
<1>1. CASE c.grabbed_count = 0
  BY <1>1 DEF NextBlocked, SameProgress
<1>2. CASE c.grabbed_count # 0 /\ c.grabbed_list = <<>>
  BY <1>2 DEF NextBlocked, Channel, SameProgress
<1>3. CASE c.grabbed_count # 0 /\ c.grabbed_list # <<>>
  <2> DEFINE b     == Head(c.grabbed_list)
             rest  == Tail(c.grabbed_list)
             fewer == Dec(c.grabbed_count)
             more  == Inc(c.locked_count)
             names == [c.listname EXCEPT ![b] = "NO_LIST"]
             d     == [c EXCEPT !.grabbed_list = rest, !.grabbed_count = fewer,
                                !.locked_count = more, !.listname = names]
  <2>1. b \in Buf /\ rest \in Seq(Buf)
    BY <1>3, CountParts
  <2>2. fewer \in Nat /\ more \in Nat
    BY CountParts, CounterType
  <2>3. names \in [Buf -> ListNames]
    BY <2>1, ChannelParts DEF ListNames
  <2>4. NextBlocked(c) = d
    BY <1>3 DEF NextBlocked
  <2> HIDE DEF b, rest, fewer, more, names
  <2>5. d \in Channel
    BY <2>1, <2>2, <2>3 DEF Channel
  <2>6. SameProgress(c, d)
    BY DEF Channel, SameProgress
  <2>7. QED
    BY <2>4, <2>5, <2>6
<1>4. QED
  BY <1>1, <1>2, <1>3

\* men_last_blocked.
LEMMA LastBlockedType ==
  ASSUME NEW c \in Channel
  PROVE  LastBlocked(c) \in Channel /\ SameProgress(c, LastBlocked(c))
<1>1. CASE c.grabbed_count = 0
  BY <1>1 DEF LastBlocked, SameProgress
<1>2. CASE c.grabbed_count # 0 /\ c.grabbed_count > Len(c.grabbed_list)
  BY <1>2 DEF LastBlocked, Channel, SameProgress
<1>3. CASE c.grabbed_count # 0 /\ ~(c.grabbed_count > Len(c.grabbed_list))
  <2> DEFINE n     == c.grabbed_count
             old   == FirstN(c.grabbed_list, n - 1)
             last  == c.grabbed_list[n]
             ready == c.ready_list \o old
             more  == c.ready_count + (n - 1)
             rest  == AfterN(c.grabbed_list, n)
             locks == Inc(c.locked_count)
             names == [b \in Buf |-> IF b = last THEN "NO_LIST"
                                     ELSE IF b \in Members(old) THEN "READY"
                                     ELSE c.listname[b]]
             d     == [c EXCEPT !.ready_list = ready, !.ready_count = more,
                                !.grabbed_list = rest, !.grabbed_count = 0,
                                !.locked_count = locks, !.listname = names]
  <2>1. n \in Nat /\ n - 1 \in Nat /\ more \in Nat /\ locks \in Nat
    <3>1. c.grabbed_count \in Nat /\ c.ready_count \in Nat /\ locks \in Nat
      BY CountParts, CounterType
    <3>2. QED
      BY <1>3, <3>1
  <2>2. old \in Seq(Buf) /\ rest \in Seq(Buf)
    <3> HIDE DEF n
    <3>1. c.grabbed_list \in Seq(Buf) /\ n \in Nat /\ n - 1 \in Int
      BY <2>1, CountParts
    <3>2. QED
      BY <3>1, FirstNType, AfterNType
  <2>3. ready \in Seq(Buf)
    BY <2>2, CountParts
  <2>4. names \in [Buf -> ListNames]
    BY CountParts DEF ListNames
  <2>5. LastBlocked(c) = d
    BY <1>3 DEF LastBlocked
  <2> HIDE DEF n, old, last, ready, more, rest, locks, names
  <2>6. d \in Channel
    BY <2>1, <2>2, <2>3, <2>4 DEF Channel
  <2>7. SameProgress(c, d)
    BY DEF Channel, SameProgress
  <2>8. QED
    BY <2>5, <2>6, <2>7
<1>4. QED
  BY <1>1, <1>2, <1>3

\* men_unblock_buffer before it refills the board.
LEMMA UnblockedType ==
  ASSUME NEW c \in Channel, NEW b \in Buf
  PROVE  Unblocked(c, b) \in Channel /\ SameProgress(c, Unblocked(c, b))
<1> DEFINE r == AddReady(c, b)
           g == Unlink(r.grabbed_list, b)
           n == Dec(r.grabbed_count)
           k == Dec(r.locked_count)
           d == [r EXCEPT !.grabbed_list = g, !.grabbed_count = n]
           e == [r EXCEPT !.locked_count = k]
<1>1. r \in Channel /\ SameProgress(c, r)
  BY AddReadyType
<1>2. Unblocked(c, b) = CASE c.listname[b] = "GRABBED" -> d
                          [] c.listname[b] = "NO_LIST" -> e
                          [] OTHER -> c
  BY DEF Unblocked
<1> HIDE DEF r
<1>3. g \in Seq(Buf) /\ n \in Nat /\ k \in Nat
  BY <1>1, CountParts, CounterType, UnlinkType
<1> HIDE DEF g, n, k
<1>4. d \in Channel /\ e \in Channel
  BY <1>1, <1>3 DEF Channel
<1>5. SameProgress(c, d) /\ SameProgress(c, e) /\ SameProgress(c, c)
  BY <1>1 DEF Channel, SameProgress
<1> HIDE DEF d, e
<1>6. QED
  BY <1>2, <1>4, <1>5

\* men_unblock_buffer as a whole.
LEMMA UnblockBufferType ==
  ASSUME NEW c \in Channel, NEW b \in Buf, NEW h \in Heads
  PROVE  /\ UnblockBuffer(c, b, h) \in Channel
         /\ SameProgress(c, UnblockBuffer(c, b, h))
         /\ UnblockQueues(c, b, h) \in Seq(Buf \cup Dummies)
<1>1. Unblocked(c, b) \in Channel /\ SameProgress(c, Unblocked(c, b))
  BY UnblockedType
<1>2. /\ QueueMax(Unblocked(c, b), h) \in Channel
      /\ SameProgress(Unblocked(c, b), QueueMax(Unblocked(c, b), h))
      /\ Queued(Unblocked(c, b), h) \in Seq(Buf \cup Dummies)
  BY <1>1, QueueMaxType, QueuedType
<1>3. <<>> \in Seq(Buf \cup Dummies)
  OBVIOUS
<1>4. QED
  BY <1>1, <1>2, <1>3 DEF UnblockBuffer, UnblockQueues, SameProgress

\* The move to the ready list in men_queue_buffer.
LEMMA MoveToReadyType ==
  ASSUME NEW c \in Channel, NEW b \in Buf
  PROVE  MoveToReady(c, b) \in Channel /\ SameProgress(c, MoveToReady(c, b))
<1> DEFINE f == Unlink(c.free_list, b)
           h == Unlink(c.hot_list, b)
           g == Unlink(c.grabbed_list, b)
           u == Unlink(c.ready_list, b)
           r == Append(u, b)
           names == [c.listname EXCEPT ![b] = "READY"]
           m == Dec(c.free_count)
           n == Inc(c.ready_count)
           w == (c.wild \/ c.listname[b] = "NO_LIST")
           d == [c EXCEPT !.free_list = f, !.hot_list = h, !.grabbed_list = g,
                          !.ready_list = r, !.listname = names, !.free_count = m,
                          !.ready_count = n, !.wild = w]
<1>1. f \in Seq(Buf) /\ h \in Seq(Buf \cup Dummies) /\ g \in Seq(Buf) /\ u \in Seq(Buf)
  BY CountParts, UnlinkType
<1>2. r \in Seq(Buf)
  <2> HIDE DEF u
  <2> QED BY <1>1
<1>3. m \in Nat /\ n \in Nat /\ w \in BOOLEAN
  BY CountParts, CounterType
<1>4. names \in [Buf -> ListNames]
  BY ChannelParts DEF ListNames
<1>5. MoveToReady(c, b) = d
  BY DEF MoveToReady
<1> HIDE DEF f, h, g, u, r, names, m, n, w
<1>6. d \in Channel
  BY <1>1, <1>2, <1>3, <1>4 DEF Channel
<1>7. SameProgress(c, d)
  BY DEF Channel, SameProgress
<1>8. QED
  BY <1>5, <1>6, <1>7

\* The unlinking in men_free_userbuf.
LEMMA RemoveBufferType ==
  ASSUME NEW c \in Channel, NEW b \in Buf
  PROVE  RemoveBuffer(c, b) \in Channel /\ SameProgress(c, RemoveBuffer(c, b))
<1> DEFINE l == c.listname[b]
           Drop(name, n) == IF l = name THEN Dec(n) ELSE n
           f == Unlink(c.free_list, b)     fn == Drop("FREE", c.free_count)
           r == Unlink(c.ready_list, b)    rn == Drop("READY", c.ready_count)
           h == Unlink(c.hot_list, b)      hn == Drop("HOT", c.hot_count)
           g == Unlink(c.grabbed_list, b)  gn == Drop("GRABBED", c.grabbed_count)
           k == Drop("NO_LIST", c.locked_count)
           d == [c EXCEPT !.free_list = f, !.free_count = fn, !.ready_list = r,
                          !.ready_count = rn, !.hot_list = h, !.hot_count = hn,
                          !.grabbed_list = g, !.grabbed_count = gn, !.locked_count = k]
<1>1. f \in Seq(Buf) /\ h \in Seq(Buf \cup Dummies) /\ g \in Seq(Buf) /\ r \in Seq(Buf)
  BY CountParts, UnlinkType
<1>2. fn \in Nat /\ rn \in Nat /\ hn \in Nat /\ gn \in Nat /\ k \in Nat
  BY CountParts, CounterType
<1>3. RemoveBuffer(c, b) = d
  BY DEF RemoveBuffer
<1> HIDE DEF f, h, g, r, fn, rn, hn, gn, k
<1>4. d \in Channel
  BY <1>1, <1>2 DEF Channel
<1>5. SameProgress(c, d)
  BY DEF Channel, SameProgress
<1>6. QED
  BY <1>3, <1>4, <1>5

-----------------------------------------------------------------------------

(***************************************************************************)
(* The inductive invariant.  None of the control invariants is inductive   *)
(* alone: what a thread read before it dropped or took a lock stays true   *)
(* only because of who else can hold locks meanwhile.                      *)
(***************************************************************************)

Starting == {"locked", "begin", "clean"}

\* Lock discipline: one thread at a time in a section under buffer_heads_lock,
\* none under chanlock while the interrupt handler books frames, and nobody
\* else in the driver while the last file handle is closed.
LockInv ==
  /\ \A t, u \in Threads : HoldsBh(t) /\ HoldsBh(u) => t = u
  /\ \A t \in Threads : HoldsChan(t) => irq.pc # "frames"
  /\ \A t, u \in Threads : thr[t].pc = "close" /\ u # t => thr[u].pc = "idle"

\* What a thread may still rely on at each of its steps.
ThreadInv(t) ==
  /\ thr[t].pc \in Starting \cup {"window", "relock"} => thr[t].head \in Heads /\ thr[t].todo \in Todos
  /\ thr[t].pc \in Starting => thr[t].head \in heads
  /\ thr[t].pc \in {"locked", "begin"} => state # "STARTED"
  /\ thr[t].pc = "clean" => active = thr[t].head /\ chan.transfer_todo > 0
  /\ thr[t].pc = "unlock" => thr[t].head \in linked
  /\ thr[t].pc = "close" /\ state = "STARTED" => irq.pc = "frames" /\ chan.transfer_todo <= 0
  /\ thr[t].pc \in Starting => \A w \in Waiters : waits[w].sleeping => waits[w].done

\* The interrupt handler books frames only for a head, and a channel is
\* STARTING only before its first start or while a start is in progress.
ChanInv ==
  /\ irq.pc = "frames" => active # NoHead
  /\ state = "STARTING" => linked = {} \/ \E t \in Threads : thr[t].pc = "clean"

IInv ==
  /\ TypeOK
  /\ LockInv
  /\ \A t \in Threads : ThreadInv(t)
  /\ ChanInv
  /\ LinkConsistent
  /\ StartedIsStoppable
  /\ NoLostWakeup

\* The variables the control invariants are about, beside the progress of the
\* acquisition (SameProgress).
controlVars == <<state, active, heads, linked, thr, waits, irq>>

\* The invariant holds when the channel has just been created.
LEMMA InitIInv == Init => IInv
<1> SUFFICES ASSUME Init PROVE IInv
  OBVIOUS
<1>1. TypeOK
  <2>1. FreshChannel \in Channel
    BY FreshChannelType
  <2>2. IdleThread \in Thread
    BY NumSbAssumption DEF IdleThread, Thread, ThreadPcs, Modes, Slots
  <2>3. AwakeWaiter \in Waiter
    BY DEF AwakeWaiter, Waiter
  <2>4. IdleIrq \in Irq /\ ResetEngine \in Engine
    BY DEF IdleIrq, Irq, ResetEngine, Engine
  <2>5. 0 \in 0 .. MaxStarts
    BY ChannelAssumption
  <2>6. QED
    BY <2>1, <2>2, <2>3, <2>4, <2>5 DEF Init, TypeOK, States
<1>2. LockInv /\ \A t \in Threads : ThreadInv(t)
  BY DEF Init, LockInv, HoldsBh, HoldsChan, ThreadInv, Starting, IdleThread
<1>3. ChanInv /\ LinkConsistent /\ StartedIsStoppable /\ NoLostWakeup
  BY DEF Init, ChanInv, LinkConsistent, StartedIsStoppable, NoLostWakeup, IdleIrq, AwakeWaiter
<1>4. QED
  BY <1>1, <1>2, <1>3 DEF IInv

\* A step that leaves control and progress alone preserves everything but the
\* types, which is left to show.
LEMMA ControlUnchanged ==
  ASSUME IInv, TypeOK', SameProgress(chan, chan'), UNCHANGED controlVars
  PROVE  IInv'
<1> USE DEF controlVars, SameProgress
<1>1. LockInv'
  BY DEF IInv, LockInv, HoldsBh, HoldsChan
<1>2. (\A t \in Threads : ThreadInv(t))'
  BY DEF IInv, ThreadInv
<1>3. (ChanInv /\ LinkConsistent /\ StartedIsStoppable /\ NoLostWakeup)'
  BY DEF IInv, ChanInv, LinkConsistent, StartedIsStoppable, NoLostWakeup
<1>4. QED
  BY <1>1, <1>2, <1>3 DEF IInv

\* Opening the device changes nothing the invariant is about.
LEMMA OpenStep ==
  ASSUME IInv, Open
  PROVE  IInv'
<1>1. TypeOK'
  BY DEF IInv, TypeOK, Open, timerVars, memVars, hwVars
<1>2. QED
  BY <1>1, ControlUnchanged DEF Open, controlVars, memVars, hwVars, SameProgress

-----------------------------------------------------------------------------
(* Registering and removing buffers.                                       *)

\* A new head (men_create_buf_head) is linked to no channel.
LEMMA CreateHeadStep ==
  ASSUME IInv, NEW h \in Heads, CreateHead(h)
  PROVE  IInv'
<1> USE DEF CreateHead, timerVars, hwVars, lifeVars
<1>1. TypeOK'
  BY DEF IInv, TypeOK
<1>2. LockInv'
  BY DEF IInv, LockInv, HoldsBh, HoldsChan
<1>3. (\A t \in Threads : ThreadInv(t))'
  BY DEF IInv, ThreadInv
<1>4. (ChanInv /\ LinkConsistent /\ StartedIsStoppable /\ NoLostWakeup)'
  BY DEF IInv, ChanInv, LinkConsistent, StartedIsStoppable, NoLostWakeup
<1>5. QED
  BY <1>1, <1>2, <1>3, <1>4 DEF IInv

\* A new buffer (men_create_userbuf) only joins the free list.
LEMMA CreateUserbufStep ==
  ASSUME IInv, NEW b \in Buf, CreateUserbuf(b)
  PROVE  IInv'
<1> DEFINE names   == [chan.listname EXCEPT ![b] = "FREE"]
           numbers == [chan.frame_number EXCEPT ![b] = 0]
           c       == [chan EXCEPT !.listname = names, !.frame_number = numbers]
<1>1. chan \in Channel
  BY DEF IInv, TypeOK
<1>2. names \in [Buf -> ListNames] /\ numbers \in [Buf -> Nat]
  BY <1>1, ChannelParts DEF ListNames
<1>3. chan' \in {c, AddFree(c, b)}
  BY DEF CreateUserbuf
<1> HIDE DEF names, numbers
<1>4. c \in Channel /\ SameProgress(chan, c)
  BY <1>1, <1>2 DEF Channel, SameProgress
<1> HIDE DEF c
<1>5. chan' \in Channel /\ SameProgress(chan, chan')
  BY <1>3, <1>4, AddFreeType DEF SameProgress
<1>6. TypeOK'
  BY <1>5 DEF IInv, TypeOK, CreateUserbuf, timerVars, hwVars, lifeVars
<1>7. QED
  BY <1>5, <1>6, ControlUnchanged DEF CreateUserbuf, controlVars, hwVars

\* Removing a buffer (men_free_userbuf) touches lists and counters only.
LEMMA FreeUserbufStep ==
  ASSUME IInv, NEW b \in Buf, FreeUserbuf(b)
  PROVE  IInv'
<1>1. chan \in Channel
  BY DEF IInv, TypeOK
<1>2. chan' \in {chan, RemoveBuffer(chan, b)}
  BY DEF FreeUserbuf
<1>3. chan' \in Channel /\ SameProgress(chan, chan')
  BY <1>1, <1>2, RemoveBufferType DEF SameProgress
<1>4. TypeOK'
  BY <1>3 DEF IInv, TypeOK, FreeUserbuf, timerVars, hwVars, lifeVars
<1>5. QED
  BY <1>3, <1>4, ControlUnchanged DEF FreeUserbuf, controlVars, hwVars

\* Marking the threads whose head went away changes no program counter.
LEMMA MarkMovedKeeps ==
  ASSUME thr \in [Threads -> Thread], NEW H, MarkMoved(H)
  PROVE  /\ thr' \in [Threads -> Thread]
         /\ \A t \in Threads : /\ thr'[t].pc = thr[t].pc
                               /\ thr'[t].head = thr[t].head
                               /\ thr'[t].todo = thr[t].todo
                               /\ thr'[t].cancelled = thr[t].cancelled
<1> SUFFICES ASSUME NEW t \in Threads
             PROVE  /\ thr'[t] \in Thread
                    /\ thr'[t].pc = thr[t].pc /\ thr'[t].head = thr[t].head
                    /\ thr'[t].todo = thr[t].todo /\ thr'[t].cancelled = thr[t].cancelled
  BY DEF MarkMoved
<1>1. thr'[t] \in {thr[t], [thr[t] EXCEPT !.moved = TRUE]} /\ thr[t] \in Thread
  BY DEF MarkMoved
<1>2. QED
  BY <1>1 DEF Thread

\* men_ioctl_free_virt_buffer clears the channel's pointer together with the head,
\* and no start that holds buffer_heads_lock can have that head.
LEMMA FreeBufHeadStep ==
  ASSUME IInv, NEW h \in Heads, FreeBufHead(h)
  PROVE  IInv'
<1> USE DEF FreeBufHead, ReleaseHeads, timerVars, hwVars, lifeVars
<1>0. /\ thr' \in [Threads -> Thread]
      /\ \A t \in Threads : /\ thr'[t].pc = thr[t].pc /\ thr'[t].head = thr[t].head
                            /\ thr'[t].todo = thr[t].todo
      /\ \A t \in Threads : ~HoldsBh(t)
  BY MarkMovedKeeps DEF IInv, TypeOK, BhFree
<1>1. TypeOK'
  BY <1>0 DEF IInv, TypeOK
<1>2. LockInv'
  BY <1>0 DEF IInv, LockInv, HoldsBh, HoldsChan
<1>3. (\A t \in Threads : ThreadInv(t))'
  BY <1>0 DEF IInv, ThreadInv, HoldsBh, Starting
<1>4. ChanInv' /\ LinkConsistent'
  BY <1>0 DEF IInv, TypeOK, ChanInv, LinkConsistent, HoldsBh, ChanFree
<1>5. (StartedIsStoppable /\ NoLostWakeup)'
  BY DEF IInv, StartedIsStoppable, NoLostWakeup
<1>6. QED
  BY <1>1, <1>2, <1>3, <1>4, <1>5 DEF IInv

-----------------------------------------------------------------------------
(* fg_start_transfer.                                                      *)

\* The first section of fg_start_transfer: from here the thread holds
\* buffer_heads_lock on a channel that is not started, or has dropped it again.
LEMMA StartCheckStep ==
  ASSUME IInv, NEW t \in Threads, NEW b \in Buf, NEW n \in Todos, NEW m \in StartModes,
         NEW tmo \in Timeouts, StartCheck(t, b, n, m, tmo)
  PROVE IInv'
<1> USE DEF StartCheck, timerVars, memVars, hwVars
<1>1. TypeOK'
  <2> DEFINE r == [pc |-> IF state = "STOPPING" THEN "window" ELSE "locked",
                head |-> b[1], slot |-> b[2], idx |-> 0, todo |-> n, mode |-> m,
                timeout |-> tmo, cancelled |-> FALSE, moved |-> FALSE]
  <2>1. r \in Thread
    BY NumSbAssumption, ChannelAssumption DEF Thread, ThreadPcs, Buf, Slots
  <2>2. thr' \in [Threads -> Thread]
    BY <2>1 DEF IInv, TypeOK
  <2>3. starts' \in 0 .. MaxStarts
    BY ChannelAssumption DEF IInv, TypeOK
  <2>4. QED
    BY <2>2, <2>3 DEF IInv, TypeOK
<1>2. LockInv'
  BY DEF IInv, TypeOK, LockInv, HoldsBh, HoldsChan, BhFree
<1>3. (\A u \in Threads : ThreadInv(u))'
  BY DEF IInv, TypeOK, ThreadInv, Starting, NoLostWakeup
<1>4. (ChanInv /\ LinkConsistent /\ StartedIsStoppable /\ NoLostWakeup)'
  BY DEF IInv, TypeOK, ChanInv, LinkConsistent, StartedIsStoppable, NoLostWakeup
<1>5. QED
  BY <1>1, <1>2, <1>3, <1>4 DEF IInv

\* cancel_work_sync touches neither links nor progress.
LEMMA StartCancelWorkStep ==
  ASSUME IInv, NEW t \in Threads, StartCancelWork(t)
  PROVE  IInv'
<1> USE DEF StartCancelWork, timerVars, memVars, hwVars, lifeVars
<1>0. /\ thr[t] \in Thread
      /\ thr' = [thr EXCEPT ![t] = [thr[t] EXCEPT !.pc = "relock", !.cancelled = dwork]]
      /\ dwork \in BOOLEAN
  BY DEF IInv, TypeOK
<1>1. TypeOK'
  <2>1. [thr[t] EXCEPT !.pc = "relock", !.cancelled = dwork] \in Thread
    BY <1>0 DEF Thread, ThreadPcs
  <2>2. QED
    BY <1>0, <2>1 DEF IInv, TypeOK
<1>2. LockInv'
  BY <1>0 DEF IInv, TypeOK, LockInv, HoldsBh, HoldsChan, Thread
<1>3. (\A u \in Threads : ThreadInv(u))'
  BY <1>0 DEF IInv, TypeOK, ThreadInv, Starting, Thread
<1>4. (ChanInv /\ LinkConsistent /\ StartedIsStoppable /\ NoLostWakeup)'
  BY <1>0 DEF IInv, TypeOK, ChanInv, LinkConsistent, StartedIsStoppable, NoLostWakeup, Thread
<1>5. QED
  BY <1>1, <1>2, <1>3, <1>4 DEF IInv

\* The record of a thread outside the driver.
LEMMA IdleThreadType == IdleThread \in Thread /\ IdleThread.pc = "idle"
BY NumSbAssumption DEF IdleThread, Thread, ThreadPcs, Modes, Slots

\* Giving up because the head is gone.
LEMMA StartHeadGoneStep ==
  ASSUME IInv, NEW t \in Threads, StartHeadGone(t)
  PROVE  IInv'
<1> USE IdleThreadType DEF StartHeadGone, timerVars, memVars, hwVars, lifeVars
<1>1. TypeOK'
  BY DEF IInv, TypeOK
<1>2. LockInv'
  BY DEF IInv, TypeOK, LockInv, HoldsBh, HoldsChan
<1>3. (\A u \in Threads : ThreadInv(u))'
  BY DEF IInv, TypeOK, ThreadInv, Starting
<1>4. (ChanInv /\ LinkConsistent /\ StartedIsStoppable /\ NoLostWakeup)'
  BY DEF IInv, TypeOK, ChanInv, LinkConsistent, StartedIsStoppable, NoLostWakeup
<1>5. QED
  BY <1>1, <1>2, <1>3, <1>4 DEF IInv

\* Waking every waiter leaves none asleep unnotified.
LEMMA CompleteAllKeeps ==
  ASSUME waits \in [Waiters -> Waiter], CompleteAll
  PROVE  /\ waits' \in [Waiters -> Waiter]
         /\ \A w \in Waiters : waits'[w].sleeping => waits'[w].done
BY DEF CompleteAll, CompleteIf, Waiter

\* me6_stopdma keeps the engine's record well formed.
LEMMA StopDmaType ==
  ASSUME engine \in Engine, StopDma
  PROVE  engine' \in Engine
<1>1. PICK r \in BOOLEAN : engine' = [engine EXCEPT !.running = engine.running /\ r]
  BY DEF StopDma, StopResults
<1>2. (engine.running /\ r) \in BOOLEAN
  BY DEF Engine
<1>3. QED
  BY <1>1, <1>2 DEF Engine

\* men_dma_clean_sync stops the channel and notifies every waiter, or spins.
LEMMA CleanSyncKeeps ==
  ASSUME TypeOK, NEW c \in Channel, CleanSync(c)
  PROVE  /\ chan' \in Channel /\ chan'.goodcnt = c.goodcnt
         /\ timerArmed' \in BOOLEAN /\ hung' \in BOOLEAN
         /\ waits' \in [Waiters -> Waiter]
         /\ \/ /\ state' = "STOPPED"
               /\ \A w \in Waiters : waits'[w].sleeping => waits'[w].done
            \/ state' = "STOPPING" /\ waits' = waits /\ hung'
<1>1. CASE timerRunning
  BY <1>1 DEF CleanSync, TypeOK
<1>2. CASE ~timerRunning
  <2> DEFINE d == [c EXCEPT !.transfer_todo = 0]
  <2>1. d \in Channel /\ d.goodcnt = c.goodcnt
    <3>1. 0 \in Int
      OBVIOUS
    <3>2. d \in Channel
      BY <3>1 DEF Channel
    <3>3. QED
      BY <3>2 DEF Channel
  <2>2. chan' \in Channel /\ chan'.goodcnt = c.goodcnt
    BY <1>2, <2>1 DEF CleanSync
  <2>3. QED
    BY <1>2, <2>2, CompleteAllKeeps DEF CleanSync, TypeOK
<1>3. QED
  BY <1>1, <1>2

\* The section of fg_start_transfer after cancel_work_sync: the channel is stopped
\* when the thread goes on, by whoever finished the stop.
LEMMA StartRelockStep ==
  ASSUME IInv, NEW t \in Threads, StartRelock(t)
  PROVE  IInv'
<1> USE IdleThreadType DEF memVars, lifeVars
<1>1. /\ thr[t].pc = "relock" /\ thr[t] \in Thread /\ thr[t].head \in heads
      /\ \A u \in Threads : ~HoldsBh(u)
      /\ irq.pc # "frames"
      /\ UNCHANGED <<active, timeout, timerRunning, dwork, irq, heads, linked, bufs, open, starts>>
  BY DEF StartRelock, BhFree, ChanFree, IInv, TypeOK
<1>2. /\ chan' \in Channel /\ chan'.goodcnt = chan.goodcnt
      /\ timerArmed' \in BOOLEAN /\ hung' \in BOOLEAN /\ engine' \in Engine
      /\ waits' \in [Waiters -> Waiter]
      /\ \/ /\ state' = "STOPPED"
            /\ \A w \in Waiters : waits'[w].sleeping => waits'[w].done
         \/ state = "STOPPING" /\ state' = "STOPPING" /\ waits' = waits
         \/ chan' = chan /\ state' = state /\ waits' = waits
  <2>1. CASE thr[t].cancelled /\ state = "STOPPING"
    BY <2>1, CleanSyncKeeps, StopDmaType DEF StartRelock, IInv, TypeOK
  <2>2. CASE ~(thr[t].cancelled /\ state = "STOPPING")
    BY <2>2 DEF StartRelock, IInv, TypeOK
  <2>3. QED
    BY <2>1, <2>2
<1>3. /\ thr' \in [Threads -> Thread]
      /\ \A u \in Threads : u # t => thr'[u] = thr[u]
      /\ \/ thr'[t].pc = "idle"
         \/ /\ state' = "STOPPED" /\ thr'[t].pc = "begin"
            /\ thr'[t].head = thr[t].head /\ thr'[t].todo = thr[t].todo
  <2>1. PICK same \in BOOLEAN :
          thr' = [thr EXCEPT ![t] = IF state' = "STOPPED" /\ same
                                    THEN [thr[t] EXCEPT !.pc = "begin"] ELSE IdleThread]
    BY DEF StartRelock
  <2>2. /\ [thr[t] EXCEPT !.pc = "begin"] \in Thread
        /\ [thr[t] EXCEPT !.pc = "begin"].pc = "begin"
        /\ [thr[t] EXCEPT !.pc = "begin"].head = thr[t].head
        /\ [thr[t] EXCEPT !.pc = "begin"].todo = thr[t].todo
    BY <1>1 DEF Thread, ThreadPcs
  <2>3. QED
    BY <2>1, <2>2 DEF IInv, TypeOK
<1>4. TypeOK'
  BY <1>1, <1>2, <1>3 DEF IInv, TypeOK, States
<1>5. LockInv'
  BY <1>1, <1>3 DEF IInv, LockInv, HoldsBh, HoldsChan
<1>6. (\A u \in Threads : ThreadInv(u))'
  <2> SUFFICES ASSUME NEW u \in Threads PROVE ThreadInv(u)'
    OBVIOUS
  <2>1. CASE u # t
    <3>1. thr'[u] = thr[u] /\ thr[u].pc \notin Starting \cup {"unlock", "close"}
      BY <1>1, <1>3, <2>1 DEF HoldsBh, Starting
    <3>2. QED
      BY <1>1, <3>1 DEF IInv, ThreadInv, Starting
  <2>2. CASE u = t /\ thr'[t].pc = "idle"
    BY <2>2 DEF ThreadInv, Starting
  <2>3. CASE u = t /\ thr'[t].pc # "idle"
    <3>1. thr[t].head \in Heads /\ thr[t].todo \in Todos
      BY <1>1 DEF IInv, ThreadInv
    <3>2. state' = "STOPPED" /\ thr'[t].pc = "begin"
          /\ thr'[t].head = thr[t].head /\ thr'[t].todo = thr[t].todo
      BY <1>3, <2>3
    <3>3. \A w \in Waiters : waits'[w].sleeping => waits'[w].done
      BY <1>2, <3>2 DEF IInv, TypeOK, Waiter, NoLostWakeup
    <3>4. QED
      BY <1>1, <2>3, <3>1, <3>2, <3>3 DEF ThreadInv, Starting
  <2>4. QED
    BY <2>1, <2>2, <2>3
<1>7. ChanInv' /\ LinkConsistent'
  BY <1>1, <1>2, <1>3 DEF IInv, ChanInv, LinkConsistent, HoldsBh
<1>8. StartedIsStoppable' /\ NoLostWakeup'
  BY <1>1, <1>2 DEF IInv, StartedIsStoppable, NoLostWakeup
<1>9. QED
  BY <1>4, <1>5, <1>6, <1>7, <1>8 DEF IInv

\* Taking chanlock: the handler is outside its section, and the channel cannot have
\* been started since the check because buffer_heads_lock was held.
LEMMA StartLockStep ==
  ASSUME IInv, NEW t \in Threads, StartLock(t)
  PROVE  IInv'
<1> USE DEF StartLock, timerVars, memVars, hwVars, lifeVars
<1>0. /\ thr[t] \in Thread /\ irq.pc # "frames"
      /\ thr' = [thr EXCEPT ![t] = [thr[t] EXCEPT !.pc = "begin"]]
  BY DEF IInv, TypeOK, ChanFree
<1>1. TypeOK'
  <2>1. [thr[t] EXCEPT !.pc = "begin"] \in Thread
    BY <1>0 DEF Thread, ThreadPcs
  <2>2. QED
    BY <1>0, <2>1 DEF IInv, TypeOK
<1>2. LockInv'
  BY <1>0 DEF IInv, TypeOK, LockInv, HoldsBh, HoldsChan, Thread
<1>3. (\A u \in Threads : ThreadInv(u))'
  BY <1>0 DEF IInv, TypeOK, ThreadInv, Starting, Thread
<1>4. (ChanInv /\ LinkConsistent /\ StartedIsStoppable /\ NoLostWakeup)'
  BY <1>0 DEF IInv, TypeOK, ChanInv, LinkConsistent, StartedIsStoppable, NoLostWakeup, Thread
<1>5. QED
  BY <1>1, <1>2, <1>3, <1>4 DEF IInv

\* While one thread is in a section under buffer_heads_lock, every other thread
\* is outside the driver or between two sections, where it relies on nothing
\* that the step of the first can change.
LEMMA OtherThreads ==
  ASSUME IInv, NEW t \in Threads, HoldsBh(t), NEW u \in Threads, u # t, thr'[u] = thr[u]
  PROVE  ThreadInv(u)' /\ thr[u].pc \notin {"locked", "begin", "clean", "unlock", "close"}
<1>1. thr[u].pc \notin {"locked", "begin", "clean", "unlock", "close"}
  BY DEF IInv, LockInv, HoldsBh
<1>2. ThreadInv(u)'
  BY <1>1 DEF IInv, ThreadInv, Starting
<1>3. QED
  BY <1>1, <1>2

\* Storing the request of a start.
LEMMA StoreRequestType ==
  ASSUME IInv, NEW t \in Threads, thr[t].pc = "begin"
  PROVE  /\ StoreRequest(t) \in Channel
         /\ StoreRequest(t).transfer_todo > 0
         /\ StoreRequest(t).goodcnt = chan.goodcnt
<1>1. /\ chan \in Channel /\ thr[t] \in Thread
      /\ thr[t].todo \in Nat \ {0} /\ thr[t].todo \in Int /\ thr[t].mode \in Modes
  <2>1. chan \in Channel /\ thr[t] \in Thread
    BY DEF IInv, TypeOK
  <2>2. thr[t].todo \in Todos
    BY DEF IInv, ThreadInv, Starting
  <2>3. thr[t].todo \in Nat \ {0}
    BY <2>2, ChannelAssumption
  <2>4. thr[t].mode \in Modes
    BY <2>1 DEF Thread
  <2>5. QED
    BY <2>1, <2>3, <2>4
<1>2. StoreRequest(t) \in Channel
  BY <1>1 DEF StoreRequest, Channel
<1>3. StoreRequest(t).transfer_todo = thr[t].todo
  BY <1>1 DEF StoreRequest, Channel
<1>4. StoreRequest(t).goodcnt = chan.goodcnt
  BY <1>1 DEF StoreRequest, Channel
<1>5. QED
  BY <1>1, <1>2, <1>3, <1>4

\* A refused start ends in men_dma_clean_sync and gives up its locks.
LEMMA StartBusyStep ==
  ASSUME IInv, NEW t \in Threads, StartBusy(t)
  PROVE  IInv'
<1> USE IdleThreadType DEF memVars, lifeVars
<1>1. /\ thr[t].pc = "begin" /\ HoldsBh(t) /\ HoldsChan(t) /\ irq.pc # "frames"
      /\ thr' = [thr EXCEPT ![t] = IdleThread]
      /\ thr' \in [Threads -> Thread]
      /\ UNCHANGED <<active, timerRunning, irq, heads, linked, bufs, open, starts>>
  BY DEF StartBusy, IInv, TypeOK, HoldsBh, HoldsChan, LockInv
<1>2. /\ chan' \in Channel /\ chan'.goodcnt = chan.goodcnt
      /\ timerArmed' \in BOOLEAN /\ hung' \in BOOLEAN /\ engine' \in Engine
      /\ waits' \in [Waiters -> Waiter]
      /\ state' \in {"STOPPED", "STOPPING"}
      /\ (\A w \in Waiters : waits'[w].sleeping => waits'[w].done) \/ waits' = waits
  BY <1>1, StoreRequestType, CleanSyncKeeps, StopDmaType DEF StartBusy, IInv, TypeOK
<1>3. \A w \in Waiters : waits'[w].sleeping => waits'[w].done
  BY <1>1, <1>2 DEF IInv, ThreadInv, Starting
<1>4. timeout' \in BOOLEAN /\ dwork' \in BOOLEAN
  BY DEF StartBusy, InitWork, IInv, TypeOK, Thread
<1>5. TypeOK'
  BY <1>1, <1>2, <1>4 DEF IInv, TypeOK, States
<1>6. LockInv'
  BY <1>1 DEF IInv, TypeOK, LockInv, HoldsBh, HoldsChan
<1>7. (\A u \in Threads : ThreadInv(u))'
  <2> SUFFICES ASSUME NEW u \in Threads PROVE ThreadInv(u)'
    OBVIOUS
  <2>1. CASE u # t
    BY <1>1, <2>1, OtherThreads DEF IInv, TypeOK
  <2>2. CASE u = t
    BY <1>1, <2>2 DEF IInv, TypeOK, ThreadInv, Starting
  <2>3. QED
    BY <2>1, <2>2
<1>8. ChanInv' /\ LinkConsistent'
  <2>1. \A u \in Threads : thr[u].pc # "clean"
    BY <1>1 DEF IInv, LockInv, HoldsBh
  <2>2. QED
    BY <1>1, <1>2, <2>1 DEF IInv, ChanInv, LinkConsistent
<1>9. StartedIsStoppable' /\ NoLostWakeup'
  BY <1>1, <1>2, <1>3 DEF StartedIsStoppable, NoLostWakeup
<1>10. QED
  BY <1>5, <1>6, <1>7, <1>8, <1>9 DEF IInv

\* men_start_dma moves the channel's pointer to the new head.
LEMMA StartBeginStep ==
  ASSUME IInv, NEW t \in Threads, StartBegin(t)
  PROVE  IInv'
<1> USE DEF hwVars, lifeVars
<1> DEFINE c == StoreRequest(t)
<1>1. /\ thr[t].pc = "begin" /\ HoldsBh(t) /\ HoldsChan(t) /\ irq.pc # "frames"
      /\ thr[t] \in Thread
      /\ thr' = [thr EXCEPT ![t] = [thr[t] EXCEPT !.pc = "clean"]]
      /\ active' = thr[t].head /\ state' = "STARTING"
      /\ UNCHANGED <<timerArmed, timerRunning, heads, bufs, waits, hung, irq, engine, open, starts>>
  BY DEF StartBegin, IInv, TypeOK, HoldsBh, HoldsChan, LockInv
<1>2. /\ thr[t].head \in Heads /\ thr[t].head \in heads /\ thr[t].todo \in Todos
      /\ thr[t].head # NoHead
      /\ \A w \in Waiters : waits[w].sleeping => waits[w].done
  BY <1>1, ChannelAssumption DEF IInv, ThreadInv, Starting
<1>3. chan' \in Channel /\ chan'.transfer_todo > 0
  BY <1>1, StoreRequestType, ClearListsType DEF StartBegin
<1>4. /\ thr' \in [Threads -> Thread]
      /\ thr'[t].pc = "clean" /\ thr'[t].head = thr[t].head /\ thr'[t].todo = thr[t].todo
      /\ \A u \in Threads : u # t => thr'[u] = thr[u]
  <2>1. /\ [thr[t] EXCEPT !.pc = "clean"] \in Thread
        /\ [thr[t] EXCEPT !.pc = "clean"].pc = "clean"
        /\ [thr[t] EXCEPT !.pc = "clean"].head = thr[t].head
        /\ [thr[t] EXCEPT !.pc = "clean"].todo = thr[t].todo
    BY <1>1 DEF Thread, ThreadPcs
  <2>2. QED
    BY <1>1, <2>1 DEF IInv, TypeOK
<1>5. timeout' \in BOOLEAN /\ dwork' \in BOOLEAN /\ linked' \subseteq {active'} \cap Heads
  BY <1>1 DEF StartBegin, InitWork, IInv, TypeOK, Thread, LinkConsistent
<1>6. TypeOK'
  BY <1>1, <1>2, <1>3, <1>4, <1>5 DEF IInv, TypeOK, States
<1>7. LockInv'
  BY <1>1, <1>4 DEF IInv, LockInv, HoldsBh, HoldsChan
<1>8. (\A u \in Threads : ThreadInv(u))'
  <2> SUFFICES ASSUME NEW u \in Threads PROVE ThreadInv(u)'
    OBVIOUS
  <2>1. CASE u # t
    BY <1>1, <1>4, <2>1, OtherThreads
  <2>2. CASE u = t
    BY <1>1, <1>2, <1>3, <1>4, <2>2 DEF ThreadInv, Starting
  <2>3. QED
    BY <2>1, <2>2
<1>9. ChanInv' /\ LinkConsistent'
  BY <1>1, <1>2, <1>4, <1>5 DEF ChanInv, LinkConsistent
<1>10. StartedIsStoppable' /\ NoLostWakeup'
  BY <1>1, <1>2 DEF StartedIsStoppable, NoLostWakeup
<1>11. QED
  BY <1>6, <1>7, <1>8, <1>9, <1>10 DEF IInv

\* One iteration of men_clean_bh.
LEMMA StartCleanBufferStep ==
  ASSUME IInv, NEW t \in Threads, StartCleanBuffer(t)
  PROVE  IInv'
<1> USE DEF timerVars, memVars, hwVars, lifeVars
<1> DEFINE b == <<active, (thr[t].slot + thr[t].idx) % NumSb>>
<1>1. /\ thr[t].pc = "clean" /\ HoldsBh(t) /\ thr[t] \in Thread /\ thr[t].idx < NumSb
      /\ thr' = [thr EXCEPT ![t] = [thr[t] EXCEPT !.idx = thr[t].idx + 1]]
      /\ UNCHANGED <<state, active, dwork, waits, hung, timerVars, memVars, hwVars, lifeVars>>
  BY DEF StartCleanBuffer, IInv, TypeOK, HoldsBh
<1>2. active \in Heads
  BY <1>1 DEF IInv, ThreadInv, Starting
<1>3. chan' \in Channel /\ SameProgress(chan, chan')
  <2>1. chan \in Channel /\ bufs \subseteq Buf
    BY DEF IInv, TypeOK
  <2>2. chan' = IF b \in bufs THEN CleanBuffer(chan, b) ELSE chan
    BY DEF StartCleanBuffer
  <2> HIDE DEF b
  <2>3. QED
    BY <2>1, <2>2, CleanBufferType DEF SameProgress
<1>4. /\ thr' \in [Threads -> Thread]
      /\ \A u \in Threads : /\ thr'[u].pc = thr[u].pc /\ thr'[u].head = thr[u].head
                            /\ thr'[u].todo = thr[u].todo
  <2>1. thr[t].idx + 1 \in 0 .. NumSb
    BY <1>1, NumSbAssumption DEF Thread
  <2>2. /\ [thr[t] EXCEPT !.idx = thr[t].idx + 1] \in Thread
        /\ [thr[t] EXCEPT !.idx = thr[t].idx + 1].pc = thr[t].pc
        /\ [thr[t] EXCEPT !.idx = thr[t].idx + 1].head = thr[t].head
        /\ [thr[t] EXCEPT !.idx = thr[t].idx + 1].todo = thr[t].todo
    BY <1>1, <2>1 DEF Thread
  <2>3. QED
    BY <1>1, <2>2 DEF IInv, TypeOK
<1>5. TypeOK'
  BY <1>1, <1>3, <1>4 DEF IInv, TypeOK
<1>6. LockInv'
  BY <1>1, <1>4 DEF IInv, LockInv, HoldsBh, HoldsChan
<1>7. (\A u \in Threads : ThreadInv(u))'
  BY <1>1, <1>3, <1>4 DEF IInv, ThreadInv, SameProgress
<1>8. ChanInv' /\ LinkConsistent'
  BY <1>1, <1>4 DEF IInv, ChanInv, LinkConsistent
<1>9. StartedIsStoppable' /\ NoLostWakeup'
  BY <1>1, <1>3 DEF IInv, StartedIsStoppable, NoLostWakeup, SameProgress
<1>10. QED
  BY <1>5, <1>6, <1>7, <1>8, <1>9 DEF IInv

\* The engine after me6_abortdma.
LEMMA ResetEngineType == ResetEngine \in Engine
BY DEF ResetEngine, Engine

\* The end of men_clean_bh and of men_start_dma: common to success and failure.
LEMMA StartEnds ==
  ASSUME IInv, NEW t \in Threads, thr[t].pc = "clean",
         thr' = [thr EXCEPT ![t] = IdleThread], linked' = linked \cup {active},
         irq'.pc = irq.pc, UNCHANGED <<active, heads>>
  PROVE  /\ LockInv'
         /\ (\A u \in Threads : ThreadInv(u))'
         /\ linked' \in SUBSET Heads /\ thr' \in [Threads -> Thread]
         /\ irq'.pc # "frames"
         /\ LinkConsistent'
<1> USE IdleThreadType
<1>1. HoldsBh(t) /\ HoldsChan(t) /\ irq.pc # "frames" /\ active \in Heads /\ active \in heads
  BY DEF HoldsBh, HoldsChan, IInv, LockInv, ThreadInv, Starting
<1>2. thr' \in [Threads -> Thread] /\ linked' \in SUBSET Heads
  BY <1>1 DEF IInv, TypeOK
<1>3. LockInv'
  BY <1>1 DEF IInv, TypeOK, LockInv, HoldsBh, HoldsChan
<1>4. (\A u \in Threads : ThreadInv(u))'
  <2> SUFFICES ASSUME NEW u \in Threads PROVE ThreadInv(u)'
    OBVIOUS
  <2>1. CASE u # t
    BY <1>1, <2>1, OtherThreads DEF IInv, TypeOK
  <2>2. CASE u = t
    BY <2>2 DEF IInv, TypeOK, ThreadInv, Starting
  <2>3. QED
    BY <2>1, <2>2
<1>5. LinkConsistent'
  BY <1>1 DEF IInv, LinkConsistent
<1>6. QED
  BY <1>1, <1>2, <1>3, <1>4, <1>5

\* A failed start leaves the channel stopped with its head linked.
LEMMA StartFailsStep ==
  ASSUME IInv, NEW t \in Threads, StartFails(t)
  PROVE  IInv'
<1> USE DEF lifeVars
<1> DEFINE e == [ResetEngine EXCEPT !.fifo = Queued(chan, active)]
<1>1. /\ thr[t].pc = "clean" /\ chan \in Channel /\ active \in Heads /\ irq \in Irq
      /\ UNCHANGED <<active, timeout, timerRunning, dwork, heads, bufs, open, starts>>
  BY DEF StartFails, IInv, TypeOK, ThreadInv, Starting
<1>2. irq' \in Irq /\ irq'.pc = irq.pc
  BY <1>1 DEF StartFails, Irq
<1>3. /\ LockInv' /\ (\A u \in Threads : ThreadInv(u))'
      /\ linked' \in SUBSET Heads /\ thr' \in [Threads -> Thread]
      /\ irq'.pc # "frames" /\ LinkConsistent'
  BY <1>1, <1>2, StartEnds DEF StartFails
<1>4. e \in Engine
  <2>1. Queued(chan, active) \in Seq(Buf \cup Dummies)
    BY <1>1, QueuedType
  <2>2. QED
    BY <2>1, ResetEngineType DEF Engine
<1>5. PICK c \in Channel : CleanSync(c)
  <2>1. QueueMax(chan, active) \in Channel
    BY <1>1, QueueMaxType
  <2>2. QED
    BY <1>1, <2>1 DEF StartFails
<1>6. engine' \in Engine
  BY <1>4, StopDmaType DEF StartFails, IInv, TypeOK
<1>7. /\ chan' \in Channel /\ timerArmed' \in BOOLEAN /\ hung' \in BOOLEAN
      /\ waits' \in [Waiters -> Waiter] /\ state' \in {"STOPPED", "STOPPING"}
      /\ (\A w \in Waiters : waits'[w].sleeping => waits'[w].done) \/ waits' = waits
  BY <1>5, CleanSyncKeeps DEF IInv
<1>8. TypeOK'
  BY <1>1, <1>2, <1>3, <1>6, <1>7 DEF IInv, TypeOK, States
<1>9. ChanInv' /\ StartedIsStoppable'
  BY <1>3, <1>7 DEF ChanInv, StartedIsStoppable
<1>10. NoLostWakeup'
  BY <1>1, <1>7 DEF IInv, ThreadInv, Starting, NoLostWakeup
<1>11. QED
  BY <1>3, <1>8, <1>9, <1>10 DEF IInv

\* A successful start: frames are outstanding and no waiter of an earlier
\* acquisition still sleeps unnotified.
LEMMA StartSucceedsStep ==
  ASSUME IInv, NEW t \in Threads, StartSucceeds(t)
  PROVE  IInv'
<1> USE DEF lifeVars
<1>1. /\ thr[t].pc = "clean" /\ chan \in Channel /\ active \in Heads /\ irq \in Irq
      /\ chan.transfer_todo > 0
      /\ state' = "STARTED"
      /\ UNCHANGED <<active, timeout, timerRunning, dwork, heads, bufs, waits, hung, open, starts>>
  BY DEF StartSucceeds, IInv, TypeOK, ThreadInv, Starting
<1>2. irq' \in Irq /\ irq'.pc = irq.pc
  BY <1>1 DEF StartSucceeds, Irq
<1>3. /\ LockInv' /\ (\A u \in Threads : ThreadInv(u))'
      /\ linked' \in SUBSET Heads /\ thr' \in [Threads -> Thread]
      /\ irq'.pc # "frames" /\ LinkConsistent'
  BY <1>1, <1>2, StartEnds DEF StartSucceeds
<1>4. chan' \in Channel /\ SameProgress(chan, chan')
  BY <1>1, QueueMaxType DEF StartSucceeds
<1>5. engine' \in Engine
  <2>1. Queued(chan, active) \in Seq(Buf \cup Dummies)
    BY <1>1, QueuedType
  <2>2. QED
    BY <2>1 DEF StartSucceeds, Engine
<1>6. timerArmed' \in BOOLEAN
  BY DEF StartSucceeds, IInv, TypeOK
<1>7. TypeOK'
  BY <1>1, <1>2, <1>3, <1>4, <1>5, <1>6 DEF IInv, TypeOK, States
<1>8. ChanInv' /\ StartedIsStoppable'
  BY <1>1, <1>3, <1>4 DEF ChanInv, StartedIsStoppable, SameProgress
<1>9. NoLostWakeup'
  BY <1>1 DEF IInv, ThreadInv, Starting, NoLostWakeup
<1>10. QED
  BY <1>3, <1>7, <1>8, <1>9 DEF IInv

-----------------------------------------------------------------------------
(* Stopping.                                                               *)

\* A channel record whose transfer_todo is set to zero.
LEMMA NoTodoType ==
  ASSUME NEW c \in Channel
  PROVE  /\ [c EXCEPT !.transfer_todo = 0] \in Channel
         /\ [c EXCEPT !.transfer_todo = 0].goodcnt = c.goodcnt
         /\ [c EXCEPT !.transfer_todo = 0].transfer_todo = 0
<1>1. 0 \in Int
  OBVIOUS
<1>2. [c EXCEPT !.transfer_todo = 0] \in Channel
  BY <1>1 DEF Channel
<1>3. [c EXCEPT !.transfer_todo = 0].goodcnt = c.goodcnt
  BY DEF Channel
<1>4. [c EXCEPT !.transfer_todo = 0].transfer_todo = 0
  BY DEF Channel
<1>5. QED
  BY <1>2, <1>3, <1>4

\* men_stop_dma_locked either begins a stop or finds no frames outstanding.
LEMMA StopLockedKeeps ==
  ASSUME TypeOK, StopLocked
  PROVE  /\ chan' \in Channel /\ chan'.goodcnt = chan.goodcnt /\ dwork' \in BOOLEAN
         /\ \/ state' = "STOPPING" /\ chan'.transfer_todo = 0
            \/ state' = state /\ chan' = chan /\ chan.transfer_todo <= 0
<1>1. chan \in Channel /\ chan.transfer_todo \in Int
  BY CountParts DEF TypeOK
<1>2. CASE chan.transfer_todo > 0
  BY <1>1, <1>2, NoTodoType DEF StopLocked
<1>3. CASE ~(chan.transfer_todo > 0)
  BY <1>1, <1>3 DEF StopLocked, TypeOK
<1>4. QED
  BY <1>2, <1>3

\* men_stop_dma.
LEMMA StopStep ==
  ASSUME IInv, Stop
  PROVE  IInv'
<1> USE DEF timerVars, memVars, hwVars, lifeVars
<1>1. /\ \A t \in Threads : ~HoldsBh(t)
      /\ irq.pc # "frames" /\ state = "STARTED"
      /\ UNCHANGED <<active, thr, waits, hung, timerVars, memVars, hwVars, lifeVars>>
  BY DEF Stop, BhFree, ChanFree
<1>2. /\ chan' \in Channel /\ chan'.goodcnt = chan.goodcnt /\ dwork' \in BOOLEAN
      /\ \/ state' = "STOPPING"
         \/ state' = state /\ chan' = chan
  BY StopLockedKeeps DEF Stop, IInv
<1>3. TypeOK'
  BY <1>1, <1>2 DEF IInv, TypeOK, States
<1>4. LockInv'
  BY <1>1 DEF IInv, LockInv, HoldsBh, HoldsChan
<1>5. (\A t \in Threads : ThreadInv(t))'
  BY <1>1 DEF IInv, ThreadInv, Starting, HoldsBh
<1>6. ChanInv' /\ LinkConsistent'
  BY <1>1, <1>2 DEF IInv, ChanInv, LinkConsistent
<1>7. StartedIsStoppable' /\ NoLostWakeup'
  BY <1>1, <1>2 DEF IInv, StartedIsStoppable, NoLostWakeup
<1>8. QED
  BY <1>3, <1>4, <1>5, <1>6, <1>7 DEF IInv

\* men_dma_done_work.
LEMMA DoneWorkStep ==
  ASSUME IInv, DoneWork
  PROVE  IInv'
<1> USE DEF memVars, lifeVars
<1>1. /\ \A t \in Threads : ~HoldsBh(t)
      /\ irq.pc # "frames" /\ dwork' = FALSE
      /\ UNCHANGED <<active, timeout, timerRunning, thr, irq, memVars, lifeVars>>
  BY DEF DoneWork, BhFree, ChanFree
<1>2. /\ chan' \in Channel /\ chan'.goodcnt = chan.goodcnt
      /\ timerArmed' \in BOOLEAN /\ hung' \in BOOLEAN /\ engine' \in Engine
      /\ waits' \in [Waiters -> Waiter]
      /\ \/ /\ state' = "STOPPED"
            /\ \A w \in Waiters : waits'[w].sleeping => waits'[w].done
         \/ state = "STOPPING" /\ state' = "STOPPING" /\ waits' = waits
         \/ chan' = chan /\ state' = state /\ waits' = waits
  <2>1. CASE state = "STOPPING"
    BY <2>1, CleanSyncKeeps, StopDmaType DEF DoneWork, IInv, TypeOK
  <2>2. CASE state # "STOPPING"
    BY <2>2 DEF DoneWork, IInv, TypeOK
  <2>3. QED
    BY <2>1, <2>2
<1>3. TypeOK'
  BY <1>1, <1>2 DEF IInv, TypeOK, States
<1>4. LockInv'
  BY <1>1 DEF IInv, LockInv, HoldsBh, HoldsChan
<1>5. (\A t \in Threads : ThreadInv(t))'
  BY <1>1 DEF IInv, ThreadInv, Starting, HoldsBh
<1>6. ChanInv' /\ LinkConsistent'
  BY <1>1, <1>2 DEF IInv, ChanInv, LinkConsistent
<1>7. StartedIsStoppable' /\ NoLostWakeup'
  BY <1>1, <1>2 DEF IInv, StartedIsStoppable, NoLostWakeup
<1>8. QED
  BY <1>3, <1>4, <1>5, <1>6, <1>7 DEF IInv

\* The expiry of the timer alone changes nothing the invariant is about.
LEMMA TimerExpiresStep ==
  ASSUME IInv, TimerExpires
  PROVE  IInv'
<1>1. TypeOK'
  BY DEF IInv, TypeOK, TimerExpires, memVars, hwVars, lifeVars
<1>2. QED
  BY <1>1, ControlUnchanged
     DEF TimerExpires, controlVars, memVars, hwVars, SameProgress

\* men_dma_timeout stops the channel and wakes every waiter.
LEMMA DmaTimeoutStep ==
  ASSUME IInv, DmaTimeout
  PROVE  IInv'
<1> USE DEF memVars, lifeVars
<1>1. /\ \A t \in Threads : ~HoldsBh(t)
      /\ state' = "STOPPED" /\ engine' = ResetEngine /\ timerRunning' = FALSE
      /\ UNCHANGED <<chan, active, timeout, timerArmed, dwork, thr, irq, hung, memVars, lifeVars>>
  BY DEF DmaTimeout, BhFree
<1>2. /\ waits' \in [Waiters -> Waiter]
      /\ \A w \in Waiters : waits'[w].sleeping => waits'[w].done
  BY CompleteAllKeeps DEF DmaTimeout, IInv, TypeOK
<1>3. TypeOK'
  BY <1>1, <1>2, ResetEngineType DEF IInv, TypeOK, States
<1>4. LockInv'
  BY <1>1 DEF IInv, LockInv, HoldsBh, HoldsChan
<1>5. (\A t \in Threads : ThreadInv(t))'
  BY <1>1 DEF IInv, ThreadInv, Starting, HoldsBh
<1>6. ChanInv' /\ LinkConsistent' /\ StartedIsStoppable' /\ NoLostWakeup'
  BY <1>1, <1>2 DEF IInv, ChanInv, LinkConsistent, StartedIsStoppable, NoLostWakeup
<1>7. QED
  BY <1>3, <1>4, <1>5, <1>6 DEF IInv

\* The last close, first part: without chanlock the channel may stay started only
\* if the handler is about to begin the stop itself.
LEMMA CloseChannelsStep ==
  ASSUME IInv, NEW t \in Threads, CloseChannels(t)
  PROVE  IInv'
<1> USE DEF timerVars, memVars, hwVars
<1>1. /\ \A u \in Threads : thr[u].pc = "idle"
      /\ \A w \in Waiters : ~waits[w].sleeping
      /\ thr[t] \in Thread /\ open' = FALSE
      /\ thr' = [thr EXCEPT ![t] = [thr[t] EXCEPT !.pc = "close"]]
      /\ UNCHANGED <<active, waits, starts, hung, timerVars, memVars, hwVars>>
  BY DEF CloseChannels, IInv, TypeOK
<1>2. /\ chan' \in Channel /\ chan'.goodcnt = chan.goodcnt /\ dwork' \in BOOLEAN
      /\ \/ state' = "STOPPING"
         \/ state' = state /\ chan' = chan /\ (state = "STARTED" => chan.transfer_todo <= 0)
  BY StopLockedKeeps DEF CloseChannels, IInv, TypeOK
<1>3. /\ thr' \in [Threads -> Thread] /\ thr'[t].pc = "close"
      /\ \A u \in Threads : u # t => thr'[u] = thr[u]
  <2>1. [thr[t] EXCEPT !.pc = "close"] \in Thread /\ [thr[t] EXCEPT !.pc = "close"].pc = "close"
    BY <1>1 DEF Thread, ThreadPcs
  <2>2. QED
    BY <1>1, <2>1 DEF IInv, TypeOK
<1>4. TypeOK'
  BY <1>1, <1>2, <1>3 DEF IInv, TypeOK, States
<1>5. LockInv'
  BY <1>1, <1>3 DEF LockInv, HoldsBh, HoldsChan
<1>6. (\A u \in Threads : ThreadInv(u))'
  <2> SUFFICES ASSUME NEW u \in Threads PROVE ThreadInv(u)'
    OBVIOUS
  <2>1. CASE u # t
    BY <1>1, <1>3, <2>1 DEF ThreadInv, Starting
  <2>2. CASE u = t
    <3>1. chan.transfer_todo \in Int
      BY CountParts DEF IInv, TypeOK
    <3>2. state' = "STARTED" => irq'.pc = "frames" /\ chan'.transfer_todo <= 0
      BY <1>1, <1>2, <3>1 DEF IInv, StartedIsStoppable
    <3>3. QED
      BY <1>3, <2>2, <3>2 DEF ThreadInv, Starting
  <2>3. QED
    BY <2>1, <2>2
<1>7. ChanInv' /\ LinkConsistent'
  BY <1>1, <1>2, <1>3 DEF IInv, ChanInv, LinkConsistent
<1>8. StartedIsStoppable' /\ NoLostWakeup'
  BY <1>1, <1>2 DEF IInv, StartedIsStoppable, NoLostWakeup
<1>9. QED
  BY <1>4, <1>5, <1>6, <1>7, <1>8 DEF IInv

\* The last close, second part: every head goes, and the channel's pointer with it.
LEMMA CloseMemStep ==
  ASSUME IInv, NEW t \in Threads, CloseMem(t)
  PROVE  IInv'
<1> USE IdleThreadType DEF timerVars, hwVars, lifeVars
<1>1. /\ thr[t].pc = "close" /\ (linked # {} => irq.pc # "frames")
      /\ thr' = [thr EXCEPT ![t] = IdleThread]
      /\ heads' = {} /\ linked' = linked \ heads /\ bufs' \subseteq bufs
      /\ active' = IF linked \cap heads # {} /\ state # "STARTED" THEN NoHead ELSE active
      /\ UNCHANGED <<chan, state, dwork, waits, hung, timerVars, hwVars, lifeVars>>
  BY DEF CloseMem, ReleaseHeads, ChanFree
<1>2. \A u \in Threads : thr'[u].pc = "idle" /\ thr'[u] \in Thread
  BY <1>1 DEF IInv, TypeOK, LockInv
<1>3. \A u \in Threads : thr[u].pc # "clean"
  BY <1>1 DEF IInv, LockInv
<1>4. active # NoHead => active \in linked /\ active \in heads
  BY <1>3 DEF IInv, LinkConsistent
<1>5. active' = NoHead
  <2>1. CASE active = NoHead
    BY <1>1, <2>1
  <2>2. CASE active # NoHead
    BY <1>1, <1>4, <2>2 DEF IInv, ThreadInv
  <2>3. QED
    BY <2>1, <2>2
<1>6. linked' = {}
  <2>1. linked \subseteq heads
    BY <1>4, ChannelAssumption DEF IInv, TypeOK, LinkConsistent
  <2>2. QED
    BY <1>1, <2>1
<1>7. irq.pc # "frames"
  BY <1>1, <1>4 DEF IInv, ChanInv
<1>8. TypeOK'
  BY <1>1, <1>2, <1>5, <1>6 DEF IInv, TypeOK
<1>9. LockInv' /\ (\A u \in Threads : ThreadInv(u))'
  BY <1>2 DEF LockInv, HoldsBh, HoldsChan, ThreadInv, Starting
<1>10. ChanInv' /\ LinkConsistent'
  BY <1>1, <1>5, <1>6, <1>7 DEF ChanInv, LinkConsistent
<1>11. StartedIsStoppable' /\ NoLostWakeup'
  BY <1>1 DEF IInv, StartedIsStoppable, NoLostWakeup
<1>12. QED
  BY <1>8, <1>9, <1>10, <1>11 DEF IInv

-----------------------------------------------------------------------------
(* The DMA engine and its interrupt.                                       *)

\* A step of the hardware or of the handler outside chanlock: the control
\* invariants see only that the handler is not booking frames.
LEMMA HandlerOutside ==
  ASSUME IInv, TypeOK', SameProgress(chan, chan'),
         irq'.pc # "frames", irq.pc # "frames",
         UNCHANGED <<state, active, heads, linked, thr, waits>>
  PROVE  IInv'
<1> USE DEF SameProgress
<1>1. LockInv'
  BY DEF IInv, LockInv, HoldsBh, HoldsChan
<1>2. (\A t \in Threads : ThreadInv(t))'
  BY DEF IInv, ThreadInv
<1>3. (ChanInv /\ LinkConsistent /\ StartedIsStoppable /\ NoLostWakeup)'
  BY DEF IInv, ChanInv, LinkConsistent, StartedIsStoppable, NoLostWakeup
<1>4. QED
  BY <1>1, <1>2, <1>3 DEF IInv

\* The empty list of descriptors.
LEMMA NoDescriptors == <<>> \in Seq(Buf \cup Dummies)
OBVIOUS

\* A transfer of the board.
LEMMA EngineTransfersStep ==
  ASSUME IInv, EngineTransfers
  PROVE  IInv'
<1> USE DEF timerVars, memVars, lifeVars
<1>1. /\ engine \in Engine /\ engine.fifo # <<>> /\ irq \in Irq
      /\ UNCHANGED <<chan, state, active, dwork, thr, waits, hung, timerVars, memVars, lifeVars>>
  BY DEF EngineTransfers, IInv, TypeOK
<1>2. engine' \in Engine
  <2>1. engine.fifo \in Seq(Buf \cup Dummies) /\ engine.done \in Seq(Buf \cup Dummies)
    BY <1>1 DEF Engine
  <2>2. Tail(engine.fifo) \in Seq(Buf \cup Dummies) /\ Head(engine.fifo) \in Buf \cup Dummies
    BY <1>1, <2>1
  <2>3. Append(engine.done, Head(engine.fifo)) \in Seq(Buf \cup Dummies)
    BY <2>1, <2>2
  <2>4. QED
    BY <1>1, <2>2, <2>3 DEF EngineTransfers, Engine
<1>3. irq' \in Irq /\ irq'.pc = irq.pc
  BY <1>1 DEF EngineTransfers, Irq
<1>4. TypeOK'
  BY <1>1, <1>2, <1>3 DEF IInv, TypeOK
<1>5. LockInv'
  BY <1>1, <1>3 DEF IInv, LockInv, HoldsBh, HoldsChan
<1>6. (\A t \in Threads : ThreadInv(t))'
  BY <1>1, <1>3 DEF IInv, ThreadInv
<1>7. (ChanInv /\ LinkConsistent /\ StartedIsStoppable /\ NoLostWakeup)'
  BY <1>1, <1>3 DEF IInv, ChanInv, LinkConsistent, StartedIsStoppable, NoLostWakeup
<1>8. QED
  BY <1>4, <1>5, <1>6, <1>7 DEF IInv

\* The interrupt handler is entered.
LEMMA IrqEnterStep ==
  ASSUME IInv, IrqEnter
  PROVE  IInv'
<1>1. irq' \in Irq /\ irq'.pc = "entered" /\ irq.pc = "idle"
  BY DEF IrqEnter, IInv, TypeOK, Irq
<1>2. TypeOK'
  BY <1>1 DEF IrqEnter, IInv, TypeOK, timerVars, memVars, lifeVars
<1>3. QED
  BY <1>1, <1>2, HandlerOutside DEF IrqEnter, memVars, SameProgress

\* The handler collects the transfer count.
LEMMA IrqReadStep ==
  ASSUME IInv, IrqRead
  PROVE  IInv'
<1> DEFINE f == (engine.done # <<>>)
<1>1. engine \in Engine /\ engine.done \in Seq(Buf \cup Dummies) /\ irq \in Irq /\ f \in BOOLEAN
  BY DEF IInv, TypeOK, Engine
<1>2. irq.pc = "entered" /\ irq' = [irq EXCEPT !.pc = "read", !.got = engine.done, !.fresh = f]
  BY DEF IrqRead
<1> HIDE DEF f
<1>3. irq' \in Irq /\ irq'.pc = "read"
  BY <1>1, <1>2 DEF Irq
<1>4. engine' \in Engine
  BY <1>1, NoDescriptors DEF IrqRead, Engine
<1>5. TypeOK'
  BY <1>3, <1>4 DEF IrqRead, IInv, TypeOK, timerVars, memVars, lifeVars
<1>6. QED
  BY <1>2, <1>3, <1>5, HandlerOutside DEF IrqRead, memVars, SameProgress

\* lost_count counts; nothing else of the channel changes.
LEMMA LostCountType ==
  ASSUME NEW c \in Channel, NEW n \in Nat
  PROVE  /\ [c EXCEPT !.lost_count = @ + n] \in Channel
         /\ SameProgress(c, [c EXCEPT !.lost_count = @ + n])
<1>1. c.lost_count + n \in Nat
  BY CountParts
<1>2. QED
  BY <1>1 DEF Channel, SameProgress

\* The handler gives up after a counter overflow.
LEMMA IrqOverflowStep ==
  ASSUME IInv, IrqOverflow
  PROVE  IInv'
<1>1. engine \in Engine /\ irq \in Irq /\ chan \in Channel /\ 1 \in Nat
  BY DEF IInv, TypeOK
<1>2. irq.pc = "entered" /\ irq' \in Irq /\ irq'.pc = "idle"
  BY <1>1 DEF IrqOverflow, Irq
<1>3. engine' \in Engine
  BY <1>1, NoDescriptors DEF IrqOverflow, Engine
<1>4. chan' \in Channel /\ SameProgress(chan, chan')
  BY <1>1, LostCountType DEF IrqOverflow
<1>5. TypeOK'
  BY <1>2, <1>3, <1>4 DEF IrqOverflow, IInv, TypeOK, timerVars, memVars, lifeVars
<1>6. QED
  BY <1>2, <1>4, <1>5, HandlerOutside DEF IrqOverflow, memVars

\* The handler takes chanlock: it goes on only with an active head.
LEMMA IrqLockStep ==
  ASSUME IInv, IrqLock
  PROVE  IInv'
<1> USE DEF timerVars, memVars, lifeVars
<1>1. /\ irq \in Irq /\ chan \in Channel /\ irq.pc = "read"
      /\ \A t \in Threads : ~HoldsChan(t)
      /\ UNCHANGED <<state, active, dwork, thr, waits, engine, hung, timerVars, memVars, lifeVars>>
  BY DEF IrqLock, ChanFree, IInv, TypeOK
<1>2. CASE active = NoHead
  <2>1. irq' \in Irq /\ irq'.pc = "idle"
    BY <1>1, <1>2, NoDescriptors DEF IrqLock, Irq
  <2>2. Len(irq.got) \in Nat
    BY <1>1 DEF Irq
  <2>3. chan' \in Channel /\ SameProgress(chan, chan')
    BY <1>1, <1>2, <2>2, LostCountType DEF IrqLock
  <2>4. TypeOK'
    BY <1>1, <2>1, <2>3 DEF IInv, TypeOK
  <2>5. QED
    BY <1>1, <2>1, <2>3, <2>4, HandlerOutside
<1>3. CASE active # NoHead
  <2>1. irq' \in Irq /\ irq'.pc = "frames" /\ chan' = chan
    BY <1>1, <1>3 DEF IrqLock, Irq
  <2>2. TypeOK'
    BY <1>1, <2>1 DEF IInv, TypeOK
  <2>3. LockInv'
    BY <1>1, <2>1 DEF IInv, LockInv, HoldsBh, HoldsChan
  <2>4. (\A t \in Threads : ThreadInv(t))'
    BY <1>1, <2>1 DEF IInv, ThreadInv
  <2>5. (ChanInv /\ LinkConsistent /\ StartedIsStoppable /\ NoLostWakeup)'
    BY <1>1, <1>3, <2>1 DEF IInv, ChanInv, LinkConsistent, StartedIsStoppable, NoLostWakeup
  <2>6. QED
    BY <2>2, <2>3, <2>4, <2>5 DEF IInv
<1>4. QED
  BY <1>2, <1>3

\* One frame is booked; transfer_todo and goodcnt change only here, while the
\* handler is inside its section.
LEMMA IrqFrameStep ==
  ASSUME IInv, IrqFrame
  PROVE  IInv'
<1> USE DEF timerVars, memVars, lifeVars
<1>1. /\ irq \in Irq /\ irq.pc = "frames" /\ irq.got # <<>>
      /\ irq' = [irq EXCEPT !.got = Tail(irq.got)]
      /\ UNCHANGED <<state, active, dwork, thr, waits, engine, hung, timerVars, memVars, lifeVars>>
  BY DEF IrqFrame, IInv, TypeOK
<1>2. irq' \in Irq /\ irq'.pc = "frames"
  <2>1. irq.got \in Seq(Buf \cup Dummies)
    BY <1>1 DEF Irq
  <2>2. Tail(irq.got) \in Seq(Buf \cup Dummies)
    BY <1>1, <2>1
  <2>3. QED
    BY <1>1, <2>2 DEF Irq
<1>3. /\ chan' \in Channel /\ chan'.transfer_todo <= chan.transfer_todo
      /\ chan'.transfer_todo \in Int /\ chan.transfer_todo \in Int
  BY MoveHotType, CountParts DEF IrqFrame, IInv, TypeOK
<1>4. TypeOK'
  BY <1>1, <1>2, <1>3 DEF IInv, TypeOK
<1>5. LockInv'
  BY <1>1, <1>2 DEF IInv, LockInv, HoldsBh, HoldsChan
<1>6. (\A t \in Threads : ThreadInv(t))'
  <2> SUFFICES ASSUME NEW t \in Threads PROVE ThreadInv(t)'
    OBVIOUS
  <2>1. thr[t].pc # "clean"
    BY <1>1 DEF IInv, LockInv, HoldsChan
  <2>2. QED
    BY <1>1, <1>2, <1>3, <2>1 DEF IInv, ThreadInv
<1>7. (ChanInv /\ LinkConsistent /\ StartedIsStoppable /\ NoLostWakeup)'
  BY <1>1, <1>2 DEF IInv, ChanInv, LinkConsistent, StartedIsStoppable, NoLostWakeup
<1>8. QED
  BY <1>4, <1>5, <1>6, <1>7 DEF IInv

\* The handler notifies exactly the waiters whose frame is there.
LEMMA NotifyArrived ==
  ASSUME waits \in [Waiters -> Waiter], CompleteIf(LAMBDA w : w.frame <= chan.goodcnt)
  PROVE  /\ waits' \in [Waiters -> Waiter]
         /\ \A w \in Waiters : /\ (waits'[w].sleeping <=> waits[w].sleeping)
                               /\ waits'[w].frame = waits[w].frame
                               /\ waits[w].done => waits'[w].done
                               /\ waits[w].sleeping /\ waits[w].frame <= chan.goodcnt
                                    => waits'[w].done
BY DEF CompleteIf, Waiter

\* The end of the handler: whoever waits for a frame that is there is notified, and
\* if no frames are outstanding the stop begins.
LEMMA IrqFinishStep ==
  ASSUME IInv, IrqFinish
  PROVE  IInv'
<1> USE DEF timerVars, memVars, lifeVars
<1>1. /\ irq \in Irq /\ irq.pc = "frames" /\ chan \in Channel /\ engine \in Engine
      /\ active \in Heads
      /\ \A t \in Threads : ~HoldsChan(t)
      /\ UNCHANGED <<active, timeout, timerRunning, thr, memVars, lifeVars>>
  BY DEF IrqFinish, IInv, TypeOK, ChanInv, LockInv
<1>2. /\ waits' \in [Waiters -> Waiter]
      /\ \A w \in Waiters : /\ (waits'[w].sleeping <=> waits[w].sleeping)
                            /\ waits'[w].frame = waits[w].frame
                            /\ waits[w].done => waits'[w].done
                            /\ waits[w].sleeping /\ waits[w].frame <= chan.goodcnt
                                 => waits'[w].done
  BY NotifyArrived DEF IrqFinish, IInv, TypeOK
<1>3. irq' \in Irq /\ irq'.pc \in {"frames", "idle"}
  BY <1>1 DEF IrqFinish, Irq
<1>4. chan' \in Channel /\ SameProgress(chan, chan')
  BY <1>1, QueueMaxType DEF IrqFinish, SameProgress
<1>5. engine' \in Engine
  <2>1. engine.fifo \in Seq(Buf \cup Dummies) /\ Queued(chan, active) \in Seq(Buf \cup Dummies)
    BY <1>1, QueuedType DEF Engine
  <2> DEFINE f == IF irq.fresh THEN engine.fifo \o Queued(chan, active) ELSE engine.fifo
  <2>2. f \in Seq(Buf \cup Dummies)
    BY <2>1
  <2>3. engine' \in {engine, [engine EXCEPT !.fifo = f]}
    BY DEF IrqFinish
  <2> HIDE DEF f
  <2>4. QED
    BY <1>1, <2>2, <2>3 DEF Engine
<1>6. /\ timerArmed' \in BOOLEAN /\ hung' \in BOOLEAN /\ dwork' \in BOOLEAN
      /\ \/ state' = "STOPPING"
         \/ state' = state /\ chan.transfer_todo > 0
  BY DEF IrqFinish, IInv, TypeOK
<1>7. TypeOK'
  BY <1>1, <1>2, <1>3, <1>4, <1>5, <1>6 DEF IInv, TypeOK, States
<1>8. LockInv'
  BY <1>1 DEF IInv, LockInv, HoldsBh, HoldsChan
<1>9. (\A t \in Threads : ThreadInv(t))'
  <2> SUFFICES ASSUME NEW t \in Threads PROVE ThreadInv(t)'
    OBVIOUS
  <2>1. ThreadInv(t) /\ thr[t].pc # "clean"
    BY <1>1 DEF IInv, HoldsChan
  <2>2. thr[t].pc \in Starting => \A w \in Waiters : waits'[w].sleeping => waits'[w].done
    BY <1>2, <2>1 DEF ThreadInv
  <2>3. thr[t].pc = "close" => state' # "STARTED"
    <3>1. chan.transfer_todo \in Int
      BY <1>1, CountParts
    <3>2. QED
      BY <1>6, <2>1, <3>1 DEF ThreadInv
  <2>4. QED
    BY <1>1, <1>6, <2>1, <2>2, <2>3 DEF ThreadInv
<1>10. ChanInv' /\ LinkConsistent'
  BY <1>1, <1>6 DEF IInv, ChanInv, LinkConsistent
<1>11. StartedIsStoppable'
  BY <1>4, <1>6 DEF StartedIsStoppable, SameProgress
<1>12. NoLostWakeup'
  <2> SUFFICES ASSUME NEW w \in Waiters, waits'[w].sleeping, ~waits'[w].done
               PROVE  state' \in {"STARTED", "STOPPING"} /\ ~(waits'[w].frame <= chan'.goodcnt)
    BY DEF NoLostWakeup
  <2>1. waits[w].sleeping /\ ~waits[w].done /\ ~(waits[w].frame <= chan.goodcnt)
    BY <1>2
  <2>2. QED
    BY <1>2, <1>4, <1>6, <2>1 DEF IInv, NoLostWakeup, SameProgress
<1>13. QED
  BY <1>7, <1>8, <1>9, <1>10, <1>11, <1>12 DEF IInv

-----------------------------------------------------------------------------
(* Frames and buffers in the hands of the client.                          *)

\* Handing a grabbed frame out (men_next_blocked, men_last_blocked).
LEMMA GetImageStep ==
  ASSUME IInv, NEW h \in Heads, GetNextImage(h) \/ GetActImage(h)
  PROVE  IInv'
<1> USE DEF GetNextImage, GetActImage, timerVars, memVars, hwVars, lifeVars
<1>1. chan' \in Channel /\ SameProgress(chan, chan')
  BY NextBlockedType, LastBlockedType DEF IInv, TypeOK
<1>2. TypeOK'
  BY <1>1 DEF IInv, TypeOK
<1>3. QED
  BY <1>1, <1>2, ControlUnchanged DEF controlVars

\* Unblocking queues buffers on the board only for the head that is active.
LEMMA UnblockKeeps ==
  ASSUME IInv, NEW b \in Buf, b[1] \in linked, Unblock(b)
  PROVE  chan' \in Channel /\ SameProgress(chan, chan') /\ engine' \in Engine
<1>1. active \in Heads /\ chan \in Channel /\ engine \in Engine
  BY DEF IInv, TypeOK, LinkConsistent
<1>2. /\ UnblockBuffer(chan, b, active) \in Channel
      /\ SameProgress(chan, UnblockBuffer(chan, b, active))
      /\ UnblockQueues(chan, b, active) \in Seq(Buf \cup Dummies)
  BY <1>1, UnblockBufferType
<1> DEFINE f == engine.fifo \o UnblockQueues(chan, b, active)
<1>3. f \in Seq(Buf \cup Dummies)
  <2>1. engine.fifo \in Seq(Buf \cup Dummies)
    BY <1>1 DEF Engine
  <2>2. QED
    BY <1>2, <2>1
<1>4. engine' = [engine EXCEPT !.fifo = f]
  BY DEF Unblock
<1> HIDE DEF f
<1>5. engine' \in Engine
  BY <1>1, <1>3, <1>4 DEF Engine
<1>6. QED
  BY <1>2, <1>5 DEF Unblock

\* men_ioctl_unlock_buffer for one buffer.
LEMMA UnlockBufferStep ==
  ASSUME IInv, NEW b \in Buf, UnlockBuffer(b)
  PROVE  IInv'
<1> USE DEF UnlockBuffer, timerVars, memVars, lifeVars
<1>1. chan' \in Channel /\ SameProgress(chan, chan') /\ engine' \in Engine
  BY UnblockKeeps DEF ClientListSection
<1>2. TypeOK'
  BY <1>1 DEF IInv, TypeOK
<1>3. QED
  BY <1>1, <1>2, ControlUnchanged DEF controlVars

\* men_ioctl_unlock_buffer for all buffers takes its locks for a linked head.
LEMMA UnlockAllBeginStep ==
  ASSUME IInv, NEW t \in Threads, NEW h \in Heads, UnlockAllBegin(t, h)
  PROVE  IInv'
<1> USE DEF timerVars, memVars, hwVars, lifeVars
<1> DEFINE r == [IdleThread EXCEPT !.pc = "unlock", !.head = h]
<1>1. /\ \A u \in Threads : ~HoldsBh(u)
      /\ h \in linked /\ thr[t].pc = "idle" /\ thr' = [thr EXCEPT ![t] = r]
      /\ UNCHANGED <<chan, state, active, dwork, waits, hung, timerVars, memVars, hwVars, lifeVars>>
  BY DEF UnlockAllBegin, ClientListSection, BhFree
<1>2. r \in Thread /\ r.pc = "unlock" /\ r.head = h
  BY IdleThreadType DEF Thread, ThreadPcs
<1> HIDE DEF r
<1>3. TypeOK'
  BY <1>1, <1>2 DEF IInv, TypeOK
<1>4. LockInv'
  BY <1>1, <1>2 DEF IInv, TypeOK, LockInv, HoldsBh, HoldsChan
<1>5. (\A u \in Threads : ThreadInv(u))'
  BY <1>1, <1>2 DEF IInv, TypeOK, ThreadInv, Starting
<1>6. (ChanInv /\ LinkConsistent /\ StartedIsStoppable /\ NoLostWakeup)'
  BY <1>1, <1>2 DEF IInv, TypeOK, ChanInv, LinkConsistent, StartedIsStoppable, NoLostWakeup
<1>7. QED
  BY <1>3, <1>4, <1>5, <1>6 DEF IInv

\* One iteration of its loop.
LEMMA UnlockAllStepStep ==
  ASSUME IInv, NEW t \in Threads, UnlockAllStep(t)
  PROVE  IInv'
<1> USE DEF timerVars, memVars, lifeVars
<1> DEFINE b == <<thr[t].head, thr[t].idx>>
           r == [thr[t] EXCEPT !.idx = thr[t].idx + 1]
<1>1. /\ thr[t].pc = "unlock" /\ thr[t] \in Thread /\ thr[t].idx < NumSb
      /\ thr' = [thr EXCEPT ![t] = r]
      /\ UNCHANGED <<state, active, dwork, waits, irq, hung, timerVars, memVars, lifeVars>>
  BY DEF UnlockAllStep, IInv, TypeOK
<1>2. thr[t].head \in linked
  BY <1>1 DEF IInv, ThreadInv
<1>3. chan' \in Channel /\ SameProgress(chan, chan') /\ engine' \in Engine
  <2>1. CASE b \in bufs
    <3>1. b \in Buf /\ b[1] \in linked
      BY <1>2, <2>1 DEF IInv, TypeOK
    <3>2. Unblock(b)
      BY <2>1 DEF UnlockAllStep
    <3> HIDE DEF b
    <3>3. QED
      BY <3>1, <3>2, UnblockKeeps
  <2>2. CASE b \notin bufs
    BY <2>2 DEF UnlockAllStep, IInv, TypeOK, SameProgress
  <2>3. QED
    BY <2>1, <2>2
<1>4. r \in Thread /\ r.pc = thr[t].pc /\ r.head = thr[t].head /\ r.todo = thr[t].todo
  <2>1. thr[t].idx + 1 \in 0 .. NumSb
    BY <1>1, NumSbAssumption DEF Thread
  <2>2. QED
    BY <1>1, <2>1 DEF Thread
<1> HIDE DEF r
<1>5. /\ thr' \in [Threads -> Thread]
      /\ \A u \in Threads : /\ thr'[u].pc = thr[u].pc /\ thr'[u].head = thr[u].head
                            /\ thr'[u].todo = thr[u].todo
  BY <1>1, <1>4 DEF IInv, TypeOK
<1>6. TypeOK'
  BY <1>1, <1>3, <1>5 DEF IInv, TypeOK
<1>7. LockInv'
  BY <1>1, <1>5 DEF IInv, LockInv, HoldsBh, HoldsChan
<1>8. (\A u \in Threads : ThreadInv(u))'
  BY <1>1, <1>3, <1>5 DEF IInv, ThreadInv, SameProgress
<1>9. ChanInv' /\ LinkConsistent'
  BY <1>1, <1>5 DEF IInv, ChanInv, LinkConsistent
<1>10. StartedIsStoppable' /\ NoLostWakeup'
  BY <1>1, <1>3 DEF IInv, StartedIsStoppable, NoLostWakeup, SameProgress
<1>11. QED
  BY <1>6, <1>7, <1>8, <1>9, <1>10 DEF IInv

\* Its locks are released.
LEMMA UnlockAllEndStep ==
  ASSUME IInv, NEW t \in Threads, UnlockAllEnd(t)
  PROVE  IInv'
<1> USE DEF timerVars, memVars, hwVars, lifeVars
<1>1. /\ thr[t].pc = "unlock" /\ thr' = [thr EXCEPT ![t] = IdleThread]
      /\ UNCHANGED <<chan, state, active, dwork, waits, hung, timerVars, memVars, hwVars, lifeVars>>
  BY DEF UnlockAllEnd
<1>2. IdleThread \in Thread /\ IdleThread.pc = "idle"
  BY IdleThreadType
<1>3. TypeOK'
  BY <1>1, <1>2 DEF IInv, TypeOK
<1>4. LockInv'
  BY <1>1, <1>2 DEF IInv, TypeOK, LockInv, HoldsBh, HoldsChan
<1>5. (\A u \in Threads : ThreadInv(u))'
  BY <1>1, <1>2 DEF IInv, TypeOK, ThreadInv, Starting
<1>6. (ChanInv /\ LinkConsistent /\ StartedIsStoppable /\ NoLostWakeup)'
  BY <1>1, <1>2 DEF IInv, TypeOK, ChanInv, LinkConsistent, StartedIsStoppable, NoLostWakeup
<1>7. QED
  BY <1>3, <1>4, <1>5, <1>6 DEF IInv

\* men_queue_buffer marks a buffer, or moves it and refills the board.
LEMMA QueueBufferStep ==
  ASSUME IInv, NEW b \in Buf, QueueBuffer(b)
  PROVE  IInv'
<1> USE DEF timerVars, memVars, lifeVars
<1> DEFINE marked == b[1] \notin linked \/ state \in {"STOPPED", "STOPPING"}
           names  == [chan.listname EXCEPT ![b] = "READY"]
           c      == MoveToReady(chan, b)
           f      == engine.fifo \o Queued(c, active)
<1>1. /\ chan \in Channel /\ engine \in Engine
      /\ UNCHANGED <<state, active, dwork, thr, waits, irq, hung, timerVars, memVars, lifeVars>>
  BY DEF QueueBuffer, IInv, TypeOK
<1>2. chan' \in Channel /\ SameProgress(chan, chan') /\ engine' \in Engine
  <2>1. CASE marked
    <3>1. names \in [Buf -> ListNames]
      BY <1>1, ChannelParts DEF ListNames
    <3>2. chan' = [chan EXCEPT !.listname = names] /\ engine' = engine
      BY <2>1 DEF QueueBuffer
    <3> HIDE DEF names
    <3>3. QED
      BY <1>1, <3>1, <3>2 DEF Channel, SameProgress
  <2>2. CASE ~marked
    <3>1. active \in Heads
      BY <2>2 DEF IInv, TypeOK, LinkConsistent
    <3>2. c \in Channel /\ SameProgress(chan, c)
      BY <1>1, MoveToReadyType
    <3>3. chan' = QueueMax(c, active) /\ engine' = [engine EXCEPT !.fifo = f]
      BY <2>2 DEF QueueBuffer
    <3> HIDE DEF c
    <3>4. chan' \in Channel /\ SameProgress(chan, chan')
      BY <3>1, <3>2, <3>3, QueueMaxType DEF SameProgress
    <3>5. f \in Seq(Buf \cup Dummies)
      <4>1. engine.fifo \in Seq(Buf \cup Dummies)
        BY <1>1 DEF Engine
      <4>2. Queued(c, active) \in Seq(Buf \cup Dummies)
        BY <3>1, <3>2, QueuedType
      <4>3. QED
        BY <4>1, <4>2
    <3> HIDE DEF f
    <3>6. engine' \in Engine
      BY <1>1, <3>3, <3>5 DEF Engine
    <3>7. QED
      BY <3>4, <3>6
  <2>3. QED
    BY <2>1, <2>2
<1>3. TypeOK'
  BY <1>1, <1>2 DEF IInv, TypeOK
<1>4. QED
  BY <1>1, <1>2, <1>3, ControlUnchanged DEF controlVars

-----------------------------------------------------------------------------
(* Waiting for a frame.                                                    *)

\* A waiter goes to sleep only on a channel that is started, so no start is
\* under way, and only for a frame that has not been booked.
LEMMA WaitBeginStep ==
  ASSUME IInv, NEW w \in Waiters, NEW n \in WaitFrames, WaitBegin(w, n)
  PROVE  IInv'
<1> USE DEF timerVars, memVars, hwVars, lifeVars
<1> DEFINE r == [sleeping |-> TRUE, frame |-> n, done |-> FALSE]
<1>1. /\ state = "STARTED" /\ chan.goodcnt < n /\ ListFree
      /\ waits' = [waits EXCEPT ![w] = r]
      /\ UNCHANGED <<chan, state, active, dwork, thr, hung, timerVars, memVars, hwVars, lifeVars>>
  BY DEF WaitBegin
<1>2. r \in Waiter /\ r.frame = n
  BY DEF Waiter
<1> HIDE DEF r
<1>3. TypeOK'
  BY <1>1, <1>2 DEF IInv, TypeOK
<1>4. LockInv'
  BY <1>1 DEF IInv, LockInv, HoldsBh, HoldsChan
<1>5. (\A t \in Threads : ThreadInv(t))'
  <2> SUFFICES ASSUME NEW t \in Threads PROVE ThreadInv(t)'
    OBVIOUS
  <2>1. ThreadInv(t) /\ thr[t].pc \notin Starting
    BY <1>1 DEF IInv, ThreadInv, Starting, ListFree, HoldsList
  <2>2. QED
    BY <1>1, <2>1 DEF ThreadInv, Starting
<1>6. ChanInv' /\ LinkConsistent' /\ StartedIsStoppable'
  BY <1>1 DEF IInv, ChanInv, LinkConsistent, StartedIsStoppable
<1>7. NoLostWakeup'
  <2> SUFFICES ASSUME NEW u \in Waiters, waits'[u].sleeping, ~waits'[u].done
               PROVE  /\ state \in {"STARTED", "STOPPING"}
                      /\ waits'[u].frame <= chan.goodcnt => irq.pc = "frames"
    BY <1>1 DEF NoLostWakeup
  <2>1. CASE u = w
    <3>1. waits'[u].frame = n
      BY <1>1, <1>2, <2>1 DEF IInv, TypeOK
    <3>2. ~(n <= chan.goodcnt)
      BY <1>1, CountParts, ChannelAssumption DEF IInv, TypeOK
    <3>3. QED
      BY <1>1, <3>1, <3>2
  <2>2. CASE u # w
    BY <1>1, <2>2 DEF IInv, TypeOK, NoLostWakeup
  <2>3. QED
    BY <2>1, <2>2
<1>8. QED
  BY <1>3, <1>4, <1>5, <1>6, <1>7 DEF IInv

\* A waiter leaves, woken or timed out.
LEMMA WaitEndStep ==
  ASSUME IInv, NEW w \in Waiters, WaitEnd(w)
  PROVE  IInv'
<1> USE DEF timerVars, memVars, hwVars, lifeVars
<1>1. /\ waits' = [waits EXCEPT ![w] = AwakeWaiter]
      /\ UNCHANGED <<chan, state, active, dwork, thr, hung, timerVars, memVars, hwVars, lifeVars>>
  BY DEF WaitEnd
<1>2. AwakeWaiter \in Waiter /\ ~AwakeWaiter.sleeping
  BY DEF AwakeWaiter, Waiter
<1>3. TypeOK'
  BY <1>1, <1>2 DEF IInv, TypeOK
<1>4. LockInv'
  BY <1>1 DEF IInv, LockInv, HoldsBh, HoldsChan
<1>5. \A u \in Waiters : waits'[u].sleeping => waits'[u] = waits[u]
  BY <1>1, <1>2 DEF IInv, TypeOK
<1>6. (\A t \in Threads : ThreadInv(t))'
  BY <1>1, <1>5 DEF IInv, ThreadInv
<1>7. (ChanInv /\ LinkConsistent /\ StartedIsStoppable)'
  BY <1>1 DEF IInv, ChanInv, LinkConsistent, StartedIsStoppable
<1>8. NoLostWakeup'
  BY <1>1, <1>5 DEF IInv, NoLostWakeup
<1>9. QED
  BY <1>3, <1>4, <1>6, <1>7, <1>8 DEF IInv

-----------------------------------------------------------------------------
(* The induction step and the theorems.                                    *)

\* The steps of fg_start_transfer, one case each.
LEMMA StartNextStep ==
  ASSUME IInv, NEW t \in Threads, StartNext(t)
  PROVE  IInv'
<1>1. CASE \E b \in Buf, n \in Todos, m \in StartModes, tmo \in Timeouts : StartCheck(t, b, n, m, tmo)
  BY <1>1, StartCheckStep
<1>2. CASE StartCancelWork(t)
  BY <1>2, StartCancelWorkStep
<1>3. CASE StartHeadGone(t)
  BY <1>3, StartHeadGoneStep
<1>4. CASE StartRelock(t)
  BY <1>4, StartRelockStep
<1>5. CASE StartLock(t)
  BY <1>5, StartLockStep
<1>6. CASE StartBusy(t)
  BY <1>6, StartBusyStep
<1>7. CASE StartBegin(t)
  BY <1>7, StartBeginStep
<1>8. CASE StartCleanBuffer(t)
  BY <1>8, StartCleanBufferStep
<1>9. CASE StartFails(t)
  BY <1>9, StartFailsStep
<1>10. CASE StartSucceeds(t)
  BY <1>10, StartSucceedsStep
<1>11. QED
  BY <1>1, <1>2, <1>3, <1>4, <1>5, <1>6, <1>7, <1>8, <1>9, <1>10 DEF StartNext

\* The steps of ioctls and closes of several sections.
LEMMA ThreadNextStep ==
  ASSUME IInv, NEW t \in Threads, ThreadNext(t)
  PROVE  IInv'
<1>1. CASE StartNext(t)
  BY <1>1, StartNextStep
<1>2. CASE \E h \in Heads : UnlockAllBegin(t, h)
  BY <1>2, UnlockAllBeginStep
<1>3. CASE UnlockAllStep(t)
  BY <1>3, UnlockAllStepStep
<1>4. CASE UnlockAllEnd(t)
  BY <1>4, UnlockAllEndStep
<1>5. CASE CloseChannels(t)
  BY <1>5, CloseChannelsStep
<1>6. CASE CloseMem(t)
  BY <1>6, CloseMemStep
<1>7. QED
  BY <1>1, <1>2, <1>3, <1>4, <1>5, <1>6 DEF ThreadNext

\* The ioctls of one section.
LEMMA ClientNextStep ==
  ASSUME IInv, ClientNext
  PROVE  IInv'
<1>1. CASE Open
  BY <1>1, OpenStep
<1>2. CASE \E h \in Heads : CreateHead(h) \/ FreeBufHead(h) \/ GetNextImage(h) \/ GetActImage(h)
  BY <1>2, CreateHeadStep, FreeBufHeadStep, GetImageStep
<1>3. CASE \E b \in Buf : CreateUserbuf(b) \/ FreeUserbuf(b) \/ UnlockBuffer(b) \/ QueueBuffer(b)
  BY <1>3, CreateUserbufStep, FreeUserbufStep, UnlockBufferStep, QueueBufferStep
<1>4. CASE Stop
  BY <1>4, StopStep
<1>5. QED
  BY <1>1, <1>2, <1>3, <1>4 DEF ClientNext

\* Every step preserves the inductive invariant.
LEMMA NextIInv == IInv /\ [Next]_vars => IInv'
<1> SUFFICES ASSUME IInv, [Next]_vars PROVE IInv'
  OBVIOUS
<1>1. CASE ClientNext
  BY <1>1, ClientNextStep
<1>2. CASE \E t \in Threads : ThreadNext(t)
  BY <1>2, ThreadNextStep
<1>3. CASE \E w \in Waiters : WaiterNext(w)
  BY <1>3, WaitBeginStep, WaitEndStep DEF WaiterNext, WaitWoken, WaitTimesOut
<1>4. CASE EngineTransfers
  BY <1>4, EngineTransfersStep
<1>5. CASE IrqNext
  BY <1>5, IrqEnterStep, IrqReadStep, IrqOverflowStep, IrqLockStep, IrqFrameStep, IrqFinishStep
     DEF IrqNext
<1>6. CASE DoneWork
  BY <1>6, DoneWorkStep
<1>7. CASE TimerExpires
  BY <1>7, TimerExpiresStep
<1>8. CASE DmaTimeout
  BY <1>8, DmaTimeoutStep
<1>9. CASE UNCHANGED vars
  <2>1. TypeOK'
    BY <1>9 DEF vars, IInv, TypeOK
  <2>2. QED
    BY <1>9, <2>1, ControlUnchanged DEF vars, controlVars, SameProgress
<1>10. QED
  BY <1>1, <1>2, <1>3, <1>4, <1>5, <1>6, <1>7, <1>8, <1>9 DEF Next

\* The inductive invariant holds in every reachable state.
THEOREM Inductive == Spec => []IInv
BY InitIInv, NextIInv, PTL DEF Spec

\* Type correctness: in particular the counters of struct menable_dmachan stay
\* unsigned values and every list holds buffers of the channel's heads only.
THEOREM TypeCorrect == Spec => []TypeOK
<1>1. IInv => TypeOK
  BY DEF IInv
<1>2. QED
  BY <1>1, Inductive, PTL

\* Channel and head point at each other, whatever starts, frees and closes
\* interleave with a start that has dropped its locks.
THEOREM LinksConsistent == Spec => []LinkConsistent
<1>1. IInv => LinkConsistent
  BY DEF IInv
<1>2. QED
  BY <1>1, Inductive, PTL

\* A started channel can be stopped: transfer_todo runs out only inside the
\* interrupt handler, which then begins the stop itself.
THEOREM StartedChannelIsStoppable == Spec => []StartedIsStoppable
<1>1. IInv => StartedIsStoppable
  BY DEF IInv
<1>2. QED
  BY <1>1, Inductive, PTL

\* men_wait_dmaimg misses no wakeup: neither the frame it waits for nor the end
\* of the acquisition can pass between its check and its sleep.
THEOREM WakeupsNotLost == Spec => []NoLostWakeup
<1>1. IInv => NoLostWakeup
  BY DEF IInv
<1>2. QED
  BY <1>1, Inductive, PTL

\* The BUG_ON of men_dma_clean_sync cannot be hit by fg_start_transfer's call
\* after men_start_dma refused.
THEOREM RefusalIsStopping == Spec => []RefusedStartIsStopping
<1>1. IInv => RefusedStartIsStopping
  <2> SUFFICES ASSUME IInv, NEW t \in Threads, thr[t].pc = "begin", StartRefused(t)
               PROVE  state = "STOPPING"
    BY DEF RefusedStartIsStopping
  <2>1. state # "STARTED" /\ state # "STOPPED" /\ state \in States /\ linked # {}
    BY DEF IInv, TypeOK, ThreadInv, StartRefused
  <2>2. \A u \in Threads : thr[u].pc # "clean"
    BY DEF IInv, LockInv, HoldsBh
  <2>3. QED
    BY <2>1, <2>2 DEF IInv, ChanInv, States
<1>2. QED
  BY <1>1, Inductive, PTL

\* The WARN_ON of men_cleanup_mem cannot fire: although the last close stops the
\* channel without chanlock, no head is found on a started channel.
THEOREM CloseFindsStopped == Spec => []CloseFindsNoneStarted
<1>1. IInv => CloseFindsNoneStarted
  BY DEF IInv, ThreadInv, CloseFindsNoneStarted, ChanFree
<1>2. QED
  BY <1>1, Inductive, PTL

-----------------------------------------------------------------------------
(* Who finishes a stop, for clients that do anything the driver accepts.   *)

\* fg_start_transfer returns because the head it dropped its lock on is gone, after
\* it has cancelled the work item that would have finished the stop.
LeavesCancelled == \E t \in Threads : StartHeadGone(t) /\ thr[t].cancelled

\* A step that keeps the channel's state, the work item and the owners keeps the
\* owner of a stop.
LEMMA OwnerUnchanged ==
  ASSUME StopHasOwner, UNCHANGED <<state, dwork, thr>>, hung => hung'
  PROVE  StopHasOwner'
BY DEF StopHasOwner

\* So does a step that ends with the channel out of STOPPING, or hung.
LEMMA OwnerNotNeeded ==
  ASSUME state' # "STOPPING" \/ hung'
  PROVE  StopHasOwner'
BY DEF StopHasOwner

\* men_dma_clean_sync ends a stop, or hangs.
LEMMA CleanSyncEnds ==
  ASSUME NEW c, CleanSync(c)
  PROVE  state' # "STOPPING" \/ hung'
BY DEF CleanSync

\* The steps of fg_start_transfer hand the duty to finish a stop on, or fulfil it.
LEMMA StartOwner ==
  ASSUME IInv, StopHasOwner, ~LeavesCancelled, NEW t \in Threads, StartNext(t)
  PROVE  StopHasOwner'
<1> USE DEF timerVars, memVars, hwVars, lifeVars
<1>0. thr \in [Threads -> Thread] /\ IdleThread.pc = "idle"
  BY DEF IInv, TypeOK, IdleThread
<1>1. CASE \E b \in Buf, n \in Todos, m \in StartModes, tmo \in Timeouts : StartCheck(t, b, n, m, tmo)
  BY <1>0, <1>1 DEF StartCheck, StopHasOwner
<1>2. CASE StartCancelWork(t)
  BY <1>0, <1>2 DEF StartCancelWork, StopHasOwner, Thread
<1>3. CASE StartHeadGone(t)
  <2>1. ~thr[t].cancelled /\ thr' = [thr EXCEPT ![t] = IdleThread] /\ thr[t].pc = "relock"
    BY <1>3 DEF LeavesCancelled, StartHeadGone
  <2>2. UNCHANGED <<state, dwork, hung>>
    BY <1>3 DEF StartHeadGone
  <2>3. \A u \in Threads : u # t => thr'[u] = thr[u]
    BY <1>0, <2>1
  <2>4. QED
    BY <2>1, <2>2, <2>3 DEF StopHasOwner
<1>4. CASE StartRelock(t)
  <2>1. \A u \in Threads : thr'[u] = thr[u] \/ (u = t /\ thr'[u].pc \in {"begin", "idle"})
    BY <1>0, <1>4 DEF StartRelock, Thread
  <2>2. CASE thr[t].cancelled /\ state = "STOPPING"
    BY <1>4, <2>1, <2>2, OwnerNotNeeded, CleanSyncEnds DEF StartRelock
  <2>3. CASE ~(thr[t].cancelled /\ state = "STOPPING")
    BY <1>0, <1>4, <2>1, <2>3 DEF StartRelock, StopHasOwner
  <2>4. QED
    BY <2>2, <2>3
<1>5. CASE StartLock(t)
  BY <1>0, <1>5 DEF StartLock, StopHasOwner
<1>6. CASE StartBusy(t)
  BY <1>0, <1>6, OwnerNotNeeded, CleanSyncEnds DEF StartBusy
<1>7. CASE StartBegin(t)
  BY <1>0, <1>7, OwnerNotNeeded DEF StartBegin
<1>8. CASE StartCleanBuffer(t)
  BY <1>0, <1>8 DEF StartCleanBuffer, StopHasOwner
<1>9. CASE StartFails(t)
  BY <1>0, <1>9, OwnerNotNeeded, CleanSyncEnds DEF StartFails
<1>10. CASE StartSucceeds(t)
  BY <1>0, <1>10, OwnerNotNeeded DEF StartSucceeds
<1>11. QED
  BY <1>1, <1>2, <1>3, <1>4, <1>5, <1>6, <1>7, <1>8, <1>9, <1>10 DEF StartNext

\* Nobody starts while the last file is closed.
LEMMA ThreadOwner ==
  ASSUME IInv, StopHasOwner, ~LeavesCancelled, NEW t \in Threads, ThreadNext(t)
  PROVE  StopHasOwner'
<1> USE DEF timerVars, memVars, hwVars, lifeVars
<1>0. thr \in [Threads -> Thread] /\ IdleThread.pc = "idle"
  BY DEF IInv, TypeOK, IdleThread
<1>1. CASE StartNext(t)
  BY <1>1, StartOwner
<1>2. CASE \E h \in Heads : UnlockAllBegin(t, h)
  BY <1>0, <1>2 DEF UnlockAllBegin, StopHasOwner, IdleThread
<1>3. CASE UnlockAllStep(t)
  BY <1>0, <1>3 DEF UnlockAllStep, StopHasOwner
<1>4. CASE UnlockAllEnd(t)
  BY <1>0, <1>4 DEF UnlockAllEnd, StopHasOwner
<1>5. CASE CloseChannels(t)
  BY <1>0, <1>5 DEF CloseChannels, StopLocked, StopHasOwner
<1>6. CASE CloseMem(t)
  <2>1. \A u \in Threads : u # t => thr[u].pc = "idle"
    BY <1>6 DEF CloseMem, IInv, LockInv
  <2>2. QED
    BY <1>0, <1>6, <2>1 DEF CloseMem, StopHasOwner
<1>7. QED
  BY <1>1, <1>2, <1>3, <1>4, <1>5, <1>6 DEF ThreadNext

\* The ioctls of one section: freeing a head leaves the owner alone.
LEMMA ClientOwner ==
  ASSUME IInv, StopHasOwner, ClientNext
  PROVE  StopHasOwner'
<1> USE DEF timerVars, memVars, hwVars, lifeVars
<1>1. CASE Open
  BY <1>1, OwnerUnchanged DEF Open
<1>2. ASSUME NEW h \in Heads, CreateHead(h) \/ GetNextImage(h) \/ GetActImage(h) PROVE StopHasOwner'
  BY <1>2, OwnerUnchanged DEF CreateHead, GetNextImage, GetActImage
<1>3. ASSUME NEW h \in Heads, FreeBufHead(h) PROVE StopHasOwner'
  <2>1. \A u \in Threads : thr'[u].pc = thr[u].pc /\ thr'[u].head = thr[u].head
                           /\ (thr'[u].cancelled = thr[u].cancelled)
    BY <1>3 DEF FreeBufHead, MarkMoved, IInv, TypeOK, Thread
  <2>2. UNCHANGED <<state, dwork, hung>>
    BY <1>3 DEF FreeBufHead
  <2>3. QED
    BY <2>1, <2>2 DEF StopHasOwner
<1>4. ASSUME NEW b \in Buf,
             CreateUserbuf(b) \/ FreeUserbuf(b) \/ UnlockBuffer(b) \/ QueueBuffer(b)
      PROVE  StopHasOwner'
  BY <1>4, OwnerUnchanged DEF CreateUserbuf, FreeUserbuf, UnlockBuffer, QueueBuffer
<1>5. CASE Stop
  BY <1>5 DEF Stop, StopLocked, StopHasOwner
<1>6. QED
  BY <1>1, <1>2, <1>3, <1>4, <1>5 DEF ClientNext

\* Every other step keeps the owner of a stop.
LEMMA NextOwner ==
  ASSUME IInv, StopHasOwner, ~LeavesCancelled, [Next]_vars
  PROVE  StopHasOwner'
<1> USE DEF timerVars, memVars, hwVars, lifeVars
<1>1. CASE ClientNext
  BY <1>1, ClientOwner
<1>2. CASE \E t \in Threads : ThreadNext(t)
  BY <1>2, ThreadOwner
<1>3. CASE \E w \in Waiters : WaiterNext(w)
  BY <1>3, OwnerUnchanged DEF WaiterNext, WaitBegin, WaitWoken, WaitTimesOut, WaitEnd
<1>4. CASE EngineTransfers \/ TimerExpires
  BY <1>4, OwnerUnchanged DEF EngineTransfers, TimerExpires
<1>5. CASE IrqEnter \/ IrqRead \/ IrqOverflow \/ IrqLock \/ IrqFrame
  BY <1>5, OwnerUnchanged DEF IrqEnter, IrqRead, IrqOverflow, IrqLock, IrqFrame
<1>6. CASE IrqFinish
  BY <1>6 DEF IrqFinish, StopHasOwner
<1>7. CASE DoneWork
  BY <1>7, OwnerNotNeeded, CleanSyncEnds DEF DoneWork
<1>8. CASE DmaTimeout
  BY <1>8, OwnerNotNeeded DEF DmaTimeout
<1>9. CASE UNCHANGED vars
  BY <1>9, OwnerUnchanged DEF vars
<1>10. QED
  BY <1>1, <1>2, <1>3, <1>4, <1>5, <1>6, <1>7, <1>8, <1>9 DEF Next, IrqNext

\* A stop in progress is somebody's duty - the work item is pending, or a starter has
\* cancelled it and will finish the stop itself - and whatever clients do, one step
\* only can leave it to nobody: fg_start_transfer returning after cancel_work_sync
\* because its head was freed while no lock was held.
THEOREM StopIsLostOnlyWithItsHead ==
  Spec => StopHasOwner /\ [][StopHasOwner => StopHasOwner' \/ LeavesCancelled]_vars
<1>1. Init => StopHasOwner
  BY DEF Init, StopHasOwner
<1>2. IInv /\ [Next]_vars => (StopHasOwner => StopHasOwner' \/ LeavesCancelled)
  BY NextOwner
<1>3. QED
  BY <1>1, <1>2, Inductive, PTL DEF Spec

(***************************************************************************)
(* men_dma_queue_max never overfills the board: NeverOverqueued for every  *)
(* FIFO depth, every number of frames and every interleaving of its        *)
(* callers (start, interrupt handler, unlock and queue ioctls).            *)
(***************************************************************************)


\* The board holds no more descriptors than frames are outstanding and than
\* its FIFO has places.
Fits(c) == c.hot_count <= c.transfer_todo /\ c.hot_count <= FifoLength

\* The counters Fits is about are the same in both records.
SameQueue(c, d) == d.hot_count = c.hot_count /\ d.transfer_todo = c.transfer_todo

\* Unsigned arithmetic that stays in range is exact.
LEMMA SmallRemainder ==
  ASSUME NEW m \in Nat, NEW a \in 0 .. m
  PROVE  a % (m + 1) = a
OBVIOUS

\* What is added by men_dma_queue_max fits in the FIFO and is still wanted.
LEMMA QueueMaxFits ==
  ASSUME NEW c \in Channel, NEW h \in Heads, Fits(c)
  PROVE  Fits(QueueMax(c, h))
<1> DEFINE n  == NumToQueue(c)
           ho == c.hot_count
           td == c.transfer_todo
           rd == c.ready_count
           ff == FreeInFifo(c)
<1>1. ho \in Nat /\ td \in Int /\ rd \in Nat /\ ho <= td /\ ho <= FifoLength
  BY CountParts DEF Fits
<1>2. FifoLength \in Nat \ {0} /\ UintMax \in Nat /\ FifoLength <= UintMax
  BY FifoLengthAssumption, UintMaxAssumption
<1>3. ff = FifoLength - ho
  <2>1. ff = (FifoLength - ho) % (UintMax + 1)
    BY DEF FreeInFifo
  <2>2. FifoLength - ho \in 0 .. UintMax
    BY <1>1, <1>2
  <2> HIDE DEF ff, ho
  <2>3. QED
    BY <1>2, <2>1, <2>2, SmallRemainder
<1>4. (QueueMax(c, h)).transfer_todo = td
  BY QueueMaxType DEF SameProgress
<1>5. CASE WantsDummy(c)
  <2>1. (QueueMax(c, h)).hot_count = Inc(ho) /\ ho = 0 /\ td > ho
    BY <1>5 DEF QueueMax, WantsDummy, Channel
  <2> HIDE DEF ho, td
  <2>2. Inc(ho) = 1
    BY <1>2, <2>1 DEF Inc
  <2>3. QED
    BY <1>1, <1>2, <1>4, <2>1, <2>2 DEF Fits
<1>6. CASE ~WantsDummy(c)
  <2>1. (QueueMax(c, h)).hot_count = (ho + n) % (UintMax + 1)
    BY <1>6 DEF QueueMax, Channel
  <2>2. n = IF td <= ho THEN 0 ELSE Min2(Min2(td - ho, rd), ff)
    BY DEF NumToQueue
  <2> HIDE DEF n, ho, td, rd, ff
  <2>3. n \in Nat /\ ho + n <= td /\ ho + n <= FifoLength
    BY <1>1, <1>2, <1>3, <2>2 DEF Min2
  <2>4. ho + n \in 0 .. UintMax
    BY <1>1, <1>2, <2>3
  <2>5. (ho + n) % (UintMax + 1) = ho + n
    BY <1>2, <2>4, SmallRemainder
  <2>6. QED
    BY <1>4, <2>1, <2>3, <2>5 DEF Fits
<1>7. QED
  BY <1>5, <1>6

\* A received frame (men_move_hot) leaves one descriptor and one outstanding
\* frame fewer, or changes neither.
LEMMA MoveHotFits ==
  ASSUME NEW c \in Channel, Fits(c)
  PROVE  Fits(MoveHot(c))
<1>1. CASE c.hot_count = 0 \/ c.hot_list = <<>>
  BY <1>1 DEF MoveHot, Fits, Channel
<1>2. CASE c.hot_count # 0 /\ c.hot_list # <<>>
  <2> DEFINE r == Received(c)
             b == Head(c.hot_list)
  <2>1. r \in Channel /\ r.transfer_todo = c.transfer_todo - 1
    BY <1>2, ReceivedType
  <2>2. r.hot_count = c.hot_count - 1
    BY <1>2 DEF Received, Dec, Channel
  <2>3. MoveHot(c) \in {[r EXCEPT !.lost_count = r.lost_count + 1], Deliver(r, b)}
    BY <1>2 DEF MoveHot
  <2> HIDE DEF r, b
  <2>4. SameQueue(r, [r EXCEPT !.lost_count = r.lost_count + 1])
    BY <2>1 DEF SameQueue, Channel
  <2>5. SameQueue(r, Deliver(r, b))
    BY <2>1 DEF SameQueue, Deliver, AddFree, AddReady, Channel
  <2>6. SameQueue(r, MoveHot(c))
    BY <2>3, <2>4, <2>5
  <2>7. c.hot_count \in Nat /\ c.transfer_todo \in Int
    BY CountParts
  <2>8. QED
    BY <2>1, <2>2, <2>6, <2>7, FifoLengthAssumption DEF Fits, SameQueue
<1>3. QED
  BY <1>1, <1>2

\* The operations on free, ready, grabbed and locked buffers.
LEMMA ListOpsSameQueue ==
  ASSUME NEW c \in Channel, NEW b \in Buf
  PROVE  /\ SameQueue(c, CleanBuffer(c, b))
         /\ SameQueue(c, AddFree(c, b))
         /\ SameQueue(c, NextBlocked(c))
         /\ SameQueue(c, LastBlocked(c))
         /\ SameQueue(c, Unblocked(c, b))
         /\ SameQueue(c, MoveToReady(c, b))
         /\ c.listname[b] # "HOT" => SameQueue(c, RemoveBuffer(c, b))
<1>1. SameQueue(c, AddReady(c, b)) /\ SameQueue(c, AddFree(c, b))
  BY DEF SameQueue, AddReady, AddFree, Channel
<1>2. SameQueue(c, CleanBuffer(c, b))
  BY <1>1 DEF CleanBuffer
<1>3. SameQueue(c, NextBlocked(c))
  BY DEF SameQueue, NextBlocked, Channel
<1>4. SameQueue(c, LastBlocked(c))
  BY DEF SameQueue, LastBlocked, Channel
<1>5. SameQueue(c, Unblocked(c, b))
  BY DEF SameQueue, Unblocked, AddReady, Channel
<1>6. SameQueue(c, MoveToReady(c, b))
  BY DEF SameQueue, MoveToReady, Channel
<1>7. c.listname[b] # "HOT" => SameQueue(c, RemoveBuffer(c, b))
  BY DEF SameQueue, RemoveBuffer, Channel
<1>8. QED
  BY <1>1, <1>2, <1>3, <1>4, <1>5, <1>6, <1>7

-----------------------------------------------------------------------------
\* The inductive strengthening: a start fills the board from an empty hot list.
QueueInv ==
  /\ state = "STARTED" => Fits(chan)
  /\ \A t \in Threads : thr[t].pc = "clean" => chan.hot_count = 0

\* A step that leaves the queue and the starters alone.
LEMMA QueueUnchanged ==
  ASSUME QueueInv, SameQueue(chan, chan'), state' = state \/ state' # "STARTED",
         \A t \in Threads : thr'[t].pc = "clean" => thr[t].pc = "clean"
  PROVE  QueueInv'
BY DEF QueueInv, SameQueue, Fits

\* A step after which the channel is not started and nobody is starting it.
LEMMA QueueNotStarted ==
  ASSUME state' # "STARTED", \A t \in Threads : thr'[t].pc # "clean"
  PROVE  QueueInv'
BY DEF QueueInv

\* A step that may refill the board, taken while no start is under way.
LEMMA QueueRefilled ==
  ASSUME QueueInv, Fits(chan) => Fits(chan'), state' = state,
         \A t \in Threads : thr'[t].pc # "clean"
  PROVE  QueueInv'
BY DEF QueueInv

\* men_unblock_buffer may refill the board.
LEMMA UnblockFits ==
  ASSUME IInv, NEW b \in Buf, b[1] \in linked, Unblock(b), Fits(chan)
  PROVE  Fits(chan')
<1>1. active \in Heads /\ chan \in Channel
  BY DEF IInv, TypeOK, LinkConsistent
<1> DEFINE d == Unblocked(chan, b)
<1>2. d \in Channel /\ SameQueue(chan, d)
  BY <1>1, UnblockedType, ListOpsSameQueue
<1>3. chan' \in {d, QueueMax(d, active)}
  BY DEF Unblock, UnblockBuffer
<1> HIDE DEF d
<1>4. Fits(d)
  BY <1>2 DEF Fits, SameQueue
<1>5. QED
  BY <1>1, <1>2, <1>3, <1>4, QueueMaxFits

\* Nobody is between the sections of a start while listlock is free.
LEMMA ListFreeNoClean ==
  ASSUME ListFree
  PROVE  \A t \in Threads : thr[t].pc # "clean"
BY DEF ListFree, HoldsList

\* men_dma_clean_sync leaves the channel stopped, or stuck in STOPPING.
LEMMA CleanSyncNotStarted ==
  ASSUME NEW c, CleanSync(c)
  PROVE  state' # "STARTED"
BY DEF CleanSync

\* men_stop_dma_locked stops the channel or does nothing.
LEMMA StopLockedQueue ==
  ASSUME StopLocked
  PROVE  state' # "STARTED" \/ UNCHANGED <<chan, state>>
BY DEF StopLocked

\* A start empties the hot list, then fills the board once from the ready list.
LEMMA StartQueue ==
  ASSUME IInv, QueueInv, NEW t \in Threads, StartNext(t)
  PROVE  QueueInv'
<1> USE DEF timerVars, memVars, hwVars, lifeVars
<1>0. thr \in [Threads -> Thread] /\ IdleThread.pc = "idle" /\ chan \in Channel
  BY DEF IInv, TypeOK, IdleThread
<1>00. HoldsBh(t) => \A u \in Threads : u # t => thr[u].pc # "clean"
  BY DEF IInv, LockInv, HoldsBh
<1>1. CASE \E b \in Buf, n \in Todos, m \in StartModes, tmo \in Timeouts : StartCheck(t, b, n, m, tmo)
  <2>1. UNCHANGED <<chan, state>> /\ \A u \in Threads : thr'[u].pc = "clean" => thr[u].pc = "clean"
    BY <1>0, <1>1 DEF StartCheck
  <2>2. QED
    BY <2>1, QueueUnchanged DEF SameQueue
<1>2. CASE StartCancelWork(t) \/ StartHeadGone(t) \/ StartLock(t)
  <2>1. UNCHANGED <<chan, state>> /\ \A u \in Threads : thr'[u].pc = "clean" => thr[u].pc = "clean"
    BY <1>0, <1>2 DEF StartCancelWork, StartHeadGone, StartLock, Thread
  <2>2. QED
    BY <2>1, QueueUnchanged DEF SameQueue
<1>3. CASE StartRelock(t)
  <2>1. \A u \in Threads : thr[u].pc # "clean"
    BY <1>3 DEF StartRelock, BhFree, HoldsBh
  <2>2. \A u \in Threads : thr'[u] = thr[u] \/ thr'[u].pc \in {"begin", "idle"}
    BY <1>0, <1>3 DEF StartRelock, Thread
  <2>3. state' # "STARTED" \/ UNCHANGED <<chan, state>>
    BY <1>3, CleanSyncNotStarted DEF StartRelock
  <2>4. QED
    BY <2>1, <2>2, <2>3, QueueNotStarted, QueueUnchanged DEF SameQueue
<1>4. CASE StartBusy(t)
  <2>1. \A u \in Threads : thr'[u].pc # "clean"
    BY <1>0, <1>00, <1>4 DEF StartBusy, HoldsBh
  <2>2. QED
    BY <1>4, <2>1, QueueNotStarted, CleanSyncNotStarted DEF StartBusy
<1>5. CASE StartBegin(t)
  <2>1. StoreRequest(t) \in Channel
    BY <1>5, StoreRequestType DEF StartBegin
  <2>2. chan'.hot_count = 0 /\ state' = "STARTING"
    BY <1>5, <2>1 DEF StartBegin, ClearLists, Channel
  <2>3. QED
    BY <2>2 DEF QueueInv
<1>6. CASE StartCleanBuffer(t)
  <2>1. thr[t].pc = "clean" /\ active \in Heads /\ UNCHANGED state
    BY <1>6 DEF StartCleanBuffer, IInv, TypeOK, ThreadInv, Starting
  <2>2. SameQueue(chan, chan')
    <3> DEFINE b == <<active, (thr[t].slot + thr[t].idx) % NumSb>>
    <3>1. chan' = IF b \in bufs THEN CleanBuffer(chan, b) ELSE chan
      BY <1>6 DEF StartCleanBuffer
    <3>2. bufs \subseteq Buf
      BY DEF IInv, TypeOK
    <3> HIDE DEF b
    <3>3. QED
      BY <1>0, <3>1, <3>2, ListOpsSameQueue DEF SameQueue
  <2>3. \A u \in Threads : thr'[u].pc = "clean" => thr[u].pc = "clean"
    BY <1>0, <1>6, <2>1 DEF StartCleanBuffer
  <2>4. QED
    BY <2>1, <2>2, <2>3, QueueUnchanged
<1>7. CASE StartFails(t)
  <2>1. \A u \in Threads : thr'[u].pc # "clean"
    BY <1>0, <1>00, <1>7 DEF StartFails, HoldsBh
  <2>2. state' # "STARTED"
    BY <1>7, CleanSyncNotStarted DEF StartFails
  <2>3. QED
    BY <2>1, <2>2, QueueNotStarted
<1>8. CASE StartSucceeds(t)
  <2>1. \A u \in Threads : thr'[u].pc # "clean"
    BY <1>0, <1>00, <1>8 DEF StartSucceeds, HoldsBh
  <2>2. thr[t].pc = "clean" /\ active \in Heads /\ chan.transfer_todo > 0 /\ chan.hot_count = 0
    BY <1>8 DEF StartSucceeds, QueueInv, IInv, ThreadInv, Starting
  <2>3. Fits(chan)
    BY <1>0, <2>2, CountParts, FifoLengthAssumption DEF Fits
  <2>4. Fits(chan')
    BY <1>0, <1>8, <2>2, <2>3, QueueMaxFits DEF StartSucceeds
  <2>5. QED
    BY <2>1, <2>4 DEF QueueInv
<1>9. QED
  BY <1>1, <1>2, <1>3, <1>4, <1>5, <1>6, <1>7, <1>8 DEF StartNext

\* Unlocking all buffers refills the board one buffer at a time; closing stops
\* the channel before it frees anything.
LEMMA ThreadQueue ==
  ASSUME IInv, QueueInv, NEW t \in Threads, ThreadNext(t)
  PROVE  QueueInv'
<1> USE DEF timerVars, memVars, hwVars, lifeVars
<1>0. thr \in [Threads -> Thread] /\ IdleThread.pc = "idle" /\ chan \in Channel
  BY DEF IInv, TypeOK, IdleThread
<1>1. CASE StartNext(t)
  BY <1>1, StartQueue
<1>2. CASE (\E h \in Heads : UnlockAllBegin(t, h)) \/ UnlockAllEnd(t) \/ CloseMem(t)
  <2>1. UNCHANGED <<chan, state>> /\ \A u \in Threads : thr'[u].pc = "clean" => thr[u].pc = "clean"
    BY <1>0, <1>2 DEF UnlockAllBegin, UnlockAllEnd, CloseMem, IdleThread
  <2>2. QED
    BY <2>1, QueueUnchanged DEF SameQueue
<1>3. CASE UnlockAllStep(t)
  <2> DEFINE b == <<thr[t].head, thr[t].idx>>
  <2>1. \A u \in Threads : thr[u].pc # "clean"
    BY <1>3 DEF UnlockAllStep, IInv, LockInv, HoldsBh
  <2>2. \A u \in Threads : thr'[u].pc # "clean"
    BY <1>0, <1>3, <2>1 DEF UnlockAllStep
  <2>3. state' = state /\ IF b \in bufs THEN Unblock(b) ELSE chan' = chan
    BY <1>3 DEF UnlockAllStep
  <2>4. b[1] \in linked /\ bufs \subseteq Buf
    BY <1>3 DEF UnlockAllStep, IInv, ThreadInv, TypeOK
  <2> HIDE DEF b
  <2>5. Fits(chan) => Fits(chan')
    BY <2>3, <2>4, UnblockFits
  <2>6. QED
    BY <2>2, <2>3, <2>5, QueueRefilled
<1>4. CASE CloseChannels(t)
  <2>1. \A u \in Threads : thr'[u].pc # "clean"
    BY <1>0, <1>4 DEF CloseChannels
  <2>2. state' # "STARTED" \/ UNCHANGED <<chan, state>>
    BY <1>4, StopLockedQueue DEF CloseChannels
  <2>3. QED
    BY <2>1, <2>2, QueueNotStarted, QueueRefilled
<1>5. QED
  BY <1>1, <1>2, <1>3, <1>4 DEF ThreadNext

\* Removing a buffer while the channel runs is refused for those on the board,
\* so it frees no place; queueing and unlocking refill within the limits.
LEMMA ClientQueue ==
  ASSUME IInv, QueueInv, ClientNext
  PROVE  QueueInv'
<1> USE DEF timerVars, memVars, hwVars, lifeVars
<1>0. chan \in Channel /\ thr \in [Threads -> Thread] /\ active \in Heads \cup {NoHead}
  BY DEF IInv, TypeOK
<1>1. CASE Open
  BY <1>1, QueueUnchanged DEF Open, SameQueue
<1>2. ASSUME NEW h \in Heads, CreateHead(h) PROVE QueueInv'
  BY <1>2, QueueUnchanged DEF CreateHead, SameQueue
<1>3. ASSUME NEW h \in Heads, FreeBufHead(h) PROVE QueueInv'
  <2>1. UNCHANGED <<chan, state>> /\ \A u \in Threads : thr'[u].pc = thr[u].pc
    BY <1>0, <1>3 DEF FreeBufHead, MarkMoved, Thread
  <2>2. QED
    BY <2>1, QueueUnchanged DEF SameQueue
<1>4. ASSUME NEW h \in Heads, GetNextImage(h) \/ GetActImage(h) PROVE QueueInv'
  <2>1. UNCHANGED <<state, thr>> /\ chan' \in {NextBlocked(chan), LastBlocked(chan)}
    BY <1>4 DEF GetNextImage, GetActImage
  <2>2. <<h, 0>> \in Buf
    BY NumSbAssumption DEF Buf, Slots
  <2>3. QED
    BY <1>0, <2>1, <2>2, QueueUnchanged, ListOpsSameQueue
<1>5. ASSUME NEW b \in Buf, CreateUserbuf(b) PROVE QueueInv'
  <2> DEFINE names   == [chan.listname EXCEPT ![b] = "FREE"]
             numbers == [chan.frame_number EXCEPT ![b] = 0]
             c       == [chan EXCEPT !.listname = names, !.frame_number = numbers]
  <2>1. names \in [Buf -> ListNames] /\ numbers \in [Buf -> Nat]
    BY <1>0, ChannelParts DEF ListNames
  <2>2. chan' \in {c, AddFree(c, b)} /\ UNCHANGED <<state, thr>>
    BY <1>5 DEF CreateUserbuf
  <2> HIDE DEF names, numbers
  <2>3. c \in Channel /\ SameQueue(chan, c)
    BY <1>0, <2>1 DEF Channel, SameQueue
  <2> HIDE DEF c
  <2>4. SameQueue(chan, chan')
    BY <2>2, <2>3, ListOpsSameQueue DEF SameQueue
  <2>5. QED
    BY <2>2, <2>4, QueueUnchanged
<1>6. ASSUME NEW b \in Buf, FreeUserbuf(b) PROVE QueueInv'
  <2>1. UNCHANGED <<state, thr>> /\ \A u \in Threads : thr[u].pc # "clean"
    BY <1>6 DEF FreeUserbuf, BhFree, HoldsBh
  <2>2. CASE state = "STARTED"
    <3>1. chan' = chan \/ (chan' = RemoveBuffer(chan, b) /\ chan.listname[b] # "HOT")
      BY <1>6, <2>2 DEF FreeUserbuf
    <3>2. SameQueue(chan, chan')
      BY <1>0, <3>1, ListOpsSameQueue DEF SameQueue
    <3>3. QED
      BY <2>1, <3>2, QueueUnchanged
  <2>3. CASE state # "STARTED"
    BY <2>1, <2>3, QueueNotStarted
  <2>4. QED
    BY <2>2, <2>3
<1>7. ASSUME NEW b \in Buf, UnlockBuffer(b) PROVE QueueInv'
  <2>1. b[1] \in linked /\ Unblock(b) /\ UNCHANGED <<state, thr>> /\ ListFree
    BY <1>7 DEF UnlockBuffer, ClientListSection
  <2>2. QED
    BY <2>1, UnblockFits, ListFreeNoClean, QueueRefilled
<1>8. ASSUME NEW b \in Buf, QueueBuffer(b) PROVE QueueInv'
  <2>1. UNCHANGED <<state, thr>> /\ \A u \in Threads : thr[u].pc # "clean"
    BY <1>8 DEF QueueBuffer, BhFree, HoldsBh
  <2>2. CASE state # "STARTED"
    BY <2>1, <2>2, QueueNotStarted
  <2>3. CASE state = "STARTED"
    <3> DEFINE c == MoveToReady(chan, b)
    <3>1. chan' = [chan EXCEPT !.listname[b] = "READY"] \/ (b[1] \in linked /\ chan' = QueueMax(c, active))
      BY <1>8, <2>3 DEF QueueBuffer
    <3>2. SameQueue(chan, [chan EXCEPT !.listname[b] = "READY"])
      BY <1>0 DEF Channel, SameQueue
    <3>3. c \in Channel /\ SameQueue(chan, c)
      BY <1>0, MoveToReadyType, ListOpsSameQueue
    <3> HIDE DEF c
    <3>4. b[1] \in linked => active \in Heads
      BY <1>0 DEF IInv, LinkConsistent, Buf
    <3>5. Fits(chan) => Fits(chan')
      BY <3>1, <3>2, <3>3, <3>4, QueueMaxFits DEF SameQueue, Fits
    <3>6. QED
      BY <2>1, <3>5, QueueRefilled
  <2>4. QED
    BY <2>2, <2>3
<1>9. CASE Stop
  <2>1. UNCHANGED thr /\ ListFree /\ StopLocked
    BY <1>9 DEF Stop
  <2>2. QED
    BY <2>1, StopLockedQueue, ListFreeNoClean, QueueNotStarted, QueueRefilled
<1>10. QED
  BY <1>1, <1>2, <1>3, <1>4, <1>5, <1>6, <1>7, <1>8, <1>9 DEF ClientNext

\* The interrupt handler books frames and refills within the limits.
LEMMA IrqQueue ==
  ASSUME IInv, QueueInv, IrqNext
  PROVE  QueueInv'
<1> USE DEF timerVars, memVars, hwVars, lifeVars
<1>0. chan \in Channel /\ irq \in Irq /\ (irq.pc = "frames" => active \in Heads)
  BY DEF IInv, TypeOK, ChanInv
<1>1. CASE IrqEnter \/ IrqRead
  BY <1>1, QueueUnchanged DEF IrqEnter, IrqRead, SameQueue
<1>2. CASE IrqOverflow \/ IrqLock
  <2>1. UNCHANGED <<state, thr>>
    BY <1>2 DEF IrqOverflow, IrqLock
  <2>2. chan' \in {chan, [chan EXCEPT !.lost_count = @ + 1], [chan EXCEPT !.lost_count = @ + Len(irq.got)]}
    BY <1>2 DEF IrqOverflow, IrqLock
  <2>3. SameQueue(chan, chan')
    BY <1>0, <2>2 DEF Channel, SameQueue
  <2>4. QED
    BY <2>1, <2>3, QueueUnchanged
<1>3. CASE IrqFrame
  <2>1. UNCHANGED <<state, thr>> /\ ListFree /\ chan' = MoveHot(chan)
    BY <1>3 DEF IrqFrame
  <2>2. QED
    BY <1>0, <2>1, ListFreeNoClean, MoveHotFits, QueueRefilled
<1>4. CASE IrqFinish
  <2>1. UNCHANGED thr /\ ListFree /\ active \in Heads
    BY <1>0, <1>4 DEF IrqFinish
  <2>2. state' # "STARTED" \/ (UNCHANGED state /\ chan' \in {chan, QueueMax(chan, active)})
    BY <1>4 DEF IrqFinish
  <2>3. QED
    BY <1>0, <2>1, <2>2, ListFreeNoClean, QueueMaxFits, QueueNotStarted, QueueRefilled
<1>5. QED
  BY <1>1, <1>2, <1>3, <1>4 DEF IrqNext

\* Every step keeps the board within its limits.
LEMMA NextQueue ==
  ASSUME IInv, QueueInv, [Next]_vars
  PROVE  QueueInv'
<1> USE DEF timerVars, memVars, hwVars, lifeVars
<1>1. CASE ClientNext
  BY <1>1, ClientQueue
<1>2. CASE \E t \in Threads : ThreadNext(t)
  BY <1>2, ThreadQueue
<1>3. CASE \E w \in Waiters : WaiterNext(w)
  BY <1>3, QueueUnchanged DEF WaiterNext, WaitBegin, WaitWoken, WaitTimesOut, WaitEnd, SameQueue
<1>4. CASE EngineTransfers \/ TimerExpires \/ UNCHANGED vars
  BY <1>4, QueueUnchanged DEF EngineTransfers, TimerExpires, vars, SameQueue
<1>5. CASE IrqNext
  BY <1>5, IrqQueue
<1>6. CASE DoneWork
  <2>1. UNCHANGED thr /\ ListFree /\ (state' # "STARTED" \/ UNCHANGED <<chan, state>>)
    BY <1>6, CleanSyncNotStarted DEF DoneWork
  <2>2. QED
    BY <2>1, ListFreeNoClean, QueueNotStarted, QueueRefilled
<1>7. CASE DmaTimeout
  <2>1. UNCHANGED thr /\ ListFree /\ state' # "STARTED"
    BY <1>7 DEF DmaTimeout
  <2>2. QED
    BY <2>1, ListFreeNoClean, QueueNotStarted
<1>8. QED
  BY <1>1, <1>2, <1>3, <1>4, <1>5, <1>6, <1>7 DEF Next

\* While an acquisition runs, the board never holds more descriptors than its
\* FIFO has places or than frames are outstanding, so the unsigned difference
\* in men_dma_queue_max never wraps around.
THEOREM QueueNeverOverfull == Spec => []NeverOverqueued
<1>1. Init => QueueInv
  BY DEF Init, QueueInv, IdleThread
<1>2. IInv /\ QueueInv /\ [Next]_vars => QueueInv'
  BY NextQueue
<1>3. QueueInv => NeverOverqueued
  BY DEF QueueInv, NeverOverqueued, Fits
<1>4. QED
  BY <1>1, <1>2, <1>3, Inductive, PTL DEF Spec
=============================================================================
