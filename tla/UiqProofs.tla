------------------------------ MODULE UiqProofs ------------------------------
(***************************************************************************)
(* The user interrupt queues, for every kind of queue, every buffer size   *)
(* and every interleaving of clients, interrupts and requests: words are   *)
(* accounted for (AllWordsAccounted), in order and flagged (StreamIntact), *)
(* packets are not torn (PacketsNotTorn), a write queue keeps going unless *)
(* it is switched off while in use (WriteQueueDriven), the board's FIFO is *)
(* overrun only then (FpgaFifoBounded) and no sleeping client is forgotten *)
(* (NoMissedWakeup).                                                       *)
(***************************************************************************)
EXTENDS Uiq, FiniteSetTheorems, WellFoundedInduction, TLAPS

-----------------------------------------------------------------------------
(* The ring.                                                               *)

Buffers == UNION {[0 .. c - 1 -> Word] : c \in Nat}

Ring == [data : Buffers, capacity : Nat, fill : Nat, read_index : Nat,
         lost_words_count : Nat, last_words_were_lost : BOOLEAN,
         last_word_was_eop : BOOLEAN, is_running : BOOLEAN]

\* A ring that the functions of uiq_base.c can work on.
RingOK(r) ==
  /\ r \in Ring
  /\ r.data \in [0 .. r.capacity - 1 -> Word]
  /\ r.fill <= r.capacity
  /\ r.read_index < r.capacity \/ r.read_index = 0

\* A remainder is unique: the four windows that ring indices fall into.
LEMMA ModWindows ==
  ASSUME NEW c \in Nat \ {0}, NEW x \in Int
  PROVE  /\ x \in 0 .. c - 1 => x % c = x
         /\ x \in c .. 2 * c - 1 => x % c = x - c
         /\ x \in -c .. -1 => x % c = x + c
         /\ x \in -2 * c .. -c - 1 => x % c = x + 2 * c
  OBVIOUS

\* An index that has gone round at most once.
LEMMA WrapOnce ==
  ASSUME NEW c \in Nat \ {0}, NEW x \in Nat, x < 2 * c
  PROVE  x % c \in 0 .. c - 1 /\ (x % c = x \/ x % c = x - c)
  OBVIOUS

\* A buffer of any size is a buffer.
LEMMA BufferIn == \A c \in Nat : [0 .. c - 1 -> Word] \subseteq Buffers
  BY DEF Buffers

\* A word of the ring is a word.
LEMMA ContentsSeq ==
  ASSUME NEW r, RingOK(r)
  PROVE  Contents(r) \in Seq(Word) /\ Len(Contents(r)) = r.fill
<1> DEFINE c == r.capacity
           ri == r.read_index
           f == r.fill
           d == r.data
<1>1. c \in Nat /\ ri \in Nat /\ f \in Nat /\ d \in [0 .. c - 1 -> Word] /\ f <= c
      /\ (ri < c \/ ri = 0)
  BY DEF RingOK, Ring
<1>2. Contents(r) = [i \in 1 .. f |-> d[(ri + i - 1) % c]]
  BY DEF Contents
<1> HIDE DEF c, ri, f, d
<1>3. ASSUME NEW i \in 1 .. f PROVE d[(ri + i - 1) % c] \in Word
  <2>1. (ri + i - 1) % c \in 0 .. c - 1
    BY <1>1
  <2>2. QED
    BY <1>1, <2>1
<1>4. Contents(r) \in [1 .. f -> Word]
  BY <1>2, <1>3
<1>5. Contents(r) \in Seq(Word) /\ Len(Contents(r)) = f
  BY <1>4, <1>1
<1>6. QED
  BY <1>5 DEF f

\* What push_back does: the first n words are stored behind the others.
Stores(r, ws, n, v) ==
  /\ n \in 0 .. Len(ws)
  /\ RingOK(v)
  /\ v.capacity = r.capacity
  /\ v.fill = r.fill + n
  /\ v.last_word_was_eop = r.last_word_was_eop
  /\ v.is_running = r.is_running
  /\ v.lost_words_count = r.lost_words_count + (Len(ws) - n)
  /\ n = Len(ws) => v.last_words_were_lost = FALSE
  /\ n # Len(ws) => v.last_words_were_lost = TRUE
  /\ \A i \in 1 .. r.fill : Contents(v)[i] = Contents(r)[i]
  /\ \A i \in 1 .. n : Contents(v)[r.fill + i] = ws[i]

\* push_back stores as much as fits.
LEMMA PushBackStores ==
  ASSUME NEW r, RingOK(r), NEW ws \in Seq(Word)
  PROVE  Stores(r, ws, Least(Len(ws), GetFreeCapacity(r)), PushBack(r, ws))
<1> DEFINE c == r.capacity
           ri == r.read_index
           f == r.fill
           d == r.data
           n == Least(Len(ws), GetFreeCapacity(r))
           d2 == [i \in 0 .. c - 1 |->
                    LET k == (i - ri - f) % c IN IF k < n THEN ws[k + 1] ELSE d[i]]
           s == [r EXCEPT !.data = d2, !.fill = @ + n]
           v == PushBack(r, ws)
<1>1. c \in Nat /\ ri \in Nat /\ f \in Nat /\ d \in [0 .. c - 1 -> Word] /\ f <= c
      /\ (ri < c \/ ri = 0)
  BY DEF RingOK, Ring
<1>2. n \in 0 .. Len(ws) /\ f + n <= c /\ Len(ws) \in Nat
  BY <1>1 DEF Least, GetFreeCapacity
<1>3. v = IF n = Len(ws) THEN [s EXCEPT !.last_words_were_lost = FALSE]
          ELSE [s EXCEPT !.lost_words_count = @ + (Len(ws) - n), !.last_words_were_lost = TRUE]
  BY DEF PushBack, RecordDiscardedWords
<1>4. d2 \in [0 .. c - 1 -> Word]
  <2> HIDE DEF n, c, ri, f, d
  <2> SUFFICES ASSUME NEW i \in 0 .. c - 1 PROVE d2[i] \in Word
    OBVIOUS
  <2>1. (i - ri - f) % c \in 0 .. c - 1
    BY <1>1
  <2>2. CASE (i - ri - f) % c < n
    <3>1. ((i - ri - f) % c) + 1 \in 1 .. Len(ws)
      BY <1>2, <2>1, <2>2
    <3>2. QED
      BY <3>1, <2>2
  <2>3. CASE ~((i - ri - f) % c < n)
    BY <1>1, <2>3
  <2>4. QED
    BY <2>2, <2>3
<1>5. d2 \in Buffers
  BY <1>1, <1>4, BufferIn
<1> HIDE DEF d2, n
<1>a. /\ r \in Ring /\ f + n \in Nat
  BY <1>1, <1>2 DEF RingOK
<1>6. /\ s \in Ring
      /\ s.data = d2 /\ s.capacity = c /\ s.fill = f + n /\ s.read_index = ri
      /\ s.lost_words_count = r.lost_words_count
      /\ s.last_word_was_eop = r.last_word_was_eop /\ s.is_running = r.is_running
  BY <1>a, <1>5 DEF Ring
<1> HIDE DEF s
<1>7. /\ v \in Ring
      /\ v.data = d2 /\ v.capacity = c /\ v.fill = f + n /\ v.read_index = ri
      /\ v.lost_words_count = r.lost_words_count + (Len(ws) - n)
      /\ n = Len(ws) => v.last_words_were_lost = FALSE
      /\ n # Len(ws) => v.last_words_were_lost = TRUE
      /\ v.last_word_was_eop = r.last_word_was_eop /\ v.is_running = r.is_running
  <2>0. r.lost_words_count \in Nat
    BY DEF RingOK, Ring
  <2>1. CASE n = Len(ws)
    <3>1. v = [s EXCEPT !.last_words_were_lost = FALSE]
      BY <1>3, <2>1
    <3>2. r.lost_words_count + (Len(ws) - n) = r.lost_words_count
      BY <2>0, <2>1, <1>2
    <3> HIDE DEF v, c, f, ri
    <3>3. QED
      BY <3>1, <3>2, <1>6, <2>1 DEF Ring
  <2>2. CASE n # Len(ws)
    <3>1. r.lost_words_count + (Len(ws) - n) \in Nat
      BY <1>2, <2>0
    <3>2. QED
      BY <1>3, <1>6, <2>2, <3>1 DEF Ring
  <2>3. QED
    BY <2>1, <2>2
<1> HIDE DEF v, c, ri, f, d
<1>8. RingOK(v)
  BY <1>7, <1>4, <1>1, <1>2 DEF RingOK
<1>9. Contents(v) = [i \in 1 .. f + n |-> d2[(ri + i - 1) % c]]
  BY <1>7 DEF Contents
<1>10. Contents(r) = [i \in 1 .. f |-> d[(ri + i - 1) % c]]
  BY DEF Contents, f, c, ri, d
<1>11. ASSUME NEW i \in 1 .. f PROVE Contents(v)[i] = Contents(r)[i]
  <2> DEFINE j == (ri + i - 1) % c
  <2>1. j \in 0 .. c - 1 /\ (j = ri + i - 1 \/ j = ri + i - 1 - c)
    <3>1. ri + i - 1 \in Nat /\ c \in Nat \ {0} /\ ri + i - 1 < 2 * c
      BY <1>1
    <3>2. PICK y \in Nat : y = ri + i - 1
      BY <3>1
    <3>3. y % c \in 0 .. c - 1 /\ (y % c = y \/ y % c = y - c)
      BY <3>1, <3>2, WrapOnce
    <3>4. j = y % c
      BY <3>2
    <3> HIDE DEF j
    <3>5. QED
      BY <1>1, <3>2, <3>3, <3>4
  <2> HIDE DEF j
  <2>2. (j - ri - f) % c >= n
    <3>1. CASE j = ri + i - 1
      <4>1. j - ri - f \in -c .. -1 /\ c \in Nat \ {0} /\ j - ri - f \in Int
        BY <1>1, <3>1
      <4>2. (j - ri - f) % c = j - ri - f + c
        BY <4>1, ModWindows
      <4>3. QED
        BY <4>2, <3>1, <1>1, <1>2
    <3>2. CASE j = ri + i - 1 - c
      <4>1. j - ri - f \in -2 * c .. -c - 1 /\ c \in Nat \ {0} /\ j - ri - f \in Int
        BY <1>1, <3>2
      <4>2. (j - ri - f) % c = j - ri - f + 2 * c
        BY <4>1, ModWindows
      <4>3. QED
        BY <4>2, <3>2, <1>1, <1>2
    <3>3. QED
      BY <2>1, <3>1, <3>2
  <2>3. d2[j] = d[j]
    BY <2>1, <2>2, <1>1, <1>2 DEF d2
  <2>4. i \in 1 .. f + n
    BY <1>1, <1>2
  <2>5. QED
    BY <2>3, <2>4, <1>9, <1>10 DEF j
<1>12. ASSUME NEW i \in 1 .. n PROVE Contents(v)[f + i] = ws[i]
  <2> DEFINE x == ri + (f + i) - 1
             j == x % c
  <2>0. x \in Nat /\ c \in Nat \ {0} /\ x < 2 * c
    BY <1>1, <1>2
  <2>1. j \in 0 .. c - 1 /\ (j = x \/ j = x - c)
    <3> HIDE DEF x
    <3>1. QED
      BY <2>0, WrapOnce
  <2> HIDE DEF j
  <2>2. (j - ri - f) % c = i - 1
    <3>1. CASE j = x
      <4>1. j - ri - f \in 0 .. c - 1 /\ j - ri - f \in Int
        BY <1>1, <1>2, <3>1
      <4>2. (j - ri - f) % c = j - ri - f
        BY <4>1, <2>0, ModWindows
      <4>3. QED
        BY <4>2, <3>1, <1>1, <1>2
    <3>2. CASE j = x - c
      <4>1. j - ri - f \in -c .. -1 /\ j - ri - f \in Int
        BY <1>1, <1>2, <3>2
      <4>2. (j - ri - f) % c = j - ri - f + c
        BY <4>1, <2>0, ModWindows
      <4>3. QED
        BY <4>2, <3>2, <1>1, <1>2
    <3>3. QED
      BY <2>1, <3>1, <3>2
  <2>3. d2[j] = ws[i]
    BY <2>1, <2>2, <1>1, <1>2 DEF d2
  <2>4. f + i \in 1 .. f + n
    BY <1>1, <1>2
  <2>5. QED
    BY <2>3, <2>4, <1>9 DEF j
<1>13. Stores(r, ws, n, v)
  BY <1>2, <1>7, <1>8, <1>11, <1>12 DEF Stores, c, f
<1>14. QED
  BY <1>13 DEF n, v

\* What pop_front does: the first m words are gone.
Drops(r, m, v) ==
  /\ m \in 0 .. r.fill
  /\ RingOK(v)
  /\ v.capacity = r.capacity
  /\ v.fill = r.fill - m
  /\ v.last_word_was_eop = r.last_word_was_eop
  /\ v.is_running = r.is_running
  /\ v.lost_words_count = r.lost_words_count
  /\ v.last_words_were_lost = r.last_words_were_lost
  /\ \A i \in 1 .. v.fill : Contents(v)[i] = Contents(r)[m + i]

\* pop_front hands out as much as there is.
LEMMA PopFrontDrops ==
  ASSUME NEW r, RingOK(r), NEW n \in Nat
  PROVE  Drops(r, Least(n, r.fill), PopFront(r, n))
<1> DEFINE c == r.capacity
           ri == r.read_index
           f == r.fill
           d == r.data
           m == Least(n, f)
           r2 == IF m = 0 THEN ri ELSE (ri + m) % c
           v == PopFront(r, n)
<1>1. c \in Nat /\ ri \in Nat /\ f \in Nat /\ d \in [0 .. c - 1 -> Word] /\ f <= c
      /\ (ri < c \/ ri = 0)
  BY DEF RingOK, Ring
<1>2. m \in 0 .. f
  BY <1>1 DEF Least
<1>3. v = [r EXCEPT !.read_index = r2, !.fill = f - m]
  BY DEF PopFront
<1> HIDE DEF m
<1>4. r2 \in Nat /\ (r2 < c \/ r2 = 0) /\ (m # 0 => r2 = ri + m \/ r2 = ri + m - c)
  <2>1. CASE m = 0
    BY <2>1, <1>1
  <2>2. CASE m # 0
    <3>1. PICK y \in Nat : y = ri + m
      BY <1>1, <1>2
    <3>2. c \in Nat \ {0} /\ y < 2 * c
      BY <1>1, <1>2, <3>1, <2>2
    <3>3. y % c \in 0 .. c - 1 /\ (y % c = y \/ y % c = y - c)
      BY <3>2, WrapOnce
    <3>4. r2 = y % c
      BY <2>2, <3>1
    <3> HIDE DEF r2, c, ri, f
    <3>5. QED
      BY <1>1, <1>2, <3>1, <3>2, <3>3, <3>4
  <2>3. QED
    BY <2>1, <2>2
<1>5. r \in Ring /\ f - m \in Nat
  BY <1>1, <1>2 DEF RingOK
<1> HIDE DEF r2
<1>6. /\ v \in Ring
      /\ v.data = d /\ v.capacity = c /\ v.fill = f - m /\ v.read_index = r2
      /\ v.lost_words_count = r.lost_words_count
      /\ v.last_words_were_lost = r.last_words_were_lost
      /\ v.last_word_was_eop = r.last_word_was_eop /\ v.is_running = r.is_running
  <2> HIDE DEF v
  <2>1. QED
    BY <1>3, <1>4, <1>5 DEF Ring
<1> HIDE DEF v, c, ri, f, d
<1>7. RingOK(v)
  BY <1>6, <1>4, <1>1, <1>2 DEF RingOK
<1>8. Contents(v) = [i \in 1 .. f - m |-> d[(r2 + i - 1) % c]]
  BY <1>6 DEF Contents
<1>9. Contents(r) = [i \in 1 .. f |-> d[(ri + i - 1) % c]]
  BY DEF Contents, f, c, ri, d
<1>10. ASSUME NEW i \in 1 .. f - m PROVE Contents(v)[i] = Contents(r)[m + i]
  <2>1. (r2 + i - 1) % c = (ri + (m + i) - 1) % c
    <3>1. PICK x \in Nat : x = r2 + i - 1
      BY <1>1, <1>2, <1>4
    <3>2. PICK y \in Nat : y = ri + (m + i) - 1
      BY <1>1, <1>2
    <3>3. c \in Nat \ {0} /\ x < 2 * c /\ y < 2 * c /\ (x = y \/ x = y - c)
      <4>1. CASE m = 0
        BY <4>1, <1>1, <1>2, <1>4, <3>1, <3>2 DEF r2
      <4>2. CASE m # 0
        BY <4>2, <1>1, <1>2, <1>4, <3>1, <3>2
      <4>3. QED
        BY <4>1, <4>2
    <3>4. x % c = y % c
      BY <3>3
    <3>5. QED
      BY <3>1, <3>2, <3>4, Zenon
  <2>2. m + i \in 1 .. f
    BY <1>1, <1>2
  <2>3. QED
    BY <2>1, <2>2, <1>8, <1>9
<1>11. Drops(r, m, v)
  BY <1>2, <1>6, <1>7, <1>10 DEF Drops, c, f
<1>12. QED
  BY <1>11 DEF m, v, f

\* The words that pop_front hands out are the first ones.
LEMMA FrontWordsFirst ==
  ASSUME NEW r, RingOK(r), NEW n \in Nat
  PROVE  /\ FrontWords(r, n) \in Seq(Word)
         /\ Len(FrontWords(r, n)) = Least(n, r.fill)
         /\ Least(n, r.fill) \in 0 .. r.fill
         /\ \A i \in 1 .. Least(n, r.fill) : FrontWords(r, n)[i] = Contents(r)[i]
<1> DEFINE m == Least(n, r.fill)
           s == Contents(r)
<1>1. r.fill \in Nat /\ s \in Seq(Word) /\ Len(s) = r.fill
  BY ContentsSeq DEF RingOK, Ring
<1>2. m \in 0 .. r.fill
  BY <1>1 DEF Least
<1>3. FrontWords(r, n) = SubSeq(s, 1, m)
  BY DEF FrontWords
<1> HIDE DEF m, s
<1>4. m \in Nat /\ m <= Len(s)
  BY <1>1, <1>2
<1>5. SubSeq(s, 1, m) \in Seq(Word) /\ Len(SubSeq(s, 1, m)) = m
      /\ \A i \in 1 .. m : SubSeq(s, 1, m)[i] = s[i]
  BY <1>1, <1>4
<1>6. QED
  BY <1>2, <1>3, <1>5 DEF m, s

\* What men_uiq_push takes out of the ring.
LEMMA AfterPushDrops ==
  ASSUME NEW r, RingOK(r)
  PROVE  Drops(r, WriteCount(r), AfterPush(r))
<1> DEFINE n == WriteCount(r)
           w == PopFront(r, n)
           v == AfterPush(r)
<1>1. n \in 0 .. r.fill /\ n \in Nat /\ Least(n, r.fill) = n
  BY UiqAssumption DEF WriteCount, Least, RingOK, Ring
<1>2. Drops(r, n, w)
  BY <1>1, PopFrontDrops
<1>3. v = IF w.fill = 0 THEN [w EXCEPT !.read_index = 0] ELSE w
  BY DEF AfterPush
<1> HIDE DEF w, n, v
<1>4. CASE w.fill # 0
  BY <1>2, <1>3, <1>4 DEF n, v
<1>5. CASE w.fill = 0
  <2>1. v = [w EXCEPT !.read_index = 0] /\ w \in Ring
    BY <1>2, <1>3, <1>5 DEF Drops, RingOK
  <2>2. /\ v \in Ring
        /\ v.data = w.data /\ v.capacity = w.capacity /\ v.fill = w.fill /\ v.read_index = 0
        /\ v.lost_words_count = w.lost_words_count
        /\ v.last_words_were_lost = w.last_words_were_lost
        /\ v.last_word_was_eop = w.last_word_was_eop /\ v.is_running = w.is_running
    BY <2>1 DEF Ring
  <2>3. RingOK(v)
    BY <1>2, <2>2 DEF RingOK, Drops
  <2>4. Drops(r, n, v)
    BY <1>2, <1>5, <2>2, <2>3 DEF Drops
  <2>5. QED
    BY <2>4 DEF n, v
<1>6. QED
  BY <1>4, <1>5

\* What replace_buffer does: the first words that fit are kept.
Keeps(r, size, v) ==
  LET keep == Least(r.fill, size)
  IN  /\ keep \in 0 .. r.fill
      /\ RingOK(v)
      /\ v.capacity = size
      /\ v.fill = keep
      /\ v.last_word_was_eop = r.last_word_was_eop
      /\ v.is_running = r.is_running
      /\ v.lost_words_count = r.lost_words_count + (r.fill - keep)
      /\ v.last_words_were_lost = r.last_words_were_lost
      /\ \A i \in 1 .. keep : Contents(v)[i] = Contents(r)[i]

\* replace_buffer moves the oldest words, wherever the old ring was wrapped.
LEMMA ReplaceBufferKeeps ==
  ASSUME NEW r, RingOK(r), NEW size \in Nat
  PROVE  Keeps(r, size, ReplaceBuffer(r, size))
<1> DEFINE c == r.capacity
           ri == r.read_index
           f == r.fill
           d == r.data
           keep == Least(f, size)
           before == Least(c - ri, keep)
           d2 == [i \in 0 .. size - 1 |->
                    CASE i < before               -> d[ri + i]
                      [] i >= before /\ i < keep  -> d[i - before]
                      [] i >= before /\ i >= keep -> NoWord]
           lost == r.lost_words_count + (f - keep)
           v == ReplaceBuffer(r, size)
<1>1. c \in Nat /\ ri \in Nat /\ f \in Nat /\ d \in [0 .. c - 1 -> Word] /\ f <= c
      /\ (ri < c \/ ri = 0)
  BY DEF RingOK, Ring
<1>2. keep \in 0 .. f /\ keep <= size
  BY <1>1 DEF Least
<1> HIDE DEF keep
<1>3. before \in 0 .. keep /\ before <= c - ri /\ (before = keep \/ before = c - ri)
  BY <1>1, <1>2 DEF Least
<1> HIDE DEF before
<1>4. v = [r EXCEPT !.data = d2, !.lost_words_count = lost, !.fill = keep, !.read_index = 0,
                    !.capacity = size]
  BY DEF ReplaceBuffer, keep, before
<1>5. NoWord \in Word
  BY TsAssumption DEF NoWord, Word
<1>6. d2 \in [0 .. size - 1 -> Word]
  <2> HIDE DEF c, ri, f, d
  <2> SUFFICES ASSUME NEW i \in 0 .. size - 1 PROVE d2[i] \in Word
    OBVIOUS
  <2>1. CASE i < before
    <3>1. ri + i \in 0 .. c - 1 /\ d2[i] = d[ri + i]
      BY <2>1, <1>1, <1>2, <1>3
    <3>2. QED
      BY <3>1, <1>1
  <2>2. CASE i >= before /\ i < keep
    <3>1. i - before \in 0 .. c - 1 /\ d2[i] = d[i - before]
      BY <2>2, <1>1, <1>2, <1>3
    <3>2. QED
      BY <3>1, <1>1
  <2>3. CASE i >= before /\ i >= keep
    <3>1. d2[i] = NoWord
      BY <2>3, <1>1, <1>2, <1>3
    <3>2. QED
      BY <3>1, <1>5
  <2>4. QED
    BY <2>1, <2>2, <2>3, <1>1, <1>2, <1>3
<1>7. d2 \in Buffers
  BY <1>6, BufferIn
<1>8. r \in Ring /\ keep \in Nat /\ lost \in Nat
  BY <1>1, <1>2 DEF RingOK, Ring
<1>9. /\ v \in Ring
      /\ v.data = d2 /\ v.capacity = size /\ v.fill = keep /\ v.read_index = 0
      /\ v.lost_words_count = lost
      /\ v.last_words_were_lost = r.last_words_were_lost
      /\ v.last_word_was_eop = r.last_word_was_eop /\ v.is_running = r.is_running
  <2> HIDE DEF v, d2, lost
  <2>1. QED
    BY <1>4, <1>7, <1>8 DEF Ring
<1> HIDE DEF v, c, ri, f, d, lost
<1>10. RingOK(v)
  <2> HIDE DEF d2
  <2>1. QED
    BY <1>9, <1>6, <1>2 DEF RingOK
<1>11. Contents(v) = [i \in 1 .. keep |-> d2[(0 + i - 1) % size]]
  <2> HIDE DEF d2
  <2>1. QED
    BY <1>9 DEF Contents
<1>12. Contents(r) = [i \in 1 .. f |-> d[(ri + i - 1) % c]]
  BY DEF Contents, f, c, ri, d
<1>13. ASSUME NEW i \in 1 .. keep PROVE Contents(v)[i] = Contents(r)[i]
  <2>1. (0 + i - 1) % size = i - 1 /\ i - 1 \in 0 .. size - 1
    <3>1. size \in Nat \ {0} /\ i - 1 \in Nat /\ i - 1 < size
      BY <1>1, <1>2
    <3>2. PICK y \in Nat : y = i - 1
      BY <3>1
    <3>3. y % size = y
      BY <3>1, <3>2
    <3>4. QED
      BY <3>1, <3>2, <3>3
  <2>2. Contents(v)[i] = d2[i - 1]
    <3> HIDE DEF d2
    <3>1. QED
      BY <2>1, <1>11
  <2>3. Contents(r)[i] = d[(ri + i - 1) % c]
    BY <1>12, <1>1, <1>2
  <2>4. c \in Nat \ {0}
    BY <1>1, <1>2
  <2>5. CASE i - 1 < before
    <3>1. d2[i - 1] = d[ri + (i - 1)]
      <4>1. PICK y \in 0 .. size - 1 : y = i - 1
        BY <2>1
      <4>2. y < before
        BY <2>5, <4>1
      <4>3. d2[y] = d[ri + y]
        BY <4>1, <4>2, <1>1, <1>2, <1>3
      <4> HIDE DEF d2
      <4>4. QED
        BY <4>1, <4>3
    <3>2. PICK y \in Nat : y = ri + i - 1
      BY <1>1, <1>2
    <3>3. y % c = y
      BY <3>2, <2>4, <2>5, <1>1, <1>2, <1>3
    <3>4. QED
      BY <2>2, <2>3, <3>1, <3>2, <3>3
  <2>6. CASE ~(i - 1 < before)
    <3>1. i - 1 >= before /\ i - 1 < keep /\ before = c - ri
      BY <1>1, <1>2, <1>3, <2>6
    <3>2. d2[i - 1] = d[i - 1 - before]
      BY <2>1, <3>1, <1>1, <1>2, <1>3
    <3>3. PICK y \in Nat : y = ri + i - 1
      BY <1>1, <1>2
    <3>4. y % c = y - c /\ y - c = i - 1 - before
      BY <3>3, <3>1, <2>4, <1>1, <1>2, <1>3
    <3>5. QED
      BY <2>2, <2>3, <3>2, <3>3, <3>4, Zenon
  <2>7. QED
    BY <2>5, <2>6
<1>14. QED
  <2> HIDE DEF d2
  <2>1. QED
    BY <1>2, <1>9, <1>10, <1>13 DEF Keeps, c, f, keep, lost, v

-----------------------------------------------------------------------------
(* A word from the board.                                                  *)

\* The words ws are stored for the word w: none, the word itself, or the word with all
\* chunks of its timestamp.
StoredFor(w, ws) ==
  /\ ws \in Seq(Word)
  /\ Len(ws) \in {0, 1, TsWords + 1}
  /\ ws # <<>> => ws[1].seq = w.seq /\ ws[1].part = 0 /\ ws[1].first = w.first
  /\ \A i \in 2 .. Len(ws) :
       ws[i].seq = w.seq /\ ws[i].part = i - 1 /\ ws[i].dataloss = FALSE

\* The ring r becomes v when w comes from the board and ws is stored for it.
Arrives(r, w, ws, v) ==
  /\ StoredFor(w, ws)
  /\ RingOK(v)
  /\ v.capacity = r.capacity
  /\ v.fill = r.fill + Len(ws)
  /\ v.is_running = r.is_running
  /\ ws = <<>> => /\ v.lost_words_count = r.lost_words_count + 1
                  /\ v.last_words_were_lost = TRUE
  /\ ws # <<>> => /\ v.lost_words_count = r.lost_words_count
                  /\ v.last_words_were_lost = FALSE
  /\ \A i \in 1 .. r.fill : Contents(v)[i] = Contents(r)[i]
  /\ \A i \in 1 .. Len(ws) : Contents(v)[r.fill + i] = ws[i]

\* The word with its timestamp.
LEMMA DecoratedWords ==
  ASSUME NEW w \in Word
  PROVE  /\ Decorated(w) \in Seq(Word)
         /\ Len(Decorated(w)) = TsWords + 1
         /\ Decorated(w)[1] = [w EXCEPT !.eot = FALSE]
         /\ \A i \in 2 .. TsWords + 1 :
              Decorated(w)[i] = [NoWord EXCEPT !.seq = w.seq, !.part = i - 1,
                                               !.eot = w.eot /\ i - 1 = TsWords]
<1> DEFINE head == [w EXCEPT !.eot = FALSE]
           chunk(i) == [NoWord EXCEPT !.seq = w.seq, !.part = i, !.eot = w.eot /\ i = TsWords]
           tail == [i \in 1 .. TsWords |-> chunk(i)]
<1>1. head \in Word
  BY DEF Word
<1>2. NoWord \in Word /\ w.seq \in Nat /\ TsWords \in Nat
  BY TsAssumption DEF NoWord, Word
<1>3. ASSUME NEW i \in 1 .. TsWords PROVE chunk(i) \in Word
  <2>1. i \in 0 .. TsWords
    BY <1>2
  <2>2. (w.eot /\ i = TsWords) \in BOOLEAN
    OBVIOUS
  <2> DEFINE e == w.eot /\ i = TsWords
  <2> HIDE DEF e
  <2>3. [NoWord EXCEPT !.seq = w.seq, !.part = i, !.eot = e] \in Word
    BY <1>2, <2>1, <2>2 DEF Word, e
  <2>4. QED
    BY <2>3 DEF e
<1> HIDE DEF chunk
<1>4. tail \in Seq(Word) /\ Len(tail) = TsWords
  BY <1>2, <1>3
<1>5. Decorated(w) = <<head>> \o tail
  BY DEF Decorated, chunk
<1>6. \A i \in 1 .. TsWords : tail[i] = chunk(i)
  OBVIOUS
<1> HIDE DEF head, tail
<1>7. /\ Decorated(w) \in Seq(Word) /\ Len(Decorated(w)) = TsWords + 1
      /\ Decorated(w)[1] = head
      /\ \A i \in 2 .. TsWords + 1 : Decorated(w)[i] = tail[i - 1]
  BY <1>1, <1>2, <1>4, <1>5
<1>8. \A i \in 2 .. TsWords + 1 : Decorated(w)[i] = chunk(i - 1)
  BY <1>2, <1>6, <1>7
<1>9. QED
  BY <1>7, <1>8 DEF head, chunk

\* push_back of a single word.
LEMMA OneWordArrives ==
  ASSUME NEW r, RingOK(r), NEW w \in Word, w.part = 0
  PROVE  \E ws \in {<<>>, <<w>>} :
           Arrives(r, w, ws, PushBack(r, <<w>>))
           /\ PushBack(r, <<w>>).last_word_was_eop = r.last_word_was_eop
<1> DEFINE one == <<w>>
           n == Least(Len(one), GetFreeCapacity(r))
           v == PushBack(r, one)
<1>1. one \in Seq(Word) /\ Len(one) = 1 /\ one[1] = w
  OBVIOUS
<1>2. Stores(r, one, n, v)
  BY <1>1, PushBackStores
<1> HIDE DEF n, v, one
<1>3. n \in 0 .. 1
  BY <1>1, <1>2 DEF Stores
<1>4. r.fill \in Nat /\ r.lost_words_count \in Nat
  BY DEF RingOK, Ring
<1>5. CASE n = 0
  <2>1. StoredFor(w, <<>>)
    BY DEF StoredFor
  <2>2. Arrives(r, w, <<>>, v)
    BY <1>1, <1>2, <1>4, <1>5, <2>1 DEF Stores, Arrives
  <2>3. QED
    BY <1>2, <2>2 DEF v, one, Stores
<1>6. CASE n = 1
  <2>1. StoredFor(w, one)
    BY <1>1 DEF StoredFor
  <2>2. one # <<>>
    BY DEF one
  <2>3. Arrives(r, w, one, v)
    BY <1>1, <1>2, <1>4, <1>6, <2>1, <2>2 DEF Stores, Arrives
  <2>4. QED
    BY <1>2, <2>3 DEF v, one, Stores
<1>7. QED
  BY <1>3, <1>5, <1>6

\* push_back_decorated_with_timestamp: the word, if it fits, and its timestamp, if all
\* of it fits.
LEMMA DecoratedArrives ==
  ASSUME NEW r, RingOK(r), NEW w \in Word, w.part = 0
  PROVE  \E ws \in Seq(Word) :
           /\ Arrives(r, w, ws, PushBackDecorated(r, w))
           /\ ws # <<>> => ws[1].dataloss = w.dataloss
           /\ PushBackDecorated(r, w).last_word_was_eop = r.last_word_was_eop
<1>1. CASE GetFreeCapacity(r) < TsWords + 1
  <2>1. PushBackDecorated(r, w) = PushBack(r, <<w>>)
    BY <1>1 DEF PushBackDecorated
  <2>2. PICK ws \in {<<>>, <<w>>} :
          Arrives(r, w, ws, PushBack(r, <<w>>))
          /\ PushBack(r, <<w>>).last_word_was_eop = r.last_word_was_eop
    BY OneWordArrives
  <2>3. ws \in Seq(Word) /\ (ws # <<>> => ws[1] = w)
    <3>1. CASE ws = <<>>
      BY <3>1
    <3>2. CASE ws = <<w>>
      BY <3>2
    <3>3. QED
      BY <2>2, <3>1, <3>2
  <2>4. QED
    BY <2>1, <2>2, <2>3
<1>2. CASE ~(GetFreeCapacity(r) < TsWords + 1)
  <2> DEFINE ws == Decorated(w)
             n == Least(Len(ws), GetFreeCapacity(r))
             v == PushBack(r, ws)
  <2>1. PushBackDecorated(r, w) = v
    BY <1>2 DEF PushBackDecorated
  <2>2. ws \in Seq(Word) /\ Len(ws) = TsWords + 1
    BY DecoratedWords
  <2>3. Stores(r, ws, n, v)
    BY <2>2, PushBackStores
  <2>4. GetFreeCapacity(r) \in Int /\ TsWords \in Nat \ {0}
    BY TsAssumption DEF GetFreeCapacity, RingOK, Ring
  <2>5. n = Len(ws)
    BY <1>2, <2>2, <2>4 DEF Least
  <2>6. ws[1].seq = w.seq /\ ws[1].part = 0 /\ ws[1].first = w.first /\ ws[1].dataloss = w.dataloss
    <3>1. ws[1] = [w EXCEPT !.eot = FALSE]
      BY DecoratedWords
    <3> HIDE DEF ws
    <3>2. QED
      BY <3>1 DEF Word
  <2>7. ASSUME NEW i \in 2 .. Len(ws)
        PROVE  ws[i].seq = w.seq /\ ws[i].part = i - 1 /\ ws[i].dataloss = FALSE
    <3> DEFINE e == w.eot /\ i - 1 = TsWords
    <3>1. ws[i] = [NoWord EXCEPT !.seq = w.seq, !.part = i - 1, !.eot = e]
      BY <2>2, DecoratedWords, ZenonT(60)
    <3> HIDE DEF ws, e
    <3>2. QED
      BY <3>1 DEF NoWord
  <2> HIDE DEF ws, n, v
  <2>8. ws # <<>> /\ Len(ws) \in {0, 1, TsWords + 1}
    BY <2>2, <2>4
  <2>9. StoredFor(w, ws)
    BY <2>2, <2>6, <2>7, <2>8 DEF StoredFor
  <2>10. r.lost_words_count \in Nat
    BY DEF RingOK, Ring
  <2>11. Arrives(r, w, ws, v)
    BY <2>2, <2>3, <2>4, <2>5, <2>8, <2>9, <2>10 DEF Stores, Arrives
  <2>12. QED
    BY <2>1, <2>2, <2>3, <2>6, <2>11 DEF Stores
<1>3. QED
  BY <1>1, <1>2

\* The words that are stored depend on the number and the place of w only.
LEMMA ArrivesSame ==
  ASSUME NEW r, NEW w, NEW x, NEW ws, NEW v, Arrives(r, x, ws, v), x.seq = w.seq, x.first = w.first
  PROVE  Arrives(r, w, ws, v)
  BY DEF Arrives, StoredFor

\* Setting last_word_was_eop changes no word.
LEMMA ArrivesEop ==
  ASSUME NEW r, NEW w, NEW ws, NEW v, Arrives(r, w, ws, v), NEW e \in BOOLEAN
  PROVE  /\ Arrives(r, w, ws, [v EXCEPT !.last_word_was_eop = e])
         /\ [v EXCEPT !.last_word_was_eop = e].last_word_was_eop = e
<1> DEFINE x == [v EXCEPT !.last_word_was_eop = e]
<1>1. v \in Ring
  BY DEF Arrives, RingOK
<1>2. /\ x \in Ring /\ x.last_word_was_eop = e
      /\ x.data = v.data /\ x.capacity = v.capacity /\ x.fill = v.fill
      /\ x.read_index = v.read_index /\ x.is_running = v.is_running
      /\ x.lost_words_count = v.lost_words_count
      /\ x.last_words_were_lost = v.last_words_were_lost
  BY <1>1 DEF Ring
<1> HIDE DEF x
<1>3. Contents(x) = Contents(v) /\ RingOK(x)
  BY <1>2 DEF Contents, RingOK, Arrives
<1>4. Arrives(r, w, ws, x)
  BY <1>2, <1>3 DEF Arrives
<1>5. QED
  BY <1>2, <1>4 DEF x

\* record_discarded_words: nothing is stored.
LEMMA DiscardArrives ==
  ASSUME NEW r, RingOK(r), NEW w
  PROVE  Arrives(r, w, <<>>, RecordDiscardedWords(r, 1))
<1> DEFINE x == RecordDiscardedWords(r, 1)
<1>1. r \in Ring /\ r.lost_words_count + 1 \in Nat /\ r.fill \in Nat
  BY DEF RingOK, Ring
<1>2. x = [r EXCEPT !.lost_words_count = r.lost_words_count + 1, !.last_words_were_lost = TRUE]
  BY DEF RecordDiscardedWords
<1> HIDE DEF x
<1>3. /\ x \in Ring /\ x.last_word_was_eop = r.last_word_was_eop
      /\ x.data = r.data /\ x.capacity = r.capacity /\ x.fill = r.fill
      /\ x.read_index = r.read_index /\ x.is_running = r.is_running
      /\ x.lost_words_count = r.lost_words_count + 1
      /\ x.last_words_were_lost = TRUE
  BY <1>1, <1>2 DEF Ring
<1>4. Contents(x) = Contents(r) /\ RingOK(x)
  BY <1>3 DEF Contents, RingOK
<1>5. StoredFor(w, <<>>)
  BY DEF StoredFor
<1>6. Arrives(r, w, <<>>, x)
  BY <1>1, <1>3, <1>4, <1>5 DEF Arrives
<1>7. QED
  BY <1>6 DEF x

\* What write_from_grabber does with one word: it is flagged exactly if words were lost
\* before it (RAW data has no flags), and an event queue that lost words waits for the
\* end of the packet.
Written(protocol, r, w, ws, v) ==
  /\ Arrives(r, w, ws, v)
  /\ (ws # <<>> /\ protocol = "RAW") => ws[1].dataloss = FALSE
  /\ (ws # <<>> /\ protocol # "RAW") => ws[1].dataloss = r.last_words_were_lost
  /\ (ws # <<>> /\ protocol = "VA_EVENT" /\ r.last_words_were_lost) => r.last_word_was_eop
  /\ protocol = "VA_EVENT" => v.last_word_was_eop = w.eot

\* Storing with the flag.
LEMMA FlaggedArrives ==
  ASSUME NEW r, RingOK(r), NEW w \in Word, w.part = 0, w.dataloss = FALSE
  PROVE  \E ws \in Seq(Word) :
           /\ Arrives(r, w, ws, WriteWordWithDatalossFlag(r, w))
           /\ ws # <<>> => ws[1].dataloss = r.last_words_were_lost
<1> DEFINE x == IF r.last_words_were_lost THEN [w EXCEPT !.dataloss = TRUE] ELSE w
           v == WriteWordWithDatalossFlag(r, w)
<1>1. v = IF x.insert_ts THEN PushBackDecorated(r, x) ELSE PushBack(r, <<x>>)
  BY DEF WriteWordWithDatalossFlag
<1>2. r.last_words_were_lost \in BOOLEAN
  BY DEF RingOK, Ring
<1>3. x \in Word /\ x.part = 0 /\ x.seq = w.seq /\ x.first = w.first
      /\ x.dataloss = r.last_words_were_lost
  <2>1. CASE r.last_words_were_lost = TRUE
    <3>1. x = [w EXCEPT !.dataloss = TRUE]
      BY <2>1
    <3> HIDE DEF x
    <3>2. QED
      BY <2>1, <3>1 DEF Word
  <2>2. CASE r.last_words_were_lost = FALSE
    BY <2>2
  <2>3. QED
    BY <1>2, <2>1, <2>2
<1> HIDE DEF x, v
<1>4. CASE x.insert_ts
  <2>1. PICK ws \in Seq(Word) :
           /\ Arrives(r, x, ws, PushBackDecorated(r, x))
           /\ ws # <<>> => ws[1].dataloss = x.dataloss
    BY <1>3, DecoratedArrives
  <2>2. Arrives(r, w, ws, v)
    BY <1>1, <1>3, <1>4, <2>1, ArrivesSame
  <2>3. QED
    BY <1>3, <2>1, <2>2 DEF v
<1>5. CASE ~x.insert_ts
  <2>1. PICK ws \in {<<>>, <<x>>} : Arrives(r, x, ws, PushBack(r, <<x>>))
    BY <1>3, OneWordArrives
  <2>2. Arrives(r, w, ws, v)
    BY <1>1, <1>3, <1>5, <2>1, ArrivesSame
  <2>3. ws \in Seq(Word) /\ (ws # <<>> => ws[1] = x)
    <3>1. CASE ws = <<>>
      BY <3>1
    <3>2. CASE ws = <<x>>
      BY <1>3, <3>2
    <3>3. QED
      BY <2>1, <3>1, <3>2
  <2>4. QED
    BY <1>3, <2>2, <2>3 DEF v
<1>6. QED
  BY <1>4, <1>5

\* One word from the board.
LEMMA GrabberWrites ==
  ASSUME NEW r, RingOK(r), NEW w \in Word, w.part = 0, w.dataloss = FALSE,
         NEW protocol \in Protocols
  PROVE  \E ws \in Seq(Word) : Written(protocol, r, w, ws, WriteFromGrabber(protocol, r, w))
<1> DEFINE v == WriteFromGrabber(protocol, r, w)
<1>1. CASE protocol = "RAW"
  <2>1. v = PushBack(r, <<w>>)
    BY <1>1 DEF WriteFromGrabber
  <2>2. PICK ws \in {<<>>, <<w>>} : Arrives(r, w, ws, PushBack(r, <<w>>))
    BY OneWordArrives
  <2>3. ws \in Seq(Word) /\ (ws # <<>> => ws[1] = w)
    <3>1. CASE ws = <<>>
      BY <3>1
    <3>2. CASE ws = <<w>>
      BY <3>2
    <3>3. QED
      BY <2>2, <3>1, <3>2
  <2> HIDE DEF v
  <2>4. Written(protocol, r, w, ws, v)
    BY <1>1, <2>1, <2>2, <2>3 DEF Written
  <2>5. QED
    BY <2>3, <2>4 DEF v
<1>2. CASE protocol = "LEGACY"
  <2>1. v = WriteWordWithDatalossFlag(r, w)
    BY <1>2 DEF WriteFromGrabber
  <2>2. PICK ws \in Seq(Word) :
           /\ Arrives(r, w, ws, WriteWordWithDatalossFlag(r, w))
           /\ ws # <<>> => ws[1].dataloss = r.last_words_were_lost
    BY FlaggedArrives
  <2> HIDE DEF v
  <2>3. Written(protocol, r, w, ws, v)
    BY <1>2, <2>1, <2>2 DEF Written
  <2>4. QED
    BY <2>2, <2>3 DEF v
<1>3. CASE protocol = "VA_EVENT"
  <2> DEFINE x == IF r.last_words_were_lost /\ ~r.last_word_was_eop
                  THEN RecordDiscardedWords(r, 1) ELSE WriteWordWithDatalossFlag(r, w)
  <2>1. v = [x EXCEPT !.last_word_was_eop = w.eot] /\ w.eot \in BOOLEAN
    BY <1>3 DEF WriteFromGrabber, WriteVaEvent, Word
  <2>2. CASE r.last_words_were_lost /\ ~r.last_word_was_eop
    <3>1. x = RecordDiscardedWords(r, 1)
      BY <2>2
    <3> HIDE DEF x
    <3>2. Arrives(r, w, <<>>, x)
      BY <3>1, DiscardArrives
    <3> HIDE DEF v
    <3>3. Arrives(r, w, <<>>, v) /\ v.last_word_was_eop = w.eot
      BY <2>1, <3>2, ArrivesEop
    <3>4. <<>> \in Seq(Word) /\ Written(protocol, r, w, <<>>, v)
      BY <3>3 DEF Written
    <3>5. QED
      BY <3>4 DEF v
  <2>3. CASE ~(r.last_words_were_lost /\ ~r.last_word_was_eop)
    <3>1. x = WriteWordWithDatalossFlag(r, w)
      BY <2>3
    <3>2. PICK ws \in Seq(Word) :
             /\ Arrives(r, w, ws, WriteWordWithDatalossFlag(r, w))
             /\ ws # <<>> => ws[1].dataloss = r.last_words_were_lost
      BY FlaggedArrives
    <3> HIDE DEF x
    <3>3. Arrives(r, w, ws, x)
      BY <3>1, <3>2
    <3> HIDE DEF v
    <3>4. Arrives(r, w, ws, v) /\ v.last_word_was_eop = w.eot
      BY <2>1, <3>3, ArrivesEop
    <3>5. Written(protocol, r, w, ws, v)
      BY <1>3, <2>3, <3>2, <3>4 DEF Written
    <3>6. QED
      BY <3>2, <3>5 DEF v
  <2>4. QED
    BY <2>2, <2>3
<1>4. QED
  BY <1>1, <1>2, <1>3 DEF Protocols

-----------------------------------------------------------------------------
(* Counting words.                                                         *)

Data(s) == {i \in DOMAIN s : s[i].part = 0}

\* DatumCount is a number, and at most the length.
LEMMA DataCounted ==
  ASSUME NEW s \in Seq(Word)
  PROVE  /\ Data(s) \subseteq 1 .. Len(s)
         /\ IsFiniteSet(Data(s))
         /\ DatumCount(s) = Cardinality(Data(s))
         /\ DatumCount(s) \in Nat
         /\ DatumCount(s) <= Len(s)
<1>1. Data(s) \subseteq 1 .. Len(s) /\ Len(s) \in Nat
  BY DEF Data
<1>2. IsFiniteSet(1 .. Len(s)) /\ Cardinality(1 .. Len(s)) = Len(s)
  <2>1. \A b \in Nat : IsFiniteSet(1 .. b) /\ Cardinality(1 .. b) = b
    <3> TAKE b \in Nat
    <3>1. IsFiniteSet(1 .. b) /\ Cardinality(1 .. b) = IF 1 > b THEN 0 ELSE b - 1 + 1
      BY FS_Interval
    <3>2. QED
      BY <3>1
  <2>2. QED
    BY <1>1, <2>1
<1>3. IsFiniteSet(Data(s)) /\ Cardinality(Data(s)) <= Len(s)
  BY <1>1, <1>2, FS_Subset
<1>4. QED
  BY <1>1, <1>3, FS_CardinalityType DEF DatumCount, Data

\* s is a followed by b.
Joined(s, a, b) ==
  /\ Len(s) = Len(a) + Len(b)
  /\ \A i \in 1 .. Len(a) : s[i] = a[i]
  /\ \A i \in 1 .. Len(b) : s[Len(a) + i] = b[i]

\* The numbers of two parts add up.
LEMMA CountJoined ==
  ASSUME NEW s \in Seq(Word), NEW a \in Seq(Word), NEW b \in Seq(Word), Joined(s, a, b)
  PROVE  DatumCount(s) = DatumCount(a) + DatumCount(b)
<1> DEFINE n == Len(a)
           m == Len(b)
           A == Data(a)
           B == Data(b)
           C == {n + j : j \in B}
<1>1. n \in Nat /\ m \in Nat /\ A \subseteq 1 .. n /\ B \subseteq 1 .. m
  BY DataCounted
<1>2. IsFiniteSet(A) /\ IsFiniteSet(B) /\ Cardinality(A) \in Nat /\ Cardinality(B) \in Nat
  BY DataCounted, FS_CardinalityType
<1>3. Data(s) = A \cup C
  <2>1. DOMAIN s = 1 .. n + m /\ DOMAIN a = 1 .. n /\ DOMAIN b = 1 .. m
    BY <1>1 DEF Joined
  <2>2. ASSUME NEW i \in Data(s) PROVE i \in A \cup C
    <3>1. i \in 1 .. n + m /\ s[i].part = 0
      BY <2>1 DEF Data
    <3>2. CASE i <= n
      BY <1>1, <2>1, <3>1, <3>2 DEF Data, Joined
    <3>3. CASE ~(i <= n)
      <4>1. PICK j \in 1 .. m : i = n + j
        <5>1. i - n \in 1 .. m /\ i = n + (i - n)
          BY <1>1, <3>1, <3>3
        <5>2. QED
          BY <5>1
      <4>2. s[i] = b[j]
        BY <4>1 DEF Joined
      <4>3. j \in B
        BY <4>1, <4>2, <3>1, <2>1 DEF Data
      <4>4. QED
        BY <4>1, <4>3
    <3>4. QED
      BY <3>2, <3>3
  <2>3. ASSUME NEW i \in A PROVE i \in Data(s)
    <3>1. i \in 1 .. n /\ a[i].part = 0 /\ s[i] = a[i]
      BY <1>1, <2>1 DEF Data, Joined
    <3>2. i \in DOMAIN s
      BY <2>1, <3>1, <1>1
    <3>3. QED
      BY <3>1, <3>2 DEF Data
  <2>4. ASSUME NEW j \in B PROVE n + j \in Data(s)
    <3>1. j \in 1 .. m /\ b[j].part = 0 /\ s[n + j] = b[j]
      BY <1>1, <2>1 DEF Data, Joined
    <3>2. n + j \in DOMAIN s
      BY <2>1, <3>1, <1>1
    <3>3. QED
      BY <3>1, <3>2 DEF Data
  <2>5. QED
    BY <2>2, <2>3, <2>4
<1> HIDE DEF n, m, A, B
<1>4. IsFiniteSet(C) /\ Cardinality(C) = Cardinality(B)
  <2> DEFINE f == [j \in B |-> n + j]
  <2>1. f \in [B -> C]
    OBVIOUS
  <2>2. \A x, y \in B : f[x] = f[y] => x = y
    BY <1>1
  <2>3. \A z \in C : \E x \in B : f[x] = z
    OBVIOUS
  <2> HIDE DEF f, C
  <2>4. f \in Bijection(B, C)
    BY <2>1, <2>2, <2>3 DEF Bijection, Injection, Surjection, IsInjective
  <2>5. ExistsBijection(B, C)
    BY <2>4 DEF ExistsBijection
  <2>6. QED
    BY <1>2, <2>5, FS_Bijection
<1>5. A \cap C = {}
  BY <1>1
<1> HIDE DEF C
<1>6. Cardinality(A \cup C) = Cardinality(A) + Cardinality(C) - Cardinality(A \cap C)
  BY <1>2, <1>4, FS_Union
<1>7. Cardinality(A \cap C) = 0
  BY <1>5, FS_EmptySet
<1>8. Cardinality(Data(s)) = Cardinality(A) + Cardinality(B)
  BY <1>2, <1>3, <1>4, <1>6, <1>7
<1>9. DatumCount(s) = Cardinality(Data(s)) /\ DatumCount(a) = Cardinality(A)
      /\ DatumCount(b) = Cardinality(B)
  BY DataCounted DEF A, B
<1>10. QED
  BY <1>8, <1>9

\* No word or one word.
LEMMA CountStored ==
  ASSUME NEW w, NEW ws, StoredFor(w, ws)
  PROVE  DatumCount(ws) = IF ws = <<>> THEN 0 ELSE 1
<1>1. ws \in Seq(Word) /\ DatumCount(ws) = Cardinality(Data(ws))
  BY DataCounted DEF StoredFor
<1>2. CASE ws = <<>>
  <2>1. Data(ws) = {}
    BY <1>2 DEF Data
  <2>2. QED
    BY <1>1, <1>2, <2>1, FS_EmptySet
<1>3. CASE ws # <<>>
  <2>1. Len(ws) >= 1 /\ Len(ws) \in Nat
    <3>1. Len(ws) \in Nat /\ Len(ws) # 0
      BY <1>1, <1>3
    <3>2. QED
      BY <3>1
  <2>2. \A i \in 1 .. Len(ws) : ws[i].part = 0 <=> i = 1
    BY <1>3, <2>1 DEF StoredFor
  <2>3. DOMAIN ws = 1 .. Len(ws)
    BY <1>1
  <2>4. Data(ws) = {1}
    BY <2>1, <2>2, <2>3 DEF Data
  <2>5. QED
    BY <1>1, <1>3, <2>4, FS_Singleton
<1>4. QED
  BY <1>2, <1>3

\* All words are data.
LEMMA CountAll ==
  ASSUME NEW ws \in Seq(Word), \A i \in 1 .. Len(ws) : ws[i].part = 0
  PROVE  DatumCount(ws) = Len(ws)
<1>1. Data(ws) = 1 .. Len(ws)
  BY DEF Data
<1>2. \A b \in Nat : Cardinality(1 .. b) = b
  <2> TAKE b \in Nat
  <2>1. Cardinality(1 .. b) = IF 1 > b THEN 0 ELSE b - 1 + 1
    BY FS_Interval
  <2>2. QED
    BY <2>1
<1>3. QED
  BY <1>1, <1>2, DataCounted

-----------------------------------------------------------------------------
(* Induction over the words of a packet.                                   *)

\* A set of naturals that is not empty has a least element.
LEMMA LeastNat ==
  ASSUME NEW T, T \subseteq Nat, T # {}
  PROVE  \E m \in T : \A k \in T : m <= k
<1> DEFINE R == {ss \in Nat \X Nat : ss[1] < ss[2]}
<1>1. IsWellFoundedOn(R, Nat)
  BY NatLessThanWellFounded DEF OpToRel
<1>2. PICK x \in T : \A y \in T : ~(<<y, x>> \in R)
  <2> HIDE DEF R
  <2> QED
    BY <1>1, WFMin
<1>3. \A y \in T : ~(y < x)
  BY <1>2
<1>4. QED
  BY <1>3

\* Induction over the naturals, for sets.
LEMMA NatInduct ==
  ASSUME NEW S \in SUBSET Nat, 0 \in S, \A n \in S : n + 1 \in S
  PROVE  S = Nat
<1> SUFFICES ASSUME S # Nat PROVE FALSE
  OBVIOUS
<1> DEFINE T == Nat \ S
<1>1. PICK m \in T : \A k \in T : m <= k
  BY LeastNat
<1>2. m # 0
  BY <1>1
<1>3. m - 1 \in Nat /\ m - 1 \notin T
  BY <1>1, <1>2
<1>4. m - 1 + 1 \in S
  BY <1>3
<1>5. QED
  BY <1>1, <1>4

\* The rings after each of the first n words.
IsAfter(f, protocol, r, ws, n) ==
  f = [i \in 0 .. n |-> IF i = 0 THEN r ELSE WriteFromGrabber(protocol, f[i - 1], ws[i])]

\* They exist.
LEMMA AfterExists ==
  ASSUME NEW protocol, NEW r, NEW ws
  PROVE  \A n \in Nat : \E f : IsAfter(f, protocol, r, ws, n)
<1> DEFINE S == {n \in Nat : \E f : IsAfter(f, protocol, r, ws, n)}
<1>1. 0 \in S
  <2>1. IsAfter([i \in 0 .. 0 |-> r], protocol, r, ws, 0)
    BY DEF IsAfter
  <2>2. QED
    BY <2>1
<1>2. ASSUME NEW n \in S PROVE n + 1 \in S
  <2>1. PICK f : IsAfter(f, protocol, r, ws, n)
    OBVIOUS
  <2>2. n \in Nat
    OBVIOUS
  <2> DEFINE g == [i \in 0 .. n + 1 |->
                     IF i = n + 1 THEN WriteFromGrabber(protocol, f[n], ws[n + 1]) ELSE f[i]]
  <2>3. ASSUME NEW i \in 0 .. n + 1
        PROVE  g[i] = IF i = 0 THEN r ELSE WriteFromGrabber(protocol, g[i - 1], ws[i])
    BY <2>1, <2>2 DEF IsAfter
  <2>4. IsAfter(g, protocol, r, ws, n + 1)
    BY <2>2, <2>3 DEF IsAfter
  <2>5. QED
    BY <2>4
<1> HIDE DEF S
<1>3. S \in SUBSET Nat
  BY DEF S
<1>4. S = Nat
  BY <1>1, <1>2, <1>3, NatInduct
<1>5. QED
  BY <1>4 DEF S

\* men_uiq_pop, unfolded.
LEMMA WriteAllUnfolds ==
  ASSUME NEW protocol, NEW r, NEW ws \in Seq(Word)
  PROVE  \E f : /\ f[0] = r
                /\ \A i \in 1 .. Len(ws) : f[i] = WriteFromGrabber(protocol, f[i - 1], ws[i])
                /\ WriteAllFromGrabber(protocol, r, ws) = f[Len(ws)]
<1> DEFINE n == Len(ws)
           f == CHOOSE g : IsAfter(g, protocol, r, ws, n)
<1>1. n \in Nat
  OBVIOUS
<1>2. \E g : IsAfter(g, protocol, r, ws, n)
  BY <1>1, AfterExists
<1>3. IsAfter(f, protocol, r, ws, n)
  BY <1>2, Zenon
<1>4. WriteAllFromGrabber(protocol, r, ws) = f[n]
  BY DEF WriteAllFromGrabber, IsAfter
<1> HIDE DEF f, n
<1>5. f[0] = r /\ \A i \in 1 .. n : f[i] = WriteFromGrabber(protocol, f[i - 1], ws[i])
  BY <1>1, <1>3 DEF IsAfter
<1>6. QED
  BY <1>4, <1>5 DEF n

-----------------------------------------------------------------------------
(* The stream of words through the ring.                                   *)

\* The last word that left (0) and the stored ones (1 ..).
StreamAt(r, last, i) == IF i = 0 THEN last ELSE Contents(r)[i]

Beyond(w, v) == v.seq > w.seq \/ (v.seq = w.seq /\ v.part > w.part)

InLine(k, w, v) ==
  \/ Follows(w, v) /\ v.dataloss = FALSE
  \/ Gap(w, v) /\ k.type = "READ" /\ (k.protocol = "RAW" \/ v.dataloss = TRUE)

\* Of the words 1 .. n of the source, those that were stored are in order; if nothing
\* was cut, last_words_were_lost says whether the newest one is missing, and every
\* timestamp is complete.
StreamOK(k, r, last, n, uncut) ==
  /\ last \in Word /\ n \in Nat
  /\ \A i \in 1 .. r.fill : Beyond(StreamAt(r, last, i - 1), StreamAt(r, last, i))
  /\ \A i \in 0 .. r.fill : StreamAt(r, last, i).seq <= n
  /\ uncut =>
       /\ \A i \in 1 .. r.fill : InLine(k, StreamAt(r, last, i - 1), StreamAt(r, last, i))
       /\ Complete(StreamAt(r, last, r.fill))
       /\ r.last_words_were_lost = FALSE => StreamAt(r, last, r.fill).seq = n
       /\ r.last_words_were_lost = TRUE => StreamAt(r, last, r.fill).seq < n

\* Of the words 1 .. n of the source, gone have gone on; the rest is stored or counted.
Accounted(r, gone, n, exact) ==
  /\ n - gone - DatumCount(Contents(r)) <= r.lost_words_count
  /\ exact => n - gone - DatumCount(Contents(r)) = r.lost_words_count

NotTorn(r) == \A i \in 1 .. r.fill : Contents(r)[i].dataloss => Contents(r)[i].first

\* What is true of the ring of a queue of kind k.
Fed(k, r, out, n, uncut, exact) ==
  /\ RingOK(r)
  /\ out \in [last : Word, count : Nat]
  /\ StreamOK(k, r, out.last, n, uncut)
  /\ Accounted(r, out.count, n, exact)
  /\ k.protocol = "VA_EVENT" => NotTorn(r)

\* Every place of the stream is a word.
LEMMA StreamWords ==
  ASSUME NEW r, RingOK(r), NEW last \in Word
  PROVE  r.fill \in Nat /\ \A i \in 0 .. r.fill : StreamAt(r, last, i) \in Word
<1>1. r.fill \in Nat
  BY DEF RingOK, Ring
<1>2. Contents(r) \in Seq(Word) /\ Len(Contents(r)) = r.fill
  BY ContentsSeq
<1>3. QED
  BY <1>1, <1>2 DEF StreamAt

\* A word from the board continues the stream.
LEMMA StreamArrives ==
  ASSUME NEW k, NEW r, NEW last, NEW n, NEW uncut \in BOOLEAN, RingOK(r),
         StreamOK(k, r, last, n, uncut), k.type = "READ",
         NEW w \in Word, w.seq = n + 1,
         NEW ws, NEW v, Written(k.protocol, r, w, ws, v)
  PROVE  StreamOK(k, v, last, n + 1, uncut)
<1> DEFINE f == r.fill
           m == Len(ws)
           z == StreamAt(r, last, f)
           at(i) == StreamAt(v, last, i)
<1>1. n \in Nat /\ last \in Word /\ f \in Nat /\ z \in Word
  BY StreamWords DEF StreamOK
<1>2. ws \in Seq(Word) /\ m \in Nat /\ v.fill = f + m /\ RingOK(v)
  BY DEF Written, Arrives, StoredFor
<1>3. \A i \in 0 .. f : at(i) = StreamAt(r, last, i)
  BY <1>1 DEF StreamAt, Written, Arrives
<1>4. \A j \in 1 .. m : at(f + j) = ws[j]
  BY <1>1, <1>2 DEF StreamAt, Written, Arrives
<1>5. \A i \in 1 .. f : at(i) = StreamAt(r, last, i) /\ at(i - 1) = StreamAt(r, last, i - 1)
  <2> HIDE DEF at, f
  <2> TAKE i \in 1 .. f
  <2>1. i \in 0 .. f /\ i - 1 \in 0 .. f
    BY <1>1
  <2>2. QED
    BY <1>3, <2>1
<1>6. \A i \in 1 .. f : Beyond(at(i - 1), at(i)) /\ (uncut => InLine(k, at(i - 1), at(i)))
  <2> TAKE i \in 1 .. f
  <2>1. Beyond(StreamAt(r, last, i - 1), StreamAt(r, last, i))
        /\ (uncut => InLine(k, StreamAt(r, last, i - 1), StreamAt(r, last, i)))
    BY DEF StreamOK
  <2>2. QED
    BY <1>5, <2>1
<1>7. z.seq \in Nat /\ z.seq <= n /\ at(f) = z
  BY <1>1, <1>3 DEF StreamOK, Word
<1>a. \A i \in 0 .. f : at(i).seq <= n + 1
  <2> TAKE i \in 0 .. f
  <2>1. StreamAt(r, last, i) \in Word /\ StreamAt(r, last, i).seq <= n
    BY <1>1, StreamWords DEF StreamOK
  <2>2. StreamAt(r, last, i).seq \in Nat
    BY <2>1 DEF Word
  <2> HIDE DEF at
  <2>3. at(i).seq \in Nat /\ at(i).seq <= n
    BY <1>3, <2>1, <2>2
  <2>4. QED
    BY <1>1, <2>3
<1>8. uncut => /\ Complete(z)
               /\ r.last_words_were_lost = FALSE => z.seq = n
               /\ r.last_words_were_lost = TRUE => z.seq < n
  BY DEF StreamOK
<1> HIDE DEF f, m, at, z
<1>9. CASE ws = <<>>
  <2>1. m = 0 /\ v.fill = f
    BY <1>1, <1>2, <1>9 DEF m
  <2>2. v.last_words_were_lost = TRUE
    BY <1>9 DEF Written, Arrives
  <2>3. \A i \in 1 .. v.fill : Beyond(at(i - 1), at(i)) /\ (uncut => InLine(k, at(i - 1), at(i)))
    BY <1>6, <2>1
  <2>4. at(v.fill).seq < n + 1 /\ (uncut => Complete(at(v.fill)))
    BY <1>1, <1>7, <1>8, <2>1
  <2>5. \A i \in 0 .. v.fill : at(i).seq <= n + 1
    BY <1>a, <2>1
  <2>6. QED
    BY <1>1, <2>2, <2>3, <2>4, <2>5 DEF StreamOK, at
<1>10. CASE ws # <<>>
  <2>1. m \in {1, TsWords + 1} /\ m >= 1 /\ TsWords \in Nat
    <3>1. m # 0 /\ m \in {0, 1, TsWords + 1}
      BY <1>2, <1>10 DEF m, Written, Arrives, StoredFor
    <3>2. QED
      BY <3>1, <1>2, TsAssumption
  <2>2. v.last_words_were_lost = FALSE
    BY <1>10 DEF Written, Arrives
  <2>3. ws[1].seq = n + 1 /\ ws[1].part = 0
    BY <1>10 DEF Written, Arrives, StoredFor
  <2>4. \A j \in 2 .. m : ws[j].seq = n + 1 /\ ws[j].part = j - 1 /\ ws[j].dataloss = FALSE
    BY DEF m, Written, Arrives, StoredFor
  <2>5. Beyond(z, ws[1])
    BY <1>1, <1>7, <2>3 DEF Beyond
  <2>6. ASSUME uncut PROVE InLine(k, z, ws[1])
    <3>0. r.last_words_were_lost \in BOOLEAN
      BY DEF RingOK, Ring
    <3>1. CASE r.last_words_were_lost = FALSE
      <4>1. ws[1].dataloss = FALSE
        BY <1>10, <3>1 DEF Written
      <4>2. Follows(z, ws[1])
        BY <1>8, <2>3, <2>6, <3>1 DEF Follows
      <4>3. QED
        BY <4>1, <4>2 DEF InLine
    <3>2. CASE r.last_words_were_lost = TRUE
      <4>1. k.protocol = "RAW" \/ ws[1].dataloss = TRUE
        BY <1>10, <3>2 DEF Written
      <4>2. Gap(z, ws[1])
        BY <1>1, <1>7, <1>8, <2>3, <2>6, <3>2 DEF Gap
      <4>3. QED
        BY <4>1, <4>2 DEF InLine
    <3>3. QED
      BY <3>0, <3>1, <3>2
  <2>7. ASSUME NEW j \in 2 .. m PROVE Beyond(ws[j - 1], ws[j]) /\ InLine(k, ws[j - 1], ws[j])
    <3>1. ws[j].seq = n + 1 /\ ws[j].part = j - 1 /\ ws[j].dataloss = FALSE
      BY <2>4
    <3>2. ws[j - 1].seq = n + 1 /\ ws[j - 1].part = j - 2
      <4>1. CASE j = 2
        BY <2>3, <4>1
      <4>2. CASE j # 2
        <5>1. j - 1 \in 2 .. m
          BY <4>2, <1>2
        <5>2. QED
          BY <2>4, <5>1
      <4>3. QED
        BY <4>1, <4>2
    <3>3. QED
      BY <1>1, <1>2, <3>1, <3>2 DEF Beyond, InLine, Follows
  <2>8. ASSUME NEW i \in 1 .. v.fill
        PROVE  Beyond(at(i - 1), at(i)) /\ (uncut => InLine(k, at(i - 1), at(i)))
    <3>1. CASE i <= f
      BY <1>1, <1>2, <1>6, <3>1
    <3>2. CASE i = f + 1
      <4>1. at(i - 1) = z /\ at(i) = ws[1]
        BY <1>1, <1>4, <1>7, <2>1, <3>2
      <4>2. QED
        BY <2>5, <2>6, <4>1
    <3>3. CASE i > f + 1
      <4>1. PICK j \in 2 .. m : i = f + j
        <5>1. i - f \in 2 .. m /\ i = f + (i - f)
          BY <1>1, <1>2, <3>3
        <5>2. QED
          BY <5>1
      <4>2. at(i) = ws[j] /\ at(i - 1) = ws[j - 1]
        <5>1. j \in 1 .. m /\ j - 1 \in 1 .. m /\ i - 1 = f + (j - 1)
          BY <1>1, <1>2, <4>1
        <5>2. QED
          BY <1>4, <4>1, <5>1
      <4>3. QED
        BY <2>7, <4>2
    <3>4. QED
      BY <1>1, <1>2, <3>1, <3>2, <3>3
  <2>9. at(v.fill) = ws[m] /\ ws[m].seq = n + 1 /\ Complete(ws[m])
    <3>1. at(v.fill) = ws[m]
      BY <1>2, <1>4, <2>1
    <3>2. CASE m = 1
      BY <2>3, <3>1, <3>2 DEF Complete
    <3>3. CASE m # 1
      <4>1. m \in 2 .. m /\ m - 1 = TsWords
        BY <1>2, <2>1, <3>3
      <4>2. QED
        BY <2>4, <3>1, <4>1 DEF Complete
    <3>4. QED
      BY <3>2, <3>3
  <2>10. ASSUME NEW i \in 0 .. v.fill PROVE at(i).seq <= n + 1
    <3>1. CASE i <= f
      BY <1>1, <1>2, <1>a, <3>1
    <3>2. CASE ~(i <= f)
      <4>1. PICK j \in 1 .. m : i = f + j
        <5>1. i - f \in 1 .. m /\ i = f + (i - f)
          BY <1>1, <1>2, <3>2
        <5>2. QED
          BY <5>1
      <4>2. at(i) = ws[j] /\ ws[j].seq = n + 1
        <5>1. CASE j = 1
          BY <1>4, <2>3, <4>1, <5>1
        <5>2. CASE j # 1
          BY <1>2, <1>4, <2>4, <4>1, <5>2
        <5>3. QED
          BY <5>1, <5>2
      <4>3. QED
        BY <1>1, <4>2
    <3>3. QED
      BY <3>1, <3>2
  <2>11. QED
    BY <1>1, <2>2, <2>8, <2>9, <2>10 DEF StreamOK, at
<1>11. QED
  BY <1>9, <1>10

\* It is accounted for.
LEMMA AccountArrives ==
  ASSUME NEW r, NEW gone \in Nat, NEW n \in Nat, NEW exact \in BOOLEAN, RingOK(r),
         Accounted(r, gone, n, exact), NEW w, NEW ws, NEW v, Arrives(r, w, ws, v)
  PROVE  Accounted(v, gone, n + 1, exact)
<1>1. Contents(r) \in Seq(Word) /\ Contents(v) \in Seq(Word) /\ ws \in Seq(Word)
      /\ Len(Contents(r)) = r.fill /\ Len(Contents(v)) = v.fill
  BY ContentsSeq DEF Arrives, StoredFor
<1>2. Joined(Contents(v), Contents(r), ws)
  BY <1>1 DEF Joined, Arrives
<1>3. DatumCount(Contents(v)) = DatumCount(Contents(r)) + DatumCount(ws)
  BY <1>1, <1>2, CountJoined
<1>4. DatumCount(ws) = IF ws = <<>> THEN 0 ELSE 1
  BY CountStored DEF Arrives
<1>5. DatumCount(Contents(r)) \in Nat
  BY <1>1, DataCounted
<1>6. r.lost_words_count \in Nat
  BY DEF RingOK, Ring
<1>7. v.lost_words_count = IF ws = <<>> THEN r.lost_words_count + 1 ELSE r.lost_words_count
  BY DEF Arrives
<1>8. QED
  BY <1>3, <1>4, <1>5, <1>6, <1>7 DEF Accounted

\* A flag is put on the first word of a packet only.
LEMMA NotTornArrives ==
  ASSUME NEW r, RingOK(r), NotTorn(r), NEW w, NEW ws, NEW v, Written("VA_EVENT", r, w, ws, v),
         r.last_word_was_eop => w.first
  PROVE  NotTorn(v)
<1> SUFFICES ASSUME NEW i \in 1 .. v.fill, Contents(v)[i].dataloss
             PROVE  Contents(v)[i].first
  BY DEF NotTorn
<1>1. r.fill \in Nat /\ ws \in Seq(Word) /\ v.fill = r.fill + Len(ws) /\ Len(ws) \in Nat
  BY DEF RingOK, Ring, Written, Arrives, StoredFor
<1>2. CASE i <= r.fill
  <2>1. i \in 1 .. r.fill
    BY <1>1, <1>2
  <2>2. Contents(v)[i] = Contents(r)[i]
    BY <2>1 DEF Written, Arrives
  <2>3. QED
    BY <2>1, <2>2 DEF NotTorn
<1>3. CASE ~(i <= r.fill)
  <2>1. PICK j \in 1 .. Len(ws) : i = r.fill + j
    <3>1. i - r.fill \in 1 .. Len(ws) /\ i = r.fill + (i - r.fill)
      BY <1>1, <1>3
    <3>2. QED
      BY <3>1
  <2>2. Contents(v)[i] = ws[j]
    BY <2>1 DEF Written, Arrives
  <2>3. ws[j].dataloss
    BY <2>2
  <2>4. CASE j = 1
    <3>1. ws # <<>>
      BY <1>1, <2>1
    <3>2. r.last_words_were_lost
      BY <2>3, <2>4, <3>1 DEF Written
    <3>3. w.first /\ ws[1].first = w.first
      BY <3>1, <3>2 DEF Written, Arrives, StoredFor
    <3>4. QED
      BY <2>2, <2>4, <3>3
  <2>5. CASE j # 1
    <3>1. j \in 2 .. Len(ws)
      BY <1>1, <2>1, <2>5
    <3>2. ws[j].dataloss = FALSE
      BY <3>1 DEF Written, Arrives, StoredFor
    <3>3. QED
      BY <2>3, <3>2
  <2>6. QED
    BY <2>4, <2>5
<1>4. QED
  BY <1>2, <1>3

\* The ring r has become v; n words have come by now.
Advances(k, r, v, out, n, uncut, exact, eot) ==
  /\ Fed(k, v, out, n, uncut, exact)
  /\ v.capacity = r.capacity /\ v.is_running = r.is_running /\ v.fill >= r.fill
  /\ k.protocol = "VA_EVENT" => v.last_word_was_eop = eot

\* One word keeps the ring right.
LEMMA FedArrives ==
  ASSUME NEW k, NEW r, NEW out, NEW n, NEW uncut \in BOOLEAN, NEW exact \in BOOLEAN,
         Fed(k, r, out, n, uncut, exact), k.type = "READ", k.protocol \in Protocols,
         NEW w \in Word, w.seq = n + 1, w.part = 0, w.dataloss = FALSE,
         (k.protocol = "VA_EVENT" /\ r.last_word_was_eop) => w.first
  PROVE  Advances(k, r, WriteFromGrabber(k.protocol, r, w), out, n + 1, uncut, exact, w.eot)
<1> DEFINE v == WriteFromGrabber(k.protocol, r, w)
<1>1. RingOK(r) /\ out.last \in Word /\ out.count \in Nat /\ n \in Nat
  BY DEF Fed, StreamOK
<1>2. PICK ws \in Seq(Word) : Written(k.protocol, r, w, ws, v)
  BY <1>1, GrabberWrites
<1> HIDE DEF v
<1>3. StreamOK(k, v, out.last, n + 1, uncut)
  <2>1. StreamOK(k, r, out.last, n, uncut)
    BY DEF Fed
  <2>2. QED
    BY <1>1, <1>2, <2>1, StreamArrives, Zenon
<1>4. Accounted(v, out.count, n + 1, exact)
  BY <1>1, <1>2, AccountArrives DEF Fed, Written
<1>5. k.protocol = "VA_EVENT" => NotTorn(v)
  BY <1>1, <1>2, NotTornArrives DEF Fed
<1>6. RingOK(v) /\ v.capacity = r.capacity /\ v.is_running = r.is_running
      /\ v.fill = r.fill + Len(ws)
  BY <1>2 DEF Written, Arrives
<1>7. r.fill \in Nat /\ Len(ws) \in Nat
  BY <1>1, <1>2 DEF RingOK, Ring
<1>8. Fed(k, v, out, n + 1, uncut, exact)
  BY <1>3, <1>4, <1>5, <1>6 DEF Fed
<1>9. Advances(k, r, v, out, n + 1, uncut, exact, w.eot)
  BY <1>2, <1>6, <1>7, <1>8 DEF Written, Advances
<1>10. QED
  BY <1>9 DEF v

\* The words of a packet, as the board sends them after the first n words.
FromBoard(k, r, n, ws) ==
  /\ ws \in Seq(Word)
  /\ \A i \in 1 .. Len(ws) : ws[i].seq = n + i /\ ws[i].part = 0 /\ ws[i].dataloss = FALSE
  /\ k.protocol = "VA_EVENT" =>
       /\ (Len(ws) > 0 /\ r.last_word_was_eop) => ws[1].first
       /\ \A i \in 2 .. Len(ws) : ws[i - 1].eot => ws[i].first

\* The ring v after all of the words ws were written to r.
AllIn(k, r, out, n, uncut, exact, ws, v) ==
  /\ Fed(k, v, out, n + Len(ws), uncut, exact)
  /\ v.capacity = r.capacity /\ v.is_running = r.is_running /\ v.fill >= r.fill
  /\ (k.protocol = "VA_EVENT" /\ ws # <<>>) => v.last_word_was_eop = ws[Len(ws)].eot

\* So do all words of a packet, whatever is lost of them.
LEMMA FedAll ==
  ASSUME NEW k, NEW r, NEW out, NEW n, NEW uncut \in BOOLEAN, NEW exact \in BOOLEAN,
         Fed(k, r, out, n, uncut, exact), k.type = "READ", k.protocol \in Protocols,
         NEW ws, FromBoard(k, r, n, ws)
  PROVE  AllIn(k, r, out, n, uncut, exact, ws, WriteAllFromGrabber(k.protocol, r, ws))
<1>1. ws \in Seq(Word) /\ Len(ws) \in Nat /\ n \in Nat /\ r.fill \in Nat
  BY DEF FromBoard, Fed, StreamOK, RingOK, Ring
<1>2. PICK f : /\ f[0] = r
               /\ \A i \in 1 .. Len(ws) : f[i] = WriteFromGrabber(k.protocol, f[i - 1], ws[i])
               /\ WriteAllFromGrabber(k.protocol, r, ws) = f[Len(ws)]
  BY <1>1, WriteAllUnfolds
<1> DEFINE Good(i) ==
             /\ Fed(k, f[i], out, n + i, uncut, exact)
             /\ f[i].capacity = r.capacity /\ f[i].is_running = r.is_running
             /\ f[i].fill \in Nat /\ f[i].fill >= r.fill
             /\ (k.protocol = "VA_EVENT" /\ i > 0) => f[i].last_word_was_eop = ws[i].eot
           S == {i \in Nat : i <= Len(ws) => Good(i)}
<1>3. 0 \in S
  <2>1. n + 0 = n
    BY <1>1
  <2>2. QED
    BY <1>1, <1>2, <2>1
<1>4. ASSUME NEW i \in S PROVE i + 1 \in S
  <2>1. i \in Nat /\ i + 1 \in Nat
    OBVIOUS
  <2>2. CASE i + 1 <= Len(ws)
    <3> DEFINE q == f[i]
               w == ws[i + 1]
               v == f[i + 1]
    <3>1. Good(i) /\ i + 1 \in 1 .. Len(ws)
      BY <1>1, <2>1, <2>2
    <3>2. v = WriteFromGrabber(k.protocol, q, w)
      <4>1. i + 1 - 1 = i
        BY <2>1
      <4>2. QED
        BY <1>2, <3>1, <4>1
    <3>3. w \in Word /\ w.seq = n + (i + 1) /\ w.part = 0 /\ w.dataloss = FALSE
      BY <1>1, <3>1 DEF FromBoard
    <3>4. (k.protocol = "VA_EVENT" /\ q.last_word_was_eop) => w.first
      <4>1. CASE i = 0
        <5>1. q = r /\ w = ws[1] /\ Len(ws) > 0
          BY <1>1, <1>2, <2>2, <4>1
        <5>2. QED
          BY <5>1 DEF FromBoard
      <4>2. CASE i # 0
        <5>1. i + 1 \in 2 .. Len(ws) /\ i + 1 - 1 = i /\ i > 0
          BY <1>1, <2>1, <2>2, <4>2
        <5>2. k.protocol = "VA_EVENT" => (ws[i].eot => ws[i + 1].first)
          BY <5>1 DEF FromBoard
        <5>3. QED
          BY <3>1, <5>1, <5>2
      <4>3. QED
        BY <4>1, <4>2
    <3>5. n + i + 1 = n + (i + 1) /\ w.seq = (n + i) + 1 /\ (n + i) + 1 = n + (i + 1)
      BY <1>1, <2>1, <3>3
    <3>6. Fed(k, q, out, n + i, uncut, exact)
      BY <3>1
    <3>7. q.capacity = r.capacity /\ q.is_running = r.is_running /\ q.fill \in Nat /\ q.fill >= r.fill
      BY <3>1
    <3>8. PICK N : N = n + i
      OBVIOUS
    <3> HIDE DEF q, w, v, Good
    <3>9. /\ Fed(k, v, out, N + 1, uncut, exact)
          /\ v.capacity = q.capacity /\ v.is_running = q.is_running /\ v.fill >= q.fill
          /\ k.protocol = "VA_EVENT" => v.last_word_was_eop = w.eot
      <4>1. Fed(k, q, out, N, uncut, exact) /\ w.seq = N + 1
        BY <3>5, <3>6, <3>8
      <4>2. Advances(k, q, v, out, N + 1, uncut, exact, w.eot)
        BY <3>2, <3>3, <3>4, <4>1, FedArrives, Zenon
      <4>3. QED
        BY <4>2 DEF Advances
    <3>10. v.fill \in Nat
      BY <3>9 DEF Fed, RingOK, Ring
    <3>11. Fed(k, v, out, n + (i + 1), uncut, exact)
      BY <3>5, <3>8, <3>9
    <3>12. v.capacity = r.capacity /\ v.is_running = r.is_running /\ v.fill >= r.fill
      BY <1>1, <3>7, <3>9, <3>10
    <3>13. Good(i + 1)
      BY <3>9, <3>10, <3>11, <3>12 DEF Good, v, w
    <3>14. QED
      BY <2>1, <3>13
  <2>3. CASE ~(i + 1 <= Len(ws))
    <3> HIDE DEF Good
    <3>1. QED
      BY <2>1, <2>3
  <2>4. QED
    BY <2>2, <2>3
<1> HIDE DEF S
<1>5. S \in SUBSET Nat
  BY DEF S
<1>6. S = Nat
  BY <1>3, <1>4, <1>5, NatInduct
<1>7. Good(Len(ws))
  <2> HIDE DEF Good
  <2>1. QED
    BY <1>1, <1>6 DEF S
<1>8. ws # <<>> => Len(ws) > 0
  BY <1>1
<1>9. QED
  BY <1>2, <1>7, <1>8 DEF AllIn

-----------------------------------------------------------------------------
(* The other operations on the ring.                                       *)

\* The same words and losses.
SameWords(r, v) ==
  /\ RingOK(v)
  /\ v.fill = r.fill
  /\ Contents(v) = Contents(r)
  /\ v.lost_words_count = r.lost_words_count
  /\ v.last_words_were_lost = r.last_words_were_lost

\* Nothing else of the ring matters to what is true of it.
LEMMA FedSame ==
  ASSUME NEW k, NEW r, NEW out, NEW n, NEW uncut \in BOOLEAN, NEW exact \in BOOLEAN,
         Fed(k, r, out, n, uncut, exact), NEW v, SameWords(r, v)
  PROVE  Fed(k, v, out, n, uncut, exact)
<1>1. \A i : StreamAt(v, out.last, i) = StreamAt(r, out.last, i)
  BY DEF StreamAt, SameWords
<1>2. StreamOK(k, v, out.last, n, uncut)
  <2>1. StreamOK(k, r, out.last, n, uncut)
    BY DEF Fed
  <2>2. v.fill = r.fill /\ v.last_words_were_lost = r.last_words_were_lost
    BY DEF SameWords
  <2>3. QED
    BY <1>1, <2>1, <2>2 DEF StreamOK
<1>3. QED
  BY <1>2 DEF Fed, SameWords, Accounted, NotTorn

\* The words ws have left.
Gone(out, ws) ==
  [last |-> IF ws = <<>> THEN out.last ELSE Last(ws), count |-> out.count + DatumCount(ws)]

\* pop_front moves words from the ring to those that have left.
LEMMA FedDrops ==
  ASSUME NEW k, NEW r, NEW out, NEW n, NEW uncut \in BOOLEAN, NEW exact \in BOOLEAN,
         Fed(k, r, out, n, uncut, exact), NEW m, NEW v, Drops(r, m, v),
         NEW ws \in Seq(Word), Len(ws) = m, \A i \in 1 .. m : ws[i] = Contents(r)[i]
  PROVE  Fed(k, v, Gone(out, ws), n, uncut, exact)
<1> DEFINE f == r.fill
           o == Gone(out, ws)
           at(i) == StreamAt(r, out.last, i)
           at2(i) == StreamAt(v, o.last, i)
<1>1. RingOK(r) /\ out \in [last : Word, count : Nat] /\ StreamOK(k, r, out.last, n, uncut)
      /\ Accounted(r, out.count, n, exact) /\ (k.protocol = "VA_EVENT" => NotTorn(r))
  BY DEF Fed
<1>2. f \in Nat /\ out.last \in Word /\ out.count \in Nat /\ n \in Nat
  BY <1>1 DEF RingOK, Ring, StreamOK
<1>3. m \in 0 .. f /\ v.fill = f - m /\ RingOK(v) /\ v.fill \in Nat
  BY <1>2 DEF Drops
<1>4. Contents(r) \in Seq(Word) /\ Contents(v) \in Seq(Word)
      /\ Len(Contents(r)) = f /\ Len(Contents(v)) = v.fill
  BY <1>1, <1>3, ContentsSeq
<1>5. Joined(Contents(r), ws, Contents(v))
  BY <1>2, <1>3, <1>4 DEF Joined, Drops
<1>6. DatumCount(Contents(r)) = DatumCount(ws) + DatumCount(Contents(v))
  BY <1>4, <1>5, CountJoined
<1>7. DatumCount(ws) \in Nat /\ DatumCount(Contents(v)) \in Nat
  BY <1>4, DataCounted
<1>8. o.last = at(m) /\ o.count = out.count + DatumCount(ws) /\ o \in [last : Word, count : Nat]
  <2>1. at(m) \in Word
    BY <1>1, <1>2, <1>3, StreamWords
  <2>2. (IF ws = <<>> THEN out.last ELSE Last(ws)) = at(m)
    <3>1. CASE ws = <<>>
      BY <3>1 DEF StreamAt
    <3>2. CASE ws # <<>>
      <4>1. m \in 1 .. m /\ m # 0
        BY <1>2, <1>3, <3>2
      <4>2. Last(ws) = ws[m]
        BY DEF Last
      <4>3. QED
        BY <3>2, <4>1, <4>2 DEF StreamAt
    <3>3. QED
      BY <3>1, <3>2
  <2> HIDE DEF at
  <2>3. out.count + DatumCount(ws) \in Nat
    BY <1>2, <1>7
  <2>4. QED
    BY <2>1, <2>2, <2>3 DEF Gone
<1> HIDE DEF o
<1>9. ASSUME NEW i \in 0 .. v.fill PROVE at2(i) = at(m + i)
  <2>1. CASE i = 0
    <3>1. m + i = m
      BY <1>2, <1>3, <2>1
    <3>2. at2(i) = o.last
      BY <2>1 DEF StreamAt
    <3> HIDE DEF at
    <3>3. QED
      BY <1>8, <3>1, <3>2
  <2>2. CASE i # 0
    <3>1. i \in 1 .. v.fill /\ m + i # 0
      BY <1>2, <1>3, <2>2
    <3>2. QED
      BY <3>1 DEF StreamAt, Drops
  <2>3. QED
    BY <2>1, <2>2
<1>10. v.last_words_were_lost = r.last_words_were_lost /\ v.lost_words_count = r.lost_words_count
  BY DEF Drops
<1>11. StreamOK(k, v, o.last, n, uncut)
  <2>1. ASSUME NEW i \in 1 .. v.fill
        PROVE  /\ at2(i - 1) = at(m + i - 1) /\ at2(i) = at(m + i)
               /\ m + i \in 1 .. f /\ m + i \in 0 .. f
    <3> HIDE DEF at, at2
    <3>1. i \in 0 .. v.fill /\ i - 1 \in 0 .. v.fill /\ m + (i - 1) = m + i - 1
      BY <1>2, <1>3
    <3>2. QED
      BY <1>2, <1>3, <1>9, <3>1
  <2>2. \A j \in 1 .. f : Beyond(at(j - 1), at(j)) /\ (uncut => InLine(k, at(j - 1), at(j)))
    BY <1>1 DEF StreamOK
  <2>3. \A j \in 0 .. f : at(j).seq <= n
    BY <1>1 DEF StreamOK
  <2>4. at2(v.fill) = at(f)
    <3>1. v.fill \in 0 .. v.fill /\ m + v.fill = f
      BY <1>2, <1>3
    <3> HIDE DEF at, at2
    <3>2. QED
      BY <1>9, <3>1
  <2>5. uncut => /\ Complete(at(f))
                 /\ r.last_words_were_lost = FALSE => at(f).seq = n
                 /\ r.last_words_were_lost = TRUE => at(f).seq < n
    BY <1>1 DEF StreamOK
  <2> HIDE DEF at, at2, f
  <2>6. ASSUME NEW i \in 1 .. v.fill
        PROVE  Beyond(at2(i - 1), at2(i)) /\ (uncut => InLine(k, at2(i - 1), at2(i)))
    BY <2>1, <2>2
  <2>7. ASSUME NEW i \in 0 .. v.fill PROVE at2(i).seq <= n
    <3>1. m + i \in 0 .. f
      BY <1>2, <1>3
    <3>2. QED
      BY <1>9, <2>3, <3>1
  <2>8. uncut => /\ Complete(at2(v.fill))
                 /\ v.last_words_were_lost = FALSE => at2(v.fill).seq = n
                 /\ v.last_words_were_lost = TRUE => at2(v.fill).seq < n
    BY <1>10, <2>4, <2>5
  <2>9. o.last \in Word
    BY <1>8
  <2>10. QED
    BY <1>2, <2>6, <2>7, <2>8, <2>9 DEF StreamOK, at2
<1>12. Accounted(v, o.count, n, exact)
  <2>1. n - o.count - DatumCount(Contents(v)) = n - out.count - DatumCount(Contents(r))
    BY <1>2, <1>6, <1>7, <1>8
  <2>2. QED
    BY <1>1, <1>10, <2>1 DEF Accounted
<1>13. k.protocol = "VA_EVENT" => NotTorn(v)
  <2> SUFFICES ASSUME k.protocol = "VA_EVENT", NEW i \in 1 .. v.fill, Contents(v)[i].dataloss
               PROVE  Contents(v)[i].first
    BY DEF NotTorn
  <2>1. m + i \in 1 .. f /\ Contents(v)[i] = Contents(r)[m + i]
    BY <1>2, <1>3 DEF Drops
  <2>2. QED
    BY <1>1, <2>1 DEF NotTorn
<1>14. Fed(k, v, o, n, uncut, exact)
  BY <1>3, <1>8, <1>11, <1>12, <1>13 DEF Fed
<1>15. QED
  BY <1>14 DEF o

\* The words of a client, after its first n.
FromClient(n, ws) ==
  /\ ws \in Seq(Word)
  /\ \A i \in 1 .. Len(ws) : ws[i].seq = n + i /\ ws[i].part = 0 /\ ws[i].dataloss = FALSE

\* push_back of a client's words, which all fit.
LEMMA FedStores ==
  ASSUME NEW k, NEW r, NEW out, NEW n, NEW uncut \in BOOLEAN, NEW exact \in BOOLEAN,
         Fed(k, r, out, n, uncut, exact), k.protocol # "VA_EVENT", r.last_words_were_lost = FALSE,
         NEW ws, FromClient(n, ws), NEW v, Stores(r, ws, Len(ws), v)
  PROVE  Fed(k, v, out, n + Len(ws), uncut, exact) /\ v.last_words_were_lost = FALSE
<1> DEFINE f == r.fill
           m == Len(ws)
           last == out.last
           at(i) == StreamAt(r, last, i)
           at2(i) == StreamAt(v, last, i)
<1>1. RingOK(r) /\ out \in [last : Word, count : Nat] /\ StreamOK(k, r, last, n, uncut)
      /\ Accounted(r, out.count, n, exact)
  BY DEF Fed
<1>2. f \in Nat /\ last \in Word /\ out.count \in Nat /\ n \in Nat /\ r.lost_words_count \in Nat
  BY <1>1 DEF RingOK, Ring, StreamOK
<1>3. ws \in Seq(Word) /\ m \in Nat /\ v.fill = f + m /\ RingOK(v)
      /\ v.lost_words_count = r.lost_words_count /\ v.last_words_were_lost = FALSE
  BY <1>2 DEF Stores, FromClient
<1>4. \A i \in 0 .. f : at2(i) = at(i)
  BY <1>2 DEF StreamAt, Stores
<1>5. \A j \in 1 .. m : at2(f + j) = ws[j] /\ ws[j].seq = n + j /\ ws[j].part = 0
                        /\ ws[j].dataloss = FALSE
  BY <1>2, <1>3 DEF StreamAt, Stores, FromClient
<1>6. \A j \in 1 .. f : Beyond(at(j - 1), at(j)) /\ (uncut => InLine(k, at(j - 1), at(j)))
  BY <1>1 DEF StreamOK
<1>7. \A j \in 0 .. f : at(j) \in Word /\ at(j).seq <= n
  BY <1>1, <1>2, StreamWords DEF StreamOK
<1>8. uncut => Complete(at(f)) /\ at(f).seq = n
  BY <1>1 DEF StreamOK
<1>9. StreamOK(k, v, last, n + m, uncut)
  <2> HIDE DEF at, at2, f, m, last
  <2>1. ASSUME NEW i \in 1 .. v.fill
        PROVE  Beyond(at2(i - 1), at2(i)) /\ (uncut => InLine(k, at2(i - 1), at2(i)))
    <3>1. CASE i <= f
      <4>1. i \in 1 .. f /\ i \in 0 .. f /\ i - 1 \in 0 .. f
        BY <1>2, <1>3, <3>1
      <4>2. QED
        BY <1>4, <1>6, <4>1
    <3>2. CASE i = f + 1
      <4>1. f \in 0 .. f /\ i - 1 = f /\ 1 \in 1 .. m
        BY <1>2, <1>3, <3>2
      <4>2. at2(i - 1) = at(f) /\ at(f) \in Word /\ at(f).seq <= n
            /\ at2(i).seq = n + 1 /\ at2(i).part = 0 /\ at2(i).dataloss = FALSE
        BY <1>4, <1>5, <1>7, <3>2, <4>1
      <4>3. at(f).seq \in Nat
        BY <4>2 DEF Word
      <4>4. Beyond(at2(i - 1), at2(i))
        BY <1>2, <4>2, <4>3 DEF Beyond
      <4>5. ASSUME uncut PROVE InLine(k, at2(i - 1), at2(i))
        BY <1>8, <4>2, <4>5 DEF InLine, Follows
      <4>6. QED
        BY <4>4, <4>5
    <3>3. CASE i > f + 1
      <4>1. PICK j \in 2 .. m : i = f + j
        <5>1. i - f \in 2 .. m /\ i = f + (i - f)
          BY <1>2, <1>3, <3>3
        <5>2. QED
          BY <5>1
      <4>2. j \in 1 .. m /\ j - 1 \in 1 .. m /\ i - 1 = f + (j - 1)
        BY <1>2, <1>3, <4>1
      <4>3. /\ at2(i).seq = n + j /\ at2(i).part = 0 /\ at2(i).dataloss = FALSE
            /\ at2(i - 1).seq = n + (j - 1) /\ at2(i - 1).part = 0
        BY <1>5, <4>1, <4>2
      <4>4. n + j = (n + (j - 1)) + 1 /\ n + j > n + (j - 1)
        BY <1>2, <4>1
      <4>5. Beyond(at2(i - 1), at2(i))
        BY <4>3, <4>4 DEF Beyond
      <4>6. Follows(at2(i - 1), at2(i))
        BY <4>3, <4>4 DEF Follows, Complete
      <4>7. QED
        BY <4>3, <4>5, <4>6 DEF InLine
    <3>4. QED
      BY <1>2, <1>3, <3>1, <3>2, <3>3
  <2>2. ASSUME NEW i \in 0 .. v.fill PROVE at2(i).seq <= n + m
    <3>1. CASE i <= f
      <4>1. i \in 0 .. f
        BY <1>2, <1>3, <3>1
      <4>2. at2(i) \in Word /\ at2(i).seq <= n
        BY <1>4, <1>7, <4>1
      <4>3. at2(i).seq \in Nat
        BY <4>2 DEF Word
      <4>4. QED
        BY <1>2, <1>3, <4>2, <4>3
    <3>2. CASE ~(i <= f)
      <4>1. PICK j \in 1 .. m : i = f + j
        <5>1. i - f \in 1 .. m /\ i = f + (i - f)
          BY <1>2, <1>3, <3>2
        <5>2. QED
          BY <5>1
      <4>2. at2(i).seq = n + j
        BY <1>5, <4>1
      <4>3. QED
        BY <1>2, <1>3, <4>1, <4>2
    <3>3. QED
      BY <3>1, <3>2
  <2>3. ASSUME uncut PROVE Complete(at2(v.fill)) /\ at2(v.fill).seq = n + m
    <3>1. CASE m = 0
      <4>1. v.fill = f /\ f \in 0 .. f /\ n + m = n
        BY <1>2, <1>3, <3>1
      <4>2. QED
        BY <1>4, <1>8, <2>3, <4>1
    <3>2. CASE m # 0
      <4>1. m \in 1 .. m
        BY <1>3, <3>2
      <4>2. QED
        BY <1>3, <1>5, <4>1 DEF Complete
    <3>3. QED
      BY <3>1, <3>2
  <2>4. n + m \in Nat
    BY <1>2, <1>3
  <2>5. last \in Word /\ v.last_words_were_lost # TRUE
    BY <1>2, <1>3
  <2>6. QED
    BY <2>1, <2>2, <2>3, <2>4, <2>5 DEF StreamOK, at2
<1>10. Accounted(v, out.count, n + m, exact)
  <2>1. Contents(r) \in Seq(Word) /\ Contents(v) \in Seq(Word)
        /\ Len(Contents(r)) = f /\ Len(Contents(v)) = v.fill
    BY <1>1, <1>3, ContentsSeq
  <2>2. Joined(Contents(v), Contents(r), ws)
    BY <1>3, <2>1 DEF Joined, Stores
  <2>3. DatumCount(Contents(v)) = DatumCount(Contents(r)) + DatumCount(ws)
    BY <1>3, <2>1, <2>2, CountJoined
  <2>4. DatumCount(ws) = m
    BY <1>3, CountAll DEF FromClient
  <2>5. DatumCount(Contents(r)) \in Nat
    BY <2>1, DataCounted
  <2> HIDE DEF m
  <2>6. (n + m) - out.count - DatumCount(Contents(v)) = n - out.count - DatumCount(Contents(r))
    BY <1>2, <1>3, <2>3, <2>4, <2>5
  <2>7. QED
    BY <1>1, <1>3, <2>6 DEF Accounted
<1>11. QED
  BY <1>1, <1>3, <1>9, <1>10 DEF Fed


\* The two readings of what was cut: nothing at all, and nothing that was counted.
Uncut(c) == c = {}
Exact(c) == "shrunk" \notin c

\* The two histories of what was cut are Boolean.
LEMMA CutBoolean == \A c : Uncut(c) \in BOOLEAN /\ Exact(c) \in BOOLEAN
  BY DEF Uncut, Exact

\* What was cut, after r was replaced by a ring of the given size.
Shrinks(r, size, c, c2) == c2 = IF size < r.fill THEN c \cup {"shrunk"} ELSE c

\* replace_buffer: a prefix of the stream stays; if all of it fits, nothing is cut.
LEMMA FedKeeps ==
  ASSUME NEW k, NEW r, NEW out, NEW n, NEW c, Fed(k, r, out, n, Uncut(c), Exact(c)),
         NEW size \in Nat, NEW v, Keeps(r, size, v), NEW c2, Shrinks(r, size, c, c2)
  PROVE  Fed(k, v, out, n, Uncut(c2), Exact(c2))
<1> DEFINE uncut == Uncut(c)
           exact == Exact(c)
           uncut2 == Uncut(c2)
           exact2 == Exact(c2)
<1>a. /\ uncut \in BOOLEAN /\ exact \in BOOLEAN /\ uncut2 \in BOOLEAN /\ exact2 \in BOOLEAN
      /\ Fed(k, r, out, n, uncut, exact)
  BY CutBoolean
<1>b. r.fill \in Nat
  BY <1>a DEF Fed, RingOK, Ring
<1>0. (uncut2 => uncut /\ size >= r.fill) /\ (exact2 => exact /\ size >= r.fill)
  BY <1>b DEF Shrinks, Uncut, Exact
<1> HIDE DEF uncut, exact, uncut2, exact2
<1> DEFINE f == r.fill
           g == v.fill
           at(i) == StreamAt(r, out.last, i)
           at2(i) == StreamAt(v, out.last, i)
<1>1. RingOK(r) /\ out \in [last : Word, count : Nat] /\ StreamOK(k, r, out.last, n, uncut)
      /\ Accounted(r, out.count, n, exact) /\ (k.protocol = "VA_EVENT" => NotTorn(r))
  BY <1>a DEF Fed
<1>2. f \in Nat /\ out.last \in Word /\ out.count \in Nat /\ n \in Nat /\ r.lost_words_count \in Nat
  BY <1>1 DEF RingOK, Ring, StreamOK
<1>3. /\ g \in 0 .. f /\ RingOK(v) /\ (size >= f => g = f)
      /\ v.lost_words_count = r.lost_words_count + (f - g)
      /\ v.last_words_were_lost = r.last_words_were_lost
  BY <1>2 DEF Keeps, Least
<1>4. \A i \in 1 .. g : Contents(v)[i] = Contents(r)[i]
  BY DEF Keeps
<1>5. \A i \in 0 .. g : at2(i) = at(i)
  BY <1>2, <1>3, <1>4 DEF StreamAt
<1>6. \A j \in 1 .. f : Beyond(at(j - 1), at(j)) /\ (uncut => InLine(k, at(j - 1), at(j)))
  BY <1>1 DEF StreamOK
<1>7. \A j \in 0 .. f : at(j).seq <= n
  BY <1>1 DEF StreamOK
<1>8. uncut => /\ Complete(at(f))
               /\ r.last_words_were_lost = FALSE => at(f).seq = n
               /\ r.last_words_were_lost = TRUE => at(f).seq < n
  BY <1>1 DEF StreamOK
<1>9. StreamOK(k, v, out.last, n, uncut2)
  <2> HIDE DEF at, at2
  <2>1. ASSUME NEW i \in 1 .. v.fill
        PROVE  Beyond(at2(i - 1), at2(i)) /\ (uncut2 => InLine(k, at2(i - 1), at2(i)))
    <3>1. i \in 1 .. f /\ i \in 0 .. g /\ i - 1 \in 0 .. g
      BY <1>2, <1>3
    <3>2. QED
      BY <1>0, <1>5, <1>6, <3>1
  <2>2. ASSUME NEW i \in 0 .. v.fill PROVE at2(i).seq <= n
    <3>1. i \in 0 .. f
      BY <1>2, <1>3
    <3>2. QED
      BY <1>5, <1>7, <3>1
  <2>3. ASSUME uncut2
        PROVE  /\ Complete(at2(v.fill))
               /\ v.last_words_were_lost = FALSE => at2(v.fill).seq = n
               /\ v.last_words_were_lost = TRUE => at2(v.fill).seq < n
    <3>1. g = f /\ f \in 0 .. g
      BY <1>0, <1>2, <1>3, <2>3
    <3>2. at2(v.fill) = at(f)
      BY <1>5, <3>1
    <3>3. QED
      BY <1>0, <1>3, <1>8, <2>3, <3>2
  <2>4. QED
    BY <1>2, <2>1, <2>2, <2>3 DEF StreamOK, at2
<1>10. Accounted(v, out.count, n, exact2)
  <2> DEFINE rest == SubSeq(Contents(r), g + 1, f)
             a == DatumCount(Contents(v))
             b == DatumCount(rest)
  <2>1. Contents(r) \in Seq(Word) /\ Contents(v) \in Seq(Word)
        /\ Len(Contents(r)) = f /\ Len(Contents(v)) = g
    BY <1>1, <1>3, ContentsSeq
  <2>2. rest \in Seq(Word) /\ Len(rest) = f - g
        /\ \A i \in 1 .. f - g : rest[i] = Contents(r)[g + i]
    <3> DEFINE held == Contents(r)
    <3> HIDE DEF held
    <3>1. held \in Seq(Word) /\ Len(held) = f /\ g + 1 \in 1 .. f + 1 /\ f \in 0 .. f
      BY <1>2, <1>3, <2>1 DEF held
    <3> HIDE DEF f, g
    <3>2. SubSeq(held, g + 1, f) \in Seq(Word) /\ Len(SubSeq(held, g + 1, f)) = f - g
          /\ \A i \in 1 .. f - g : SubSeq(held, g + 1, f)[i] = held[g + i]
      <4>1. f \in Nat /\ g \in Nat /\ g <= f
        BY <1>2, <1>3
      <4>2. Len(SubSeq(held, g + 1, f)) = f - g
        BY <3>1, <4>1
      <4>3. \A i \in 1 .. f - g : SubSeq(held, g + 1, f)[i] = held[g + i]
        BY <3>1, <4>1
      <4>4. SubSeq(held, g + 1, f) \in Seq(Word)
        BY <3>1, <4>1
      <4>5. QED
        BY <4>2, <4>3, <4>4
    <3>3. QED
      BY <3>2 DEF held
  <2>3. Joined(Contents(r), Contents(v), rest)
    <3> HIDE DEF rest
    <3>1. f = g + (f - g)
      BY <1>2, <1>3
    <3>2. QED
      BY <1>4, <2>1, <2>2, <3>1 DEF Joined
  <2> HIDE DEF rest
  <2>4. DatumCount(Contents(r)) = a + b
    BY <2>1, <2>2, <2>3, CountJoined
  <2>5. a \in Nat /\ b \in Nat /\ b <= f - g
    BY <2>1, <2>2, DataCounted
  <2>6. n - out.count - (a + b) <= r.lost_words_count
        /\ (exact => n - out.count - (a + b) = r.lost_words_count)
    BY <1>1, <2>4 DEF Accounted
  <2> HIDE DEF a, b, f, g
  <2>7. n - out.count - a <= v.lost_words_count
    BY <1>2, <1>3, <2>5, <2>6
  <2>8. ASSUME exact2 PROVE n - out.count - a = v.lost_words_count
    <3>1. g = f /\ exact
      BY <1>0, <1>3, <2>8 DEF f
    <3>2. b = 0
      BY <1>2, <2>5, <3>1
    <3>3. QED
      BY <1>2, <1>3, <2>5, <2>6, <3>1, <3>2
  <2>9. QED
    BY <2>7, <2>8 DEF Accounted, a
<1>11. k.protocol = "VA_EVENT" => NotTorn(v)
  <2> SUFFICES ASSUME k.protocol = "VA_EVENT", NEW i \in 1 .. v.fill, Contents(v)[i].dataloss
               PROVE  Contents(v)[i].first
    BY DEF NotTorn
  <2>1. i \in 1 .. f /\ Contents(v)[i] = Contents(r)[i]
    BY <1>2, <1>3, <1>4
  <2>2. QED
    BY <1>1, <2>1 DEF NotTorn
<1>12. Fed(k, v, out, n, uncut2, exact2)
  BY <1>1, <1>3, <1>9, <1>10, <1>11 DEF Fed
<1>13. QED
  BY <1>12 DEF uncut2, exact2

\* An empty ring has no words.
LEMMA EmptyRing ==
  ASSUME NEW r, RingOK(r), r.fill = 0
  PROVE  Contents(r) = <<>> /\ DatumCount(Contents(r)) = 0
<1>1. Contents(r) \in Seq(Word) /\ Len(Contents(r)) = 0
  BY ContentsSeq
<1>2. Contents(r) = <<>>
  BY <1>1
<1>3. DatumCount(Contents(r)) \in Nat /\ DatumCount(Contents(r)) <= 0
  BY <1>1, DataCounted
<1> DEFINE a == DatumCount(Contents(r))
<1> HIDE DEF a
<1>4. a = 0
  BY <1>3 DEF a
<1>5. QED
  BY <1>2, <1>4 DEF a

\* reset drops what is stored.
LEMMA FedReset ==
  ASSUME NEW k, NEW r, NEW out, NEW n, NEW uncut \in BOOLEAN, NEW exact \in BOOLEAN,
         Fed(k, r, out, n, uncut, exact)
  PROVE  Fed(k, Reset(r), [out EXCEPT !.count = n], n, FALSE, exact)
<1> DEFINE v == Reset(r)
           o == [out EXCEPT !.count = n]
<1>1. RingOK(r) /\ out \in [last : Word, count : Nat] /\ StreamOK(k, r, out.last, n, uncut)
  BY DEF Fed
<1>2. r.fill \in Nat /\ out.last \in Word /\ n \in Nat /\ r \in Ring
  BY <1>1 DEF RingOK, Ring, StreamOK
<1>3. v = [r EXCEPT !.fill = 0, !.read_index = 0, !.lost_words_count = 0]
  BY DEF Reset
<1> HIDE DEF v
<1>4. /\ v \in Ring /\ v.data = r.data /\ v.capacity = r.capacity /\ v.fill = 0
      /\ v.read_index = 0 /\ v.lost_words_count = 0
  BY <1>2, <1>3 DEF Ring
<1>5. RingOK(v)
  BY <1>1, <1>4 DEF RingOK, Ring
<1>6. o \in [last : Word, count : Nat] /\ o.last = out.last /\ o.count = n
  BY <1>1, <1>2
<1> HIDE DEF o
<1>7. StreamAt(v, o.last, 0).seq <= n
  <2>1. 0 \in 0 .. r.fill
    BY <1>2
  <2>2. QED
    BY <1>1, <1>6, <2>1 DEF StreamOK, StreamAt
<1>8. StreamOK(k, v, o.last, n, FALSE)
  BY <1>2, <1>4, <1>6, <1>7 DEF StreamOK
<1>9. Accounted(v, o.count, n, exact)
  <2>1. DatumCount(Contents(v)) = 0 /\ n - n - 0 = 0
    BY <1>2, <1>4, <1>5, EmptyRing
  <2>2. QED
    BY <1>4, <1>6, <2>1 DEF Accounted
<1>10. NotTorn(v)
  BY <1>4 DEF NotTorn
<1>11. Fed(k, v, o, n, FALSE, exact)
  BY <1>5, <1>6, <1>8, <1>9, <1>10 DEF Fed
<1>12. QED
  BY <1>11 DEF v, o

\* A full queue of a microEnable 5 board loses what is in the board's FIFO.
LEMMA FedDrained ==
  ASSUME NEW k, NEW r, NEW out, NEW n, NEW uncut \in BOOLEAN, NEW exact \in BOOLEAN,
         Fed(k, r, out, n, uncut, exact), NEW j \in Nat
  PROVE  Fed(k, [r EXCEPT !.lost_words_count = @ + j], out, n + j, FALSE, exact)
<1> DEFINE v == [r EXCEPT !.lost_words_count = r.lost_words_count + j]
<1>1. RingOK(r) /\ out \in [last : Word, count : Nat] /\ StreamOK(k, r, out.last, n, uncut)
      /\ Accounted(r, out.count, n, exact) /\ (k.protocol = "VA_EVENT" => NotTorn(r))
  BY DEF Fed
<1>2. r.fill \in Nat /\ out.last \in Word /\ n \in Nat /\ r \in Ring /\ out.count \in Nat
      /\ r.lost_words_count + j \in Nat /\ r.lost_words_count \in Nat
  BY <1>1 DEF RingOK, Ring, StreamOK
<1>3. /\ v \in Ring /\ v.data = r.data /\ v.capacity = r.capacity /\ v.fill = r.fill
      /\ v.read_index = r.read_index /\ v.lost_words_count = r.lost_words_count + j
  BY <1>2 DEF Ring
<1> HIDE DEF v
<1>4. RingOK(v) /\ Contents(v) = Contents(r)
  BY <1>1, <1>3 DEF RingOK, Contents
<1>5. \A i : StreamAt(v, out.last, i) = StreamAt(r, out.last, i)
  BY <1>4 DEF StreamAt
<1>6. \A i \in 0 .. r.fill : StreamAt(r, out.last, i).seq <= n + j
  <2> TAKE i \in 0 .. r.fill
  <2>1. StreamAt(r, out.last, i) \in Word /\ StreamAt(r, out.last, i).seq <= n
    BY <1>1, <1>2, StreamWords DEF StreamOK
  <2>2. StreamAt(r, out.last, i).seq \in Nat
    BY <2>1 DEF Word
  <2>3. QED
    BY <1>2, <2>1, <2>2
<1>7. StreamOK(k, v, out.last, n + j, FALSE)
  <2>1. \A i \in 1 .. r.fill : Beyond(StreamAt(r, out.last, i - 1), StreamAt(r, out.last, i))
    BY <1>1 DEF StreamOK
  <2>2. n + j \in Nat
    BY <1>2
  <2>3. QED
    BY <1>2, <1>3, <1>5, <1>6, <2>1, <2>2 DEF StreamOK
<1>8. Accounted(v, out.count, n + j, exact)
  <2> DEFINE a == DatumCount(Contents(r))
  <2>1. a \in Nat
    BY <1>1, ContentsSeq, DataCounted
  <2>2. n - out.count - a <= r.lost_words_count
        /\ (exact => n - out.count - a = r.lost_words_count)
    BY <1>1 DEF Accounted
  <2> HIDE DEF a
  <2>3. (n + j) - out.count - a = (n - out.count - a) + j
    BY <1>2, <2>1
  <2>4. QED
    BY <1>2, <1>3, <1>4, <2>1, <2>2, <2>3 DEF Accounted, a
<1>9. k.protocol = "VA_EVENT" => NotTorn(v)
  BY <1>1, <1>3, <1>4 DEF NotTorn
<1>10. Fed(k, v, out, n + j, FALSE, exact)
  BY <1>1, <1>4, <1>7, <1>8, <1>9 DEF Fed
<1>11. QED
  BY <1>10 DEF v

-----------------------------------------------------------------------------
(* The inductive invariant.                                                *)

\* Words of a packet for this queue are still to come.
Mine(t) == t.mine /\ t.remaining > 0

\* The ring of a queue of kind k: what was said of it above, and a packet ends where
\* last_word_was_eop says so.
RingInv(k, r, out, n, c, t) ==
  /\ RingOK(r) /\ r.capacity \in Sizes \cup {0}
  /\ out \in [last : Word, count : Nat]
  /\ n \in Nat
  /\ k.type # "WRITE_CXP" => Fed(k, r, out, n, Uncut(c), Exact(c))
  /\ k.type # "READ" => r.last_words_were_lost = FALSE
  /\ (k.protocol = "VA_EVENT" /\ r.last_word_was_eop) =>
       IF k.board = "me5" THEN t.remaining = 0 ELSE Mine(t) => t.first

\* Room for one burst.
Burst(b) == IF b THEN FifoDepth ELSE 0

\* What the board's FIFO of a write queue may still be given: one burst by each interrupt
\* that is due, one by the next write if the queue is not running.  Only a queue that is
\* switched off while an interrupt is due may be given more than its FIFO holds.
DriveInv(k, r, fp, ev, se, t, o) ==
  /\ fp \in Nat /\ o \in Nat
  /\ k.type = "READ" => fp = 0 /\ ev = FALSE
  /\ k.board = "me5" => t.mine = FALSE
  /\ k.board = "me6" => se = FALSE
  /\ k.type # "READ" =>
       fp + Burst(ev \/ se) + Burst(Mine(t)) + Burst(r.is_running = FALSE) <= FifoDepth * (1 + o)

\* The client that sleeps.  A writer sleeps for no more than the ring can hold, unless
\* the ring was replaced meanwhile, so that it is owed a wakeup once the ring is empty.
WaitInv(k, r, todo, c, w, q, s) ==
  /\ w = "none" <=> todo = 0
  /\ w # "none" => q \in Requests /\ todo \in {q, Cleared}
  /\ (w # "none" /\ k.type # "READ" /\ ~s) => q <= r.capacity
  /\ w = "waiting" =>
       /\ (k.type = "READ" /\ todo # Cleared /\ r.fill >= q) => c > 0
       /\ (k.type # "READ" /\ todo = Cleared) => c > 0
       /\ (k.type # "READ" /\ ~s /\ r.fill = 0) => c > 0

\* What TypeOK says beside the ring and the FIFO.
Typed ==
  /\ kind \in Kinds
  /\ event \in BOOLEAN /\ masked \in BOOLEAN /\ seen \in BOOLEAN
  /\ phase \in {"closed", "open", "closing", "stopped", "fresh"}
  /\ cpltodo \in Requests \cup {0, Cleared}
  /\ cpl \in Nat
  /\ wait \in {"none", "waiting", "woken", "expired"}
  /\ req \in Requests \cup {0}
  /\ starved \in BOOLEAN
  /\ transfer \in [remaining : Nat, mine : BOOLEAN, first : BOOLEAN]
  /\ sent \in 0 .. MaxWords
  /\ cut \subseteq {"cleared", "shrunk", "drained"}
  /\ admin \in 0 .. MaxAdmin

\* The words of a packet that are still to come stay within the bound on words.
Budget(k, n, t) == (k.type = "READ" /\ t.mine) => n + t.remaining <= MaxWords

IInv ==
  /\ Typed
  /\ RingInv(kind, u, left, sent, cut, transfer)
  /\ DriveInv(kind, u, fpga, event, seen, transfer, offs)
  /\ WaitInv(kind, u, cpltodo, cpl, wait, req, starved)
  /\ Budget(kind, sent, transfer)

\* The kinds of queues.
LEMMA KindFacts ==
  ASSUME NEW k \in Kinds
  PROVE  /\ k.board \in {"me5", "me6"}
         /\ k.type \in {"READ", "WRITE_RAW", "WRITE_LEGACY", "WRITE_CXP"}
         /\ k.protocol \in Protocols
         /\ k.type # "READ" => k.protocol = "RAW"
<1>1. k \in ReadKinds \/ k \in WriteKinds
  BY UiqAssumption
<1>2. QED
  BY <1>1 DEF ReadKinds, WriteKinds, Protocols

\* Words leave the ring for a reader.
LEMMA InvDrops ==
  ASSUME NEW k, NEW r, NEW out, NEW n, NEW c, NEW t, RingInv(k, r, out, n, c, t),
         NEW m, NEW v, Drops(r, m, v), NEW ws \in Seq(Word),
         k.type # "WRITE_CXP" => Len(ws) = m /\ \A i \in 1 .. m : ws[i] = Contents(r)[i],
         \A i \in 1 .. Len(ws) : ws[i] \in Word
  PROVE  RingInv(k, v, Gone(out, ws), n, c, t)
<1> DEFINE o == Gone(out, ws)
<1>1. RingOK(v) /\ v.capacity \in Sizes \cup {0} /\ n \in Nat
      /\ v.last_words_were_lost = r.last_words_were_lost
      /\ v.last_word_was_eop = r.last_word_was_eop
  BY DEF RingInv, Drops
<1>2. o \in [last : Word, count : Nat]
  <2>1. out.last \in Word /\ out.count \in Nat /\ DatumCount(ws) \in Nat
    BY DataCounted DEF RingInv
  <2>2. out.count + DatumCount(ws) \in Nat
    BY <2>1
  <2>3. ws # <<>> => Last(ws) \in Word
    <3>1. ws # <<>> => Len(ws) \in 1 .. Len(ws)
      OBVIOUS
    <3>2. QED
      BY <3>1 DEF Last
  <2>4. QED
    BY <2>1, <2>2, <2>3 DEF Gone
<1>3. ASSUME k.type # "WRITE_CXP" PROVE Fed(k, v, o, n, Uncut(c), Exact(c))
  <2>1. Fed(k, r, out, n, Uncut(c), Exact(c))
    BY <1>3 DEF RingInv
  <2>2. Uncut(c) \in BOOLEAN /\ Exact(c) \in BOOLEAN
    BY CutBoolean
  <2>3. Len(ws) = m /\ \A i \in 1 .. m : ws[i] = Contents(r)[i]
    BY <1>3
  <2>4. QED
    BY <2>1, <2>2, <2>3, FedDrops, ZenonT(60)
<1> HIDE DEF o
<1>4. RingInv(k, v, o, n, c, t)
  BY <1>1, <1>2, <1>3 DEF RingInv
<1>5. QED
  BY <1>4 DEF o

\* Bookkeeping that changes no word.
LEMMA InvSame ==
  ASSUME NEW k, NEW r, NEW out, NEW n, NEW c, NEW t, RingInv(k, r, out, n, c, t),
         NEW v, SameWords(r, v), v.capacity = r.capacity,
         v.last_word_was_eop = r.last_word_was_eop
  PROVE  RingInv(k, v, out, n, c, t)
<1>1. ASSUME k.type # "WRITE_CXP" PROVE Fed(k, v, out, n, Uncut(c), Exact(c))
  <2>1. Fed(k, r, out, n, Uncut(c), Exact(c))
    BY <1>1 DEF RingInv
  <2>2. Uncut(c) \in BOOLEAN /\ Exact(c) \in BOOLEAN
    BY CutBoolean
  <2>3. QED
    BY <2>1, <2>2, FedSame, Zenon
<1>2. QED
  BY <1>1 DEF RingInv, SameWords

\* is_running, and read_index of an empty ring, are not part of the words.
LEMMA RunningSame ==
  ASSUME NEW r, RingOK(r), NEW b \in BOOLEAN
  PROVE  /\ SameWords(r, [r EXCEPT !.is_running = b])
         /\ [r EXCEPT !.is_running = b].capacity = r.capacity
         /\ [r EXCEPT !.is_running = b].last_word_was_eop = r.last_word_was_eop
         /\ [r EXCEPT !.is_running = b].is_running = b
<1> DEFINE v == [r EXCEPT !.is_running = b]
<1>1. r \in Ring
  BY DEF RingOK
<1>2. /\ v \in Ring /\ v.data = r.data /\ v.capacity = r.capacity /\ v.fill = r.fill
      /\ v.read_index = r.read_index /\ v.lost_words_count = r.lost_words_count
      /\ v.last_words_were_lost = r.last_words_were_lost
      /\ v.last_word_was_eop = r.last_word_was_eop /\ v.is_running = b
  BY <1>1 DEF Ring
<1> HIDE DEF v
<1>3. RingOK(v) /\ Contents(v) = Contents(r)
  BY <1>2 DEF RingOK, Contents
<1>4. SameWords(r, v)
  BY <1>2, <1>3 DEF SameWords
<1>5. QED
  BY <1>2, <1>4 DEF v

\* The interrupt of a write queue whose ring is empty.
LEMMA IdleSame ==
  ASSUME NEW r, RingOK(r), r.fill = 0
  PROVE  LET v == [r EXCEPT !.is_running = FALSE, !.read_index = 0]
         IN  SameWords(r, v) /\ v.capacity = r.capacity
             /\ v.last_word_was_eop = r.last_word_was_eop /\ v.is_running = FALSE
<1> DEFINE v == [r EXCEPT !.is_running = FALSE, !.read_index = 0]
<1>1. r \in Ring
  BY DEF RingOK
<1>2. /\ v \in Ring /\ v.data = r.data /\ v.capacity = r.capacity /\ v.fill = r.fill
      /\ v.read_index = 0 /\ v.lost_words_count = r.lost_words_count
      /\ v.last_words_were_lost = r.last_words_were_lost
      /\ v.last_word_was_eop = r.last_word_was_eop /\ v.is_running = FALSE
  BY <1>1 DEF Ring
<1> HIDE DEF v
<1>3. RingOK(v)
  BY <1>2 DEF RingOK
<1>4. Contents(v) = Contents(r)
  BY <1>2, <1>3, EmptyRing
<1>5. SameWords(r, v)
  BY <1>2, <1>3, <1>4 DEF SameWords
<1>6. QED
  BY <1>2, <1>5 DEF v

\* What the board gets from men_uiq_push.
LEMMA PushedWords ==
  ASSUME NEW r, RingOK(r), r.fill > 0
  PROVE  /\ WrittenToDevice(r) \in Seq(Word)
         /\ Len(WrittenToDevice(r)) \in 0 .. FifoDepth
         /\ WriteCount(r) \in 1 .. r.fill
         /\ kind.type # "WRITE_CXP" =>
              /\ Len(WrittenToDevice(r)) = WriteCount(r)
              /\ \A i \in 1 .. WriteCount(r) : WrittenToDevice(r)[i] = Contents(r)[i]
<1> DEFINE m == WriteCount(r)
<1>1. r.fill \in Nat /\ r.capacity \in Nat /\ r.fill <= r.capacity /\ r.read_index \in Nat
      /\ (r.read_index < r.capacity \/ r.read_index = 0)
      /\ r.data \in [0 .. r.capacity - 1 -> Word]
  BY DEF RingOK, Ring
<1>2. FifoDepth \in Nat \ {0}
  BY UiqAssumption
<1>3. m \in 1 .. r.fill /\ m <= FifoDepth /\ Least(m, r.fill) = m
  BY <1>1, <1>2 DEF WriteCount, Least
<1>4. CASE kind.type = "WRITE_CXP"
  <2> DEFINE len == r.data[r.read_index].len
  <2>1. r.read_index \in 0 .. r.capacity - 1
    BY <1>1
  <2>2. len \in Nat
    BY <1>1, <2>1 DEF Word
  <2>3. CASE m > len
    <3>1. WrittenToDevice(r) = FrontWords(r, len + 1)
      BY <1>4, <2>3 DEF WrittenToDevice
    <3> HIDE DEF len, m
    <3>2. len + 1 \in Nat /\ Least(len + 1, r.fill) \in 0 .. FifoDepth
      BY <1>1, <1>2, <1>3, <2>2, <2>3 DEF Least
    <3>3. FrontWords(r, len + 1) \in Seq(Word) /\ Len(FrontWords(r, len + 1)) = Least(len + 1, r.fill)
      BY <3>2, FrontWordsFirst
    <3>4. QED
      BY <1>3, <1>4, <3>1, <3>2, <3>3 DEF m
  <2>4. CASE ~(m > len)
    <3>1. WrittenToDevice(r) = <<>>
      BY <1>4, <2>4 DEF WrittenToDevice
    <3>2. QED
      BY <1>2, <1>3, <1>4, <3>1
  <2>5. QED
    BY <2>3, <2>4
<1>5. CASE kind.type # "WRITE_CXP"
  <2>1. WrittenToDevice(r) = FrontWords(r, m)
    BY <1>5 DEF WrittenToDevice
  <2> HIDE DEF m
  <2>2. m \in Nat
    BY <1>1, <1>3
  <2>3. FrontWords(r, m) \in Seq(Word) /\ Len(FrontWords(r, m)) = m
        /\ \A i \in 1 .. m : FrontWords(r, m)[i] = Contents(r)[i]
    BY <1>3, <2>2, FrontWordsFirst
  <2>4. m \in 0 .. FifoDepth
    BY <1>1, <1>2, <1>3
  <2>5. QED
    BY <1>3, <2>1, <2>3, <2>4 DEF m
<1>6. QED
  BY <1>4, <1>5

\* The ring that men_uiq_push leaves.
PushedRing(r, b) == [AfterPush(r) EXCEPT !.is_running = b]

\* men_uiq_push moves words from the ring to the board.
LEMMA InvPush ==
  ASSUME NEW b \in BOOLEAN, NEW r, NEW out, NEW n, NEW c, NEW t, RingInv(kind, r, out, n, c, t), r.fill > 0
  PROVE  /\ RingInv(kind, PushedRing(r, b), Gone(out, WrittenToDevice(r)), n, c, t)
         /\ PushedRing(r, b).is_running = b
         /\ PushedRing(r, b).capacity = r.capacity
         /\ PushedRing(r, b).fill = AfterPush(r).fill
         /\ AfterPush(r).capacity = r.capacity
         /\ AfterPush(r).fill = r.fill - WriteCount(r)
<1> DEFINE a == AfterPush(r)
           m == WriteCount(r)
           ws == WrittenToDevice(r)
           v == PushedRing(r, b)
<1>1. RingOK(r) /\ n \in Nat
  BY DEF RingInv
<1>2. Drops(r, m, a)
  BY <1>1, AfterPushDrops
<1>3. /\ ws \in Seq(Word)
      /\ kind.type # "WRITE_CXP" => Len(ws) = m /\ \A i \in 1 .. m : ws[i] = Contents(r)[i]
  BY <1>1, PushedWords
<1>4. \A i \in 1 .. Len(ws) : ws[i] \in Word
  BY <1>3
<1> HIDE DEF a, m, ws
<1>5. RingInv(kind, a, Gone(out, ws), n, c, t)
  BY <1>2, <1>3, <1>4, InvDrops
<1>6. RingOK(a) /\ v = [a EXCEPT !.is_running = b]
  BY <1>5 DEF RingInv, PushedRing, a
<1> HIDE DEF v
<1>7. SameWords(a, v) /\ v.capacity = a.capacity /\ v.last_word_was_eop = a.last_word_was_eop
      /\ v.is_running = b
  BY <1>6, RunningSame
<1>8. RingInv(kind, v, Gone(out, ws), n, c, t)
  BY <1>5, <1>7, InvSame
<1>9. a.capacity = r.capacity /\ a.fill = r.fill - m /\ v.fill = a.fill
  BY <1>2, <1>7 DEF Drops, SameWords
<1>10. QED
  BY <1>7, <1>8, <1>9 DEF v, a, m, ws

\* A client's words.
LEMMA ClientWordsFrom ==
  ASSUME sent \in Nat, NEW n \in Nat
  PROVE  FromClient(sent, ClientWords(n)) /\ Len(ClientWords(n)) = n
<1> DEFINE ws == ClientWords(n)
           ln(i) == IF kind.type = "WRITE_CXP" /\ i = 1 THEN n - 1 ELSE 0
<1>1. NoWord \in Word
  BY TsAssumption DEF NoWord, Word
<1>2. ws = [i \in 1 .. n |-> [NoWord EXCEPT !.seq = sent + i, !.first = (i = 1), !.len = ln(i)]]
  BY DEF ClientWords
<1>3. ASSUME NEW i \in 1 .. n PROVE ln(i) \in Nat /\ sent + i \in Nat /\ (i = 1) \in BOOLEAN
  OBVIOUS
<1> HIDE DEF ws, ln
<1>4. ASSUME NEW i \in 1 .. n
      PROVE  ws[i] \in Word /\ ws[i].seq = sent + i /\ ws[i].part = 0 /\ ws[i].dataloss = FALSE
  <2> DEFINE b == i = 1
  <2> HIDE DEF b
  <2>1. ws[i] = [NoWord EXCEPT !.seq = sent + i, !.first = b, !.len = ln(i)]
    BY <1>2 DEF b
  <2>2. ln(i) \in Nat /\ sent + i \in Nat /\ b \in BOOLEAN
    BY <1>3 DEF b
  <2>3. ws[i] \in Word /\ ws[i].seq = sent + i
    BY <1>1, <2>1, <2>2 DEF Word
  <2>4. ws[i].part = NoWord.part /\ ws[i].dataloss = NoWord.dataloss
    BY <1>1, <2>1 DEF Word
  <2>5. QED
    BY <2>3, <2>4 DEF NoWord
<1>5. ws \in Seq(Word) /\ Len(ws) = n
  <2>1. ws \in [1 .. n -> Word]
    BY <1>2, <1>4
  <2>2. QED
    BY <2>1
<1>6. QED
  BY <1>4, <1>5 DEF FromClient, ws

\* The board's words.
LEMMA BoardWordsFrom ==
  ASSUME sent \in Nat, kind \in Kinds, NEW k \in Nat, NEW rest \in Nat, k <= rest,
         NEW first \in BOOLEAN, NEW stamp \in BOOLEAN, NEW r,
         (kind.protocol = "VA_EVENT" /\ r.last_word_was_eop) => first
  PROVE  /\ FromBoard(kind, r, sent, BoardWords(k, rest, first, stamp))
         /\ Len(BoardWords(k, rest, first, stamp)) = k
         /\ (kind.protocol = "VA_EVENT" /\ k > 0) =>
              (BoardWords(k, rest, first, stamp)[k].eot <=> k = rest)
<1> DEFINE ws == BoardWords(k, rest, first, stamp)
           fi(i) == first /\ i = 1
           eo(i) == kind.protocol # "RAW" /\ i = rest
           ts(i) == kind.protocol # "RAW" /\ stamp /\ first /\ i = 1
<1>1. NoWord \in Word
  BY TsAssumption DEF NoWord, Word
<1>2. ws = [i \in 1 .. k |-> [NoWord EXCEPT !.seq = sent + i, !.first = fi(i), !.eot = eo(i),
                                            !.insert_ts = ts(i)]]
  BY DEF BoardWords
<1>3. ASSUME NEW i \in 1 .. k
      PROVE  sent + i \in Nat /\ fi(i) \in BOOLEAN /\ eo(i) \in BOOLEAN /\ ts(i) \in BOOLEAN
  OBVIOUS
<1> HIDE DEF ws, fi, eo, ts
<1>4. ASSUME NEW i \in 1 .. k
      PROVE  /\ ws[i] \in Word /\ ws[i].seq = sent + i /\ ws[i].part = 0 /\ ws[i].dataloss = FALSE
             /\ ws[i].first = fi(i) /\ ws[i].eot = eo(i)
  <2>1. ws[i] = [NoWord EXCEPT !.seq = sent + i, !.first = fi(i), !.eot = eo(i), !.insert_ts = ts(i)]
    BY <1>2
  <2>2. sent + i \in Nat /\ fi(i) \in BOOLEAN /\ eo(i) \in BOOLEAN /\ ts(i) \in BOOLEAN
    BY <1>3
  <2>3. ws[i] \in Word /\ ws[i].seq = sent + i
    BY <1>1, <2>1, <2>2 DEF Word
  <2>4. ws[i].part = NoWord.part /\ ws[i].dataloss = NoWord.dataloss
    BY <1>1, <2>1 DEF Word
  <2>5. ws[i].first = fi(i) /\ ws[i].eot = eo(i)
    BY <2>1 DEF NoWord
  <2>6. QED
    BY <2>3, <2>4, <2>5 DEF NoWord
<1>5. ws \in Seq(Word) /\ Len(ws) = k
  <2>1. ws \in [1 .. k -> Word]
    BY <1>2, <1>4
  <2>2. QED
    BY <2>1
<1>6. ASSUME kind.protocol = "VA_EVENT", k > 0, r.last_word_was_eop PROVE ws[1].first
  <2>1. 1 \in 1 .. k
    BY <1>6
  <2>2. ws[1].first = fi(1)
    BY <1>4, <2>1
  <2>3. QED
    BY <1>6, <2>2 DEF fi
<1>7. ASSUME NEW i \in 2 .. k, ws[i - 1].eot PROVE FALSE
  <2>1. i - 1 \in 1 .. k /\ i - 1 # rest
    OBVIOUS
  <2>2. ws[i - 1].eot = eo(i - 1)
    BY <1>4, <2>1
  <2>3. QED
    BY <1>7, <2>1, <2>2 DEF eo
<1>8. FromBoard(kind, r, sent, ws)
  BY <1>4, <1>5, <1>6, <1>7 DEF FromBoard
<1>9. ASSUME kind.protocol = "VA_EVENT", k > 0 PROVE ws[k].eot <=> k = rest
  <2>1. k \in 1 .. k
    BY <1>9
  <2>2. ws[k].eot = eo(k)
    BY <1>4, <2>1
  <2>3. QED
    BY <1>9, <2>2 DEF eo
<1>10. QED
  BY <1>5, <1>8, <1>9 DEF ws

\* The ring with a client's words.
Enqueued(n) == PushBack(u, ClientWords(n))

\* uiq_write stores the words of a client.
LEMMA InvStores ==
  ASSUME RingInv(kind, u, left, sent, cut, transfer), kind \in Kinds, kind.type # "READ",
         NEW n \in Nat, GetFreeCapacity(u) >= n
  PROVE  /\ RingInv(kind, Enqueued(n), left, sent + n, cut, transfer)
         /\ Enqueued(n).fill = u.fill + n /\ Enqueued(n).capacity = u.capacity
         /\ Enqueued(n).is_running = u.is_running
<1> DEFINE ws == ClientWords(n)
           v == PushBack(u, ws)
<1>1. RingOK(u) /\ sent \in Nat /\ sent + n \in Nat /\ u.last_words_were_lost = FALSE
  BY DEF RingInv
<1>2. FromClient(sent, ws) /\ Len(ws) = n
  BY <1>1, ClientWordsFrom
<1> HIDE DEF ws
<1>3. ws \in Seq(Word)
  BY <1>2 DEF FromClient
<1>4. Least(Len(ws), GetFreeCapacity(u)) = Len(ws)
  BY <1>2 DEF Least
<1>5. Stores(u, ws, Len(ws), v)
  BY <1>1, <1>3, <1>4, PushBackStores
<1> HIDE DEF v
<1>6. kind.protocol # "VA_EVENT"
  BY KindFacts
<1>7. ASSUME kind.type # "WRITE_CXP" PROVE Fed(kind, v, left, sent + n, Uncut(cut), Exact(cut))
  <2>1. Fed(kind, u, left, sent, Uncut(cut), Exact(cut))
    BY <1>7 DEF RingInv
  <2>2. Uncut(cut) \in BOOLEAN /\ Exact(cut) \in BOOLEAN
    BY CutBoolean
  <2>3. Fed(kind, v, left, sent + Len(ws), Uncut(cut), Exact(cut))
    BY <1>1, <1>2, <1>5, <1>6, <2>1, <2>2, FedStores, Zenon
  <2>4. QED
    BY <1>2, <2>3
<1>8. RingOK(v) /\ v.capacity = u.capacity /\ v.fill = u.fill + n /\ v.is_running = u.is_running
      /\ v.last_words_were_lost = FALSE
  BY <1>2, <1>5 DEF Stores
<1>9. RingInv(kind, v, left, sent + n, cut, transfer)
  BY <1>1, <1>6, <1>7, <1>8 DEF RingInv
<1>10. QED
  BY <1>8, <1>9 DEF v, ws, Enqueued

\* The ring with k words of a packet.
Received(k, rest, first, stamp) ==
  WriteAllFromGrabber(kind.protocol, u, BoardWords(k, rest, first, stamp))

\* The interrupt stores k words of a packet of which rest words were still to come.
LEMMA InvWriteAll ==
  ASSUME RingInv(kind, u, left, sent, cut, transfer), kind \in Kinds, kind.type = "READ",
         NEW k \in Nat, NEW rest \in Nat, k > 0, k <= rest,
         NEW first \in BOOLEAN, NEW stamp \in BOOLEAN, NEW t,
         (kind.protocol = "VA_EVENT" /\ u.last_word_was_eop) => first,
         k = rest => t.remaining = 0,
         kind.board # "me5" => t.remaining = rest - k
  PROVE  /\ RingInv(kind, Received(k, rest, first, stamp), left, sent + k, cut, t)
         /\ Received(k, rest, first, stamp).fill >= u.fill
         /\ Received(k, rest, first, stamp).capacity = u.capacity
         /\ Received(k, rest, first, stamp).is_running = u.is_running
<1> DEFINE ws == BoardWords(k, rest, first, stamp)
           v == WriteAllFromGrabber(kind.protocol, u, ws)
<1>1. RingOK(u) /\ sent \in Nat /\ sent + k \in Nat /\ left \in [last : Word, count : Nat]
  BY DEF RingInv
<1>2. /\ FromBoard(kind, u, sent, ws) /\ Len(ws) = k
      /\ kind.protocol = "VA_EVENT" => (ws[k].eot <=> k = rest)
  BY <1>1, BoardWordsFrom
<1>3. kind.protocol \in Protocols
  BY KindFacts
<1>4. Fed(kind, u, left, sent, Uncut(cut), Exact(cut)) /\ Uncut(cut) \in BOOLEAN /\ Exact(cut) \in BOOLEAN
  BY CutBoolean DEF RingInv
<1> HIDE DEF ws
<1>a. v = WriteAllFromGrabber(kind.protocol, u, ws)
  OBVIOUS
<1> HIDE DEF v
<1>b. AllIn(kind, u, left, sent, Uncut(cut), Exact(cut), ws, v)
  BY <1>2, <1>3, <1>4, <1>a, FedAll, Zenon
<1>5. /\ Fed(kind, v, left, sent + Len(ws), Uncut(cut), Exact(cut))
      /\ v.capacity = u.capacity /\ v.is_running = u.is_running /\ v.fill >= u.fill
      /\ (kind.protocol = "VA_EVENT" /\ ws # <<>>) => v.last_word_was_eop = ws[Len(ws)].eot
  BY <1>b DEF AllIn
<1>6. Fed(kind, v, left, sent + k, Uncut(cut), Exact(cut)) /\ RingOK(v)
  BY <1>2, <1>5 DEF Fed
<1>7. ws # <<>>
  <2>1. ws \in Seq(Word)
    BY <1>2 DEF FromBoard
  <2>2. QED
    BY <1>2, <2>1
<1>8. ASSUME kind.protocol = "VA_EVENT", v.last_word_was_eop
      PROVE  IF kind.board = "me5" THEN t.remaining = 0 ELSE Mine(t) => t.first
  <2>1. k = rest
    BY <1>2, <1>5, <1>7, <1>8
  <2>2. QED
    BY <2>1 DEF Mine
<1>9. v.capacity \in Sizes \cup {0}
  BY <1>5 DEF RingInv
<1>10. RingInv(kind, v, left, sent + k, cut, t)
  BY <1>1, <1>6, <1>8, <1>9 DEF RingInv
<1>11. QED
  BY <1>5, <1>10 DEF v, ws, Received

\* men_scale_uiq replaces the buffer.
LEMMA InvKeeps ==
  ASSUME NEW k, NEW r, NEW out, NEW n, NEW c, NEW t, RingInv(k, r, out, n, c, t),
         NEW size \in Sizes, NEW c2, Shrinks(r, size, c, c2)
  PROVE  /\ RingInv(k, ReplaceBuffer(r, size), out, n, c2, t)
         /\ ReplaceBuffer(r, size).capacity = size
         /\ ReplaceBuffer(r, size).fill = Least(r.fill, size)
         /\ ReplaceBuffer(r, size).is_running = r.is_running
<1> DEFINE v == ReplaceBuffer(r, size)
<1>1. RingOK(r) /\ size \in Nat /\ r.fill \in Nat
  BY UiqAssumption DEF RingInv, RingOK, Ring
<1>2. Keeps(r, size, v)
  BY <1>1, ReplaceBufferKeeps
<1> HIDE DEF v
<1>3. /\ RingOK(v) /\ v.capacity = size /\ v.fill = Least(r.fill, size)
      /\ v.last_word_was_eop = r.last_word_was_eop /\ v.is_running = r.is_running
      /\ v.last_words_were_lost = r.last_words_were_lost
  BY <1>2 DEF Keeps
<1>4. ASSUME k.type # "WRITE_CXP" PROVE Fed(k, v, out, n, Uncut(c2), Exact(c2))
  <2>1. Fed(k, r, out, n, Uncut(c), Exact(c))
    BY <1>4 DEF RingInv
  <2>2. QED
    BY <1>1, <1>2, <2>1, FedKeeps
<1>5. RingInv(k, v, out, n, c2, t)
  BY <1>3, <1>4 DEF RingInv
<1>6. QED
  BY <1>3, <1>5 DEF v

\* men_uiq_writefill empties the ring.
LEMMA InvReset ==
  ASSUME NEW k, NEW r, NEW out, NEW n, NEW c, NEW t, RingInv(k, r, out, n, c, t)
  PROVE  /\ RingInv(k, Reset(r), [out EXCEPT !.count = n], n, c \cup {"cleared"}, t)
         /\ Reset(r).capacity = r.capacity /\ Reset(r).fill = 0
         /\ Reset(r).is_running = r.is_running
<1> DEFINE v == Reset(r)
           o == [out EXCEPT !.count = n]
           c2 == c \cup {"cleared"}
<1>1. RingOK(r) /\ r \in Ring /\ out \in [last : Word, count : Nat] /\ n \in Nat
  BY DEF RingInv, RingOK
<1>2. /\ v \in Ring /\ v.data = r.data /\ v.capacity = r.capacity /\ v.fill = 0
      /\ v.read_index = 0 /\ v.last_words_were_lost = r.last_words_were_lost
      /\ v.last_word_was_eop = r.last_word_was_eop /\ v.is_running = r.is_running
  BY <1>1 DEF Reset, Ring
<1>3. o \in [last : Word, count : Nat]
  BY <1>1
<1>4. ASSUME k.type # "WRITE_CXP" PROVE Fed(k, v, o, n, Uncut(c2), Exact(c2))
  <2>1. Fed(k, r, out, n, Uncut(c), Exact(c)) /\ Uncut(c) \in BOOLEAN /\ Exact(c) \in BOOLEAN
    BY <1>4, CutBoolean DEF RingInv
  <2>2. Fed(k, v, o, n, FALSE, Exact(c))
    BY <2>1, FedReset, Zenon
  <2>3. Uncut(c2) = FALSE /\ Exact(c2) = Exact(c)
    BY DEF Uncut, Exact
  <2>4. QED
    BY <2>2, <2>3
<1> HIDE DEF v, o
<1>5. RingOK(v)
  BY <1>1, <1>2 DEF RingOK, Ring
<1>6. RingInv(k, v, o, n, c2, t)
  BY <1>1, <1>2, <1>3, <1>4, <1>5 DEF RingInv
<1>7. QED
  BY <1>2, <1>6 DEF v, o

\* The ring with j more words lost.
Drained(r, j) == [r EXCEPT !.lost_words_count = @ + j]

\* A full queue of a microEnable 5 board: j words are read from its FIFO and lost.
LEMMA InvDrained ==
  ASSUME NEW k, NEW r, NEW out, NEW n, NEW c, NEW t, RingInv(k, r, out, n, c, t),
         k.type = "READ", k.board = "me5", NEW j \in Nat, NEW t2, t2.remaining = 0
  PROVE  /\ RingInv(k, Drained(r, j), out, n + j, c \cup {"drained"}, t2)
         /\ Drained(r, j).capacity = r.capacity /\ Drained(r, j).fill = r.fill
         /\ Drained(r, j).is_running = r.is_running
<1> DEFINE v == [r EXCEPT !.lost_words_count = r.lost_words_count + j]
           c2 == c \cup {"drained"}
<1>1. RingOK(r) /\ r \in Ring /\ out \in [last : Word, count : Nat] /\ n \in Nat /\ n + j \in Nat
      /\ r.lost_words_count + j \in Nat
  BY DEF RingInv, RingOK, Ring
<1>2. /\ v \in Ring /\ v.data = r.data /\ v.capacity = r.capacity /\ v.fill = r.fill
      /\ v.read_index = r.read_index /\ v.is_running = r.is_running
  BY <1>1 DEF Ring
<1>3. Fed(k, v, out, n + j, Uncut(c2), Exact(c2))
  <2>1. Fed(k, r, out, n, Uncut(c), Exact(c)) /\ Uncut(c) \in BOOLEAN /\ Exact(c) \in BOOLEAN
    BY CutBoolean DEF RingInv
  <2>2. Fed(k, v, out, n + j, FALSE, Exact(c))
    BY <2>1, FedDrained, Zenon
  <2>3. Uncut(c2) = FALSE /\ Exact(c2) = Exact(c)
    BY DEF Uncut, Exact
  <2>4. QED
    BY <2>2, <2>3
<1> HIDE DEF v
<1>4. RingOK(v)
  BY <1>1, <1>2 DEF RingOK, Ring
<1>5. RingInv(k, v, out, n + j, c2, t2)
  BY <1>1, <1>2, <1>3, <1>4 DEF RingInv
<1>6. QED
  BY <1>2, <1>5 DEF v, Drained

-----------------------------------------------------------------------------
(* The invariant is inductive: one lemma per action.                       *)

\* The state of the packet matters to event queues only.
LEMMA OtherTransfer ==
  ASSUME NEW k, NEW r, NEW out, NEW n, NEW c, NEW t, RingInv(k, r, out, n, c, t), NEW t2,
         k.protocol # "VA_EVENT" \/ (k.board # "me5" /\ (Mine(t2) => t2.first))
  PROVE  RingInv(k, r, out, n, c, t2)
  BY DEF RingInv

\* The invariant says the types of all variables.
LEMMA TypesHold == IInv => TypeOK
<1> SUFFICES ASSUME IInv PROVE TypeOK
  OBVIOUS
<1>1. RingOK(u) /\ u.capacity \in Sizes \cup {0} /\ left \in [last : Word, count : Nat]
  BY DEF IInv, RingInv
<1>2. fpga \in Nat /\ offs \in Nat
  BY DEF IInv, DriveInv
<1>3. /\ u.fill \in 0 .. u.capacity
      /\ u.read_index \in Nat /\ (u.read_index < u.capacity \/ u.read_index = 0)
      /\ u.data \in [0 .. u.capacity - 1 -> Word]
      /\ u.lost_words_count \in Nat
  BY <1>1 DEF RingOK, Ring
<1>4. {u.last_words_were_lost, u.last_word_was_eop, u.is_running, event, masked, seen}
         \subseteq BOOLEAN
  <2>1. u.last_words_were_lost \in BOOLEAN /\ u.last_word_was_eop \in BOOLEAN /\ u.is_running \in BOOLEAN
    BY <1>1 DEF RingOK, Ring
  <2>2. event \in BOOLEAN /\ masked \in BOOLEAN /\ seen \in BOOLEAN
    BY DEF IInv, Typed
  <2>3. QED
    BY <2>1, <2>2
<1>5. QED
  BY <1>1, <1>2, <1>3, <1>4 DEF IInv, Typed, TypeOK

\* A queue starts without a buffer.
LEMMA InitIInv == Init => IInv
<1> SUFFICES ASSUME Init PROVE IInv
  OBVIOUS
<1>1. NoWord \in Word /\ NoWord.seq = 0 /\ NoWord.part = 0
  BY TsAssumption DEF NoWord, Word
<1>2. /\ u.data \in [0 .. u.capacity - 1 -> Word] /\ u.capacity = 0 /\ u.fill = 0 /\ u.read_index = 0
      /\ u.lost_words_count = 0 /\ u.last_words_were_lost = FALSE
      /\ u.last_word_was_eop = FALSE /\ u.is_running = FALSE /\ u \in Ring
  <2> DEFINE d == [i \in {} |-> NoWord]
  <2>1. d \in [0 .. 0 - 1 -> Word]
    OBVIOUS
  <2>2. d \in Buffers
    BY <2>1, BufferIn
  <2> HIDE DEF d
  <2>3. u = [data |-> d, capacity |-> 0, fill |-> 0, read_index |-> 0,
             lost_words_count |-> 0, last_words_were_lost |-> FALSE,
             last_word_was_eop |-> FALSE, is_running |-> FALSE]
    BY DEF Init, FreshRing, d
  <2>4. QED
    BY <2>1, <2>2, <2>3 DEF Ring
<1>3. RingOK(u)
  BY <1>2 DEF RingOK
<1>4. left = [last |-> NoWord, count |-> 0] /\ sent = 0 /\ cut = {}
  BY DEF Init
<1>5. left \in [last : Word, count : Nat] /\ left.last = NoWord /\ left.count = 0
  BY <1>1, <1>4
<1>6. Fed(kind, u, left, sent, Uncut(cut), Exact(cut))
  <2>1. StreamOK(kind, u, left.last, sent, Uncut(cut))
    BY <1>1, <1>2, <1>4, <1>5 DEF StreamOK, StreamAt, Complete
  <2>2. DatumCount(Contents(u)) = 0
    BY <1>2, <1>3, EmptyRing
  <2>3. Accounted(u, left.count, sent, Exact(cut))
    BY <1>2, <1>4, <1>5, <2>2 DEF Accounted
  <2>4. NotTorn(u)
    BY <1>2 DEF NotTorn
  <2>5. QED
    BY <1>3, <1>5, <2>1, <2>3, <2>4 DEF Fed
<1>7. transfer = [remaining |-> 0, mine |-> FALSE, first |-> FALSE] /\ fpga = 0 /\ event = FALSE
      /\ cpltodo = 0 /\ cpl = 0 /\ wait = "none" /\ req = 0 /\ starved = FALSE
      /\ kind \in Kinds /\ admin = 0
      /\ masked \in BOOLEAN /\ seen = FALSE /\ phase = "closed" /\ offs = 0
  BY DEF Init
<1>8. RingInv(kind, u, left, sent, cut, transfer)
  BY <1>2, <1>3, <1>4, <1>5, <1>6 DEF RingInv
<1>9. DriveInv(kind, u, fpga, event, seen, transfer, offs)
  <2>1. Burst(event \/ seen) = 0 /\ Burst(Mine(transfer)) = 0 /\ Burst(u.is_running = FALSE) = FifoDepth
    BY <1>2, <1>7 DEF Burst, Mine
  <2>2. fpga + Burst(event \/ seen) + Burst(Mine(transfer)) + Burst(u.is_running = FALSE)
          <= FifoDepth * (1 + offs)
    BY <1>7, <2>1, UiqAssumption
  <2>3. transfer.mine = FALSE
    BY <1>7
  <2>4. QED
    BY <1>7, <2>2, <2>3 DEF DriveInv
<1>10. WaitInv(kind, u, cpltodo, cpl, wait, req, starved)
  BY <1>7 DEF WaitInv
<1>11. Typed /\ Budget(kind, sent, transfer)
  <2>1. transfer \in [remaining : Nat, mine : BOOLEAN, first : BOOLEAN] /\ transfer.mine = FALSE
    BY <1>7
  <2>2. sent \in 0 .. MaxWords /\ admin \in 0 .. MaxAdmin
    BY <1>4, <1>7, UiqAssumption
  <2>3. Typed
    BY <1>4, <1>7, <2>1, <2>2 DEF Typed
  <2>4. QED
    BY <2>1, <2>3 DEF Budget
<1>12. QED
  BY <1>8, <1>9, <1>10, <1>11 DEF IInv

\* men_scale_uiq
LEMMA ResizeKeeps ==
  ASSUME IInv, NEW size \in Sizes, Resize(size)
  PROVE  IInv'
<1>1. /\ kind' = kind /\ left' = left /\ sent' = sent /\ transfer' = transfer /\ fpga' = fpga
      /\ event' = event /\ masked' = masked /\ phase' = phase /\ offs' = offs /\ seen' = seen
      /\ cpltodo' = cpltodo /\ cpl' = cpl /\ wait' = wait /\ req' = req
      /\ u' = ReplaceBuffer(u, size) /\ admin' = admin + 1 /\ admin < MaxAdmin
      /\ cut' = IF size < u.fill THEN cut \cup {"shrunk"} ELSE cut
      /\ starved' = (starved \/ size < req)
  BY DEF Resize, boardVars, switchVars
<1>2. /\ RingInv(kind, u', left, sent, cut', transfer)
      /\ u'.capacity = size /\ u'.fill = Least(u.fill, size) /\ u'.is_running = u.is_running
  <2>1. Shrinks(u, size, cut, cut')
    BY <1>1 DEF Shrinks
  <2>2. RingInv(kind, u, left, sent, cut, transfer)
    BY DEF IInv
  <2>3. QED
    BY <1>1, <2>1, <2>2, InvKeeps
<1>3. u.fill \in Nat /\ size \in Nat
  BY UiqAssumption DEF IInv, RingInv, RingOK, Ring
<1>4. DriveInv(kind, u', fpga, event, seen, transfer, offs)
  BY <1>2, <1>3 DEF IInv, DriveInv, Least
<1>5. WaitInv(kind, u', cpltodo, cpl, wait, req, starved')
  <2>1. WaitInv(kind, u, cpltodo, cpl, wait, req, starved)
    BY DEF IInv
  <2>2. ~starved' => ~starved /\ req <= size
    <3>1. req \in Nat
      BY UiqAssumption DEF IInv, Typed
    <3> DEFINE b == size < req
    <3>2. starved' = (starved \/ b)
      BY <1>1
    <3> HIDE DEF b
    <3>3. ~starved' => ~starved /\ ~b
      BY <3>2, Zenon
    <3>4. QED
      BY <1>3, <3>1, <3>3 DEF b
  <2>3. \A q \in Requests : q \in Nat /\ q > 0
    BY UiqAssumption
  <2>4. QED
    BY <1>2, <1>3, <2>1, <2>2, <2>3 DEF WaitInv, Least
<1>6. Typed'
  <2>1. Typed
    BY DEF IInv
  <2>2. starved' \in BOOLEAN
    BY <1>1, <2>1 DEF Typed
  <2>3. cut' \subseteq {"cleared", "shrunk", "drained"}
    BY <1>1, <2>1 DEF Typed
  <2>4. admin' \in 0 .. MaxAdmin
    BY <1>1, <2>1, UiqAssumption DEF Typed
  <2>5. QED
    BY <1>1, <2>1, <2>2, <2>3, <2>4 DEF Typed, Cleared
<1>7. QED
  BY <1>1, <1>2, <1>4, <1>5, <1>6 DEF IInv

\* men_uiq_writefill
LEMMA ClearKeeps ==
  ASSUME IInv, Clear
  PROVE  IInv'
<1>1. /\ kind' = kind /\ sent' = sent /\ transfer' = transfer /\ fpga' = fpga
      /\ event' = event /\ masked' = masked /\ phase' = phase /\ offs' = offs /\ seen' = seen
      /\ wait' = wait /\ req' = req /\ starved' = starved
      /\ u' = Reset(u) /\ admin' = admin + 1 /\ admin < MaxAdmin
      /\ left' = [left EXCEPT !.count = sent] /\ cut' = cut \cup {"cleared"}
  BY DEF Clear, boardVars, switchVars
<1>2. IF cpltodo # 0 THEN cpltodo' = Cleared /\ cpl' = cpl + 1 ELSE cpltodo' = cpltodo /\ cpl' = cpl
  BY DEF Clear
<1>3. /\ RingInv(kind, u', left', sent, cut', transfer)
      /\ u'.capacity = u.capacity /\ u'.fill = 0 /\ u'.is_running = u.is_running
  <2>1. RingInv(kind, u, left, sent, cut, transfer)
    BY DEF IInv
  <2>2. QED
    BY <1>1, <2>1, InvReset
<1>4. Typed
  BY DEF IInv
<1>5. DriveInv(kind, u', fpga, event, seen, transfer, offs)
  BY <1>3 DEF IInv, DriveInv
<1>6. WaitInv(kind, u', cpltodo', cpl', wait, req, starved)
  <2>1. WaitInv(kind, u, cpltodo, cpl, wait, req, starved)
    BY DEF IInv
  <2>2. \A q \in Requests : q \in Nat /\ q > 0 /\ q < Cleared
    BY UiqAssumption DEF Cleared
  <2>3. Cleared \in Nat /\ cpl \in Nat
    BY <1>4, UiqAssumption DEF Cleared, Typed
  <2>4. CASE wait = "none"
    BY <1>2, <2>1, <2>4 DEF WaitInv
  <2>5. CASE wait # "none"
    <3>1. cpltodo # 0 /\ req \in Requests /\ (kind.type # "READ" /\ ~starved => req <= u.capacity)
      BY <2>1, <2>5 DEF WaitInv
    <3>2. cpltodo' = Cleared /\ cpl' = cpl + 1 /\ cpl' > 0 /\ Cleared # 0
      BY <1>2, <2>2, <2>3, <3>1
    <3>3. QED
      BY <1>3, <2>5, <3>1, <3>2 DEF WaitInv
  <2>6. QED
    BY <2>4, <2>5
<1>7. Typed'
  <2>1. cpltodo' \in Requests \cup {0, Cleared} /\ cpl' \in Nat
    BY <1>2, <1>4 DEF Typed
  <2>2. admin' \in 0 .. MaxAdmin
    BY <1>1, <1>4, UiqAssumption DEF Typed
  <2>3. cut' \subseteq {"cleared", "shrunk", "drained"}
    BY <1>1, <1>4 DEF Typed
  <2>4. QED
    BY <1>1, <1>4, <2>1, <2>2, <2>3 DEF Typed, Cleared
<1>8. QED
  BY <1>1, <1>3, <1>5, <1>6, <1>7 DEF IInv

\* uiq_read hands words to the client.
LEMMA DeliverKeeps ==
  ASSUME IInv, kind.type = "READ", NEW n \in Nat, Deliver(n)
  PROVE  /\ RingInv(kind, u', left', sent, cut, transfer)
         /\ DriveInv(kind, u', fpga, event, seen, transfer, offs)
<1> DEFINE m == Least(n, u.fill)
           ws == FrontWords(u, n)
<1>1. RingInv(kind, u, left, sent, cut, transfer) /\ RingOK(u)
  BY DEF IInv, RingInv
<1>2. Drops(u, m, u')
  BY <1>1, PopFrontDrops DEF Deliver
<1>3. ws \in Seq(Word) /\ Len(ws) = m /\ m \in 0 .. u.fill /\ \A i \in 1 .. m : ws[i] = Contents(u)[i]
  BY <1>1, FrontWordsFirst
<1>4. left' = Gone(left, ws)
  BY DEF Deliver, Leave, Gone
<1> HIDE DEF m, ws
<1>5. \A i \in 1 .. Len(ws) : ws[i] \in Word
  BY <1>3
<1>6. RingInv(kind, u', Gone(left, ws), sent, cut, transfer)
  BY <1>1, <1>2, <1>3, <1>5, InvDrops
<1>7. DriveInv(kind, u', fpga, event, seen, transfer, offs)
  BY DEF IInv, DriveInv
<1>8. QED
  BY <1>4, <1>6, <1>7

\* uiq_read
LEMMA ReadCallKeeps ==
  ASSUME IInv, NEW n \in Requests, ReadCall(n)
  PROVE  IInv'
<1>1. /\ kind' = kind /\ cpl' = cpl /\ sent' = sent /\ cut' = cut /\ admin' = admin
      /\ transfer' = transfer /\ fpga' = fpga /\ event' = event
      /\ masked' = masked /\ phase' = phase /\ offs' = offs /\ seen' = seen
      /\ kind.type = "READ" /\ cpltodo = 0
  BY DEF ReadCall, boardVars, switchVars, IsRead
<1>2. Typed /\ n \in Nat /\ n > 0 /\ u.fill \in Nat
  BY UiqAssumption DEF IInv, RingInv, RingOK, Ring
<1>3. CASE u.fill < n
  <2>1. u' = u /\ left' = left /\ cpltodo' = n /\ wait' = "waiting" /\ req' = n /\ starved' = starved
    BY <1>3 DEF ReadCall, Sleep
  <2>2. WaitInv(kind, u, n, cpl, "waiting", n, starved)
    BY <1>1, <1>2, <1>3 DEF WaitInv
  <2>3. Typed'
    BY <1>1, <1>2, <2>1 DEF Typed, Cleared
  <2>4. QED
    BY <1>1, <2>1, <2>2, <2>3 DEF IInv
<1>4. CASE ~(u.fill < n)
  <2>1. Deliver(n) /\ cpltodo' = cpltodo /\ wait' = wait /\ req' = req /\ starved' = starved
    BY <1>4 DEF ReadCall, waitVars
  <2>2. /\ RingInv(kind, u', left', sent, cut, transfer)
        /\ DriveInv(kind, u', fpga, event, seen, transfer, offs)
    BY <1>1, <1>2, <2>1, DeliverKeeps
  <2>3. WaitInv(kind, u', cpltodo, cpl, wait, req, starved)
    BY <1>1 DEF IInv, WaitInv
  <2>4. Typed'
    BY <1>1, <1>2, <2>1 DEF Typed, Cleared
  <2>5. QED
    BY <1>1, <2>1, <2>2, <2>3, <2>4 DEF IInv
<1>5. QED
  BY <1>3, <1>4

\* uiq_read returns, or sleeps again.
LEMMA ReadResumeKeeps ==
  ASSUME IInv, ReadResume
  PROVE  IInv'
<1>1. /\ kind' = kind /\ cpl' = cpl /\ sent' = sent /\ cut' = cut /\ admin' = admin
      /\ transfer' = transfer /\ fpga' = fpga /\ event' = event
      /\ masked' = masked /\ phase' = phase /\ offs' = offs /\ seen' = seen
      /\ kind.type = "READ" /\ wait \in {"woken", "expired"}
  BY DEF ReadResume, boardVars, switchVars, IsRead
<1>2. Typed /\ u.fill \in Nat /\ req \in Nat /\ req \in Requests /\ cpltodo # 0 /\ cpltodo \in {req, Cleared}
  BY <1>1, UiqAssumption DEF IInv, RingInv, RingOK, Ring, WaitInv
<1>3. CASE wait = "woken" /\ u.fill < req
  <2>1. wait' = "waiting" /\ u' = u /\ left' = left /\ cpltodo' = cpltodo /\ req' = req /\ starved' = starved
    BY <1>3 DEF ReadResume
  <2>2. WaitInv(kind, u, cpltodo, cpl, "waiting", req, starved)
    BY <1>1, <1>2, <1>3 DEF WaitInv
  <2>3. Typed'
    BY <1>1, <1>2, <2>1 DEF Typed, Cleared
  <2>4. QED
    BY <1>1, <2>1, <2>2, <2>3 DEF IInv
<1>4. CASE ~(wait = "woken" /\ u.fill < req)
  <2>1. Deliver(req) /\ cpltodo' = 0 /\ wait' = "none" /\ req' = 0 /\ starved' = FALSE
    BY <1>4 DEF ReadResume, Return
  <2>2. /\ RingInv(kind, u', left', sent, cut, transfer)
        /\ DriveInv(kind, u', fpga, event, seen, transfer, offs)
    BY <1>1, <1>2, <2>1, DeliverKeeps
  <2>3. WaitInv(kind, u', 0, cpl, "none", 0, FALSE)
    BY DEF WaitInv
  <2>4. Typed'
    BY <1>1, <1>2, <2>1 DEF Typed, Cleared
  <2>5. QED
    BY <1>1, <2>1, <2>2, <2>3, <2>4 DEF IInv
<1>5. QED
  BY <1>3, <1>4

\* The client wakes up.
LEMMA WakesKeeps ==
  ASSUME IInv, Woken \/ Expired
  PROVE  IInv'
<1>1. /\ kind' = kind /\ u' = u /\ cpltodo' = cpltodo /\ req' = req /\ starved' = starved
      /\ sent' = sent /\ left' = left /\ cut' = cut /\ admin' = admin
      /\ transfer' = transfer /\ fpga' = fpga /\ event' = event
      /\ masked' = masked /\ phase' = phase /\ offs' = offs /\ seen' = seen
      /\ wait = "waiting" /\ wait' \in {"woken", "expired"}
      /\ (cpl > 0 /\ cpl' = cpl - 1) \/ cpl' = cpl
  BY DEF Woken, Expired, boardVars, switchVars
<1>2. Typed
  BY DEF IInv
<1>3. cpl' \in Nat
  BY <1>1, <1>2 DEF Typed
<1>4. WaitInv(kind, u, cpltodo, cpl', wait', req, starved)
  BY <1>1 DEF IInv, WaitInv
<1>5. Typed'
  BY <1>1, <1>2, <1>3 DEF Typed, Cleared
<1>6. QED
  BY <1>1, <1>4, <1>5 DEF IInv

\* Bursts come whole: where a word fits behind some of them, one more burst fits.
LEMMA BurstsApart ==
  ASSUME NEW f \in Nat, f > 0, NEW o \in Nat,
         NEW x \in {0, FifoDepth}, NEW y \in {0, FifoDepth}, NEW z \in {0, FifoDepth},
         f + x + y + z <= FifoDepth * (1 + o)
  PROVE  FifoDepth + y + z <= FifoDepth * (1 + o)
<1>1. FifoDepth \in Nat /\ FifoDepth > 0
  BY UiqAssumption
<1>2. \A m \in Nat : FifoDepth * m \in Nat
  BY <1>1
<1>3. CASE o = 0
  BY <1>1, <1>3
<1>4. CASE o = 1
  BY <1>1, <1>4
<1>5. CASE o >= 2
  <2> DEFINE p == o - 2
  <2>1. p \in Nat /\ FifoDepth * (1 + o) = FifoDepth * p + 3 * FifoDepth
    BY <1>1, <1>5
  <2>2. FifoDepth * p \in Nat
    BY <1>2, <2>1
  <2> HIDE DEF p
  <2>3. QED
    BY <1>1, <2>1, <2>2
<1>6. QED
  BY <1>3, <1>4, <1>5

\* The board empties its FIFO.
LEMMA BoardDrainsKeeps ==
  ASSUME IInv, BoardDrains
  PROVE  IInv'
<1>1. /\ kind' = kind /\ u' = u /\ cpltodo' = cpltodo /\ req' = req /\ starved' = starved
      /\ sent' = sent /\ left' = left /\ cut' = cut /\ admin' = admin /\ wait' = wait /\ cpl' = cpl
      /\ transfer' = transfer /\ fpga > 0 /\ fpga' = 0 /\ event' = TRUE
      /\ masked' = masked /\ phase' = phase /\ offs' = offs /\ seen' = seen
  BY DEF BoardDrains, waitVars, switchVars
<1>2. DriveInv(kind, u, 0, TRUE, seen, transfer, offs)
  <2>1. DriveInv(kind, u, fpga, event, seen, transfer, offs)
    BY DEF IInv
  <2>2. kind.type # "READ" /\ fpga \in Nat /\ offs \in Nat
    BY <1>1, <2>1 DEF DriveInv
  <2>3. fpga + Burst(event \/ seen) + Burst(Mine(transfer)) + Burst(u.is_running = FALSE)
          <= FifoDepth * (1 + offs)
    BY <2>1, <2>2 DEF DriveInv
  <2>4. /\ Burst(event \/ seen) \in {0, FifoDepth} /\ Burst(Mine(transfer)) \in {0, FifoDepth}
        /\ Burst(u.is_running = FALSE) \in {0, FifoDepth} /\ Burst(TRUE \/ seen) = FifoDepth
    BY DEF Burst
  <2>5. 0 + Burst(TRUE \/ seen) + Burst(Mine(transfer)) + Burst(u.is_running = FALSE)
          <= FifoDepth * (1 + offs)
    <3> DEFINE x == Burst(event \/ seen)
               y == Burst(Mine(transfer))
               z == Burst(u.is_running = FALSE)
    <3>1. /\ x \in {0, FifoDepth} /\ y \in {0, FifoDepth} /\ z \in {0, FifoDepth}
          /\ fpga + x + y + z <= FifoDepth * (1 + offs)
      BY <2>3, <2>4
    <3> HIDE DEF x, y, z
    <3>2. FifoDepth + y + z <= FifoDepth * (1 + offs)
      BY <1>1, <2>2, <3>1, BurstsApart
    <3>3. 0 + FifoDepth = FifoDepth
      BY UiqAssumption
    <3>4. QED
      BY <2>4, <3>2, <3>3 DEF y, z
  <2>6. QED
    BY <2>1, <2>2, <2>5 DEF DriveInv
<1>3. Typed'
  BY <1>1 DEF IInv, Typed, Cleared
<1>4. QED
  BY <1>1, <1>2, <1>3 DEF IInv

\* process_uiq_data reads a header.
LEMMA IrqHeaderKeeps ==
  ASSUME IInv, NEW mine \in BOOLEAN, NEW n \in Packets, IrqHeader(mine, n)
  PROVE  IInv'
<1>1. /\ kind' = kind /\ u' = u /\ cpltodo' = cpltodo /\ req' = req /\ starved' = starved
      /\ sent' = sent /\ left' = left /\ cut' = cut /\ admin' = admin /\ wait' = wait /\ cpl' = cpl
      /\ fpga' = fpga /\ kind.board = "me6" /\ transfer.remaining = 0
      /\ masked' = masked /\ phase' = phase /\ offs' = offs /\ seen' = seen
  BY DEF IrqHeader, waitVars, switchVars
<1>2. event' = (event /\ ~mine) /\ transfer' = [remaining |-> n, mine |-> mine, first |-> TRUE]
      /\ (mine /\ kind.type = "READ" => sent + n <= MaxWords)
      /\ (mine /\ kind.type # "READ" => event)
  BY DEF IrqHeader, IsRead, IsWrite
<1>3. n \in Nat /\ n > 0 /\ Typed
  BY UiqAssumption DEF IInv
<1>4. /\ transfer' \in [remaining : Nat, mine : BOOLEAN, first : BOOLEAN]
      /\ transfer'.remaining = n /\ transfer'.mine = mine /\ transfer'.first = TRUE
  BY <1>2, <1>3
<1>5. event' \in BOOLEAN
  BY <1>2, <1>3 DEF Typed
<1>6. RingInv(kind, u, left, sent, cut, transfer')
  <2>1. RingInv(kind, u, left, sent, cut, transfer)
    BY DEF IInv
  <2>2. kind.board # "me5" /\ (Mine(transfer') => transfer'.first)
    BY <1>1, <1>4
  <2>3. QED
    BY <2>1, <2>2, OtherTransfer
<1>7. DriveInv(kind, u, fpga, event', seen, transfer', offs)
  <2>1. DriveInv(kind, u, fpga, event, seen, transfer, offs) /\ event \in BOOLEAN /\ ~Mine(transfer)
        /\ seen = FALSE
    BY <1>1, <1>3 DEF IInv, Typed, Mine, DriveInv
  <2>2. CASE mine = TRUE
    <3>1. event' = FALSE /\ (kind.type # "READ" => event = TRUE) /\ Mine(transfer')
      BY <1>2, <1>3, <1>4, <2>1, <2>2 DEF Mine
    <3>2. kind.type # "READ" => /\ Burst(event \/ seen) = FifoDepth /\ Burst(Mine(transfer)) = 0
                                /\ Burst(event' \/ seen) = 0 /\ Burst(Mine(transfer')) = FifoDepth
      BY <2>1, <3>1 DEF Burst
    <3>3. ASSUME kind.type # "READ"
          PROVE  fpga + Burst(event' \/ seen) + Burst(Mine(transfer')) + Burst(u.is_running = FALSE)
                   <= FifoDepth * (1 + offs)
      <4>1. fpga + Burst(event \/ seen) + Burst(Mine(transfer)) + Burst(u.is_running = FALSE)
              <= FifoDepth * (1 + offs)
        BY <2>1, <3>3 DEF DriveInv
      <4>2. Burst(u.is_running = FALSE) \in {0, FifoDepth} /\ FifoDepth \in Nat /\ fpga \in Nat
        BY <2>1, UiqAssumption DEF Burst, DriveInv
      <4>3. QED
        BY <3>2, <3>3, <4>1, <4>2
    <3>4. QED
      BY <1>1, <2>1, <3>1, <3>3 DEF DriveInv
  <2>3. CASE mine = FALSE
    <3>1. event' = event /\ ~Mine(transfer')
      BY <1>2, <1>4, <2>1, <2>3 DEF Mine
    <3>2. Burst(Mine(transfer')) = Burst(Mine(transfer))
      BY <2>1, <3>1 DEF Burst
    <3>3. QED
      BY <1>1, <2>1, <3>1, <3>2 DEF DriveInv
  <2>4. QED
    BY <2>2, <2>3
<1>8. Budget(kind, sent, transfer')
  BY <1>2, <1>4 DEF Budget
<1>9. Typed'
  BY <1>1, <1>3, <1>4, <1>5 DEF Typed, Cleared
<1>10. QED
  BY <1>1, <1>6, <1>7, <1>8, <1>9 DEF IInv

\* complete(), called with n words there.
LEMMA Completes ==
  ASSUME Typed, NEW n \in Int, CompleteFor(n)
  PROVE  cpl' \in Nat /\ cpl' >= cpl /\ ((cpltodo # 0 /\ cpltodo <= n) => cpl' > 0)
  BY DEF Typed, CompleteFor

\* men_uiq_push of the ring r.
LEMMA PushKeeps ==
  ASSUME Typed, fpga \in Nat, NEW b \in BOOLEAN, NEW r, NEW n, NEW t, RingInv(kind, r, left, n, cut, t), r.fill > 0, Push(r, b)
  PROVE  /\ RingInv(kind, u', left', n, cut, t)
         /\ u'.is_running = b /\ u'.capacity = r.capacity /\ u'.fill \in 0 .. r.fill
         /\ fpga' \in fpga .. fpga + FifoDepth /\ (kind.type # "WRITE_CXP" => fpga' > fpga)
         /\ cpl' \in Nat /\ cpl' >= cpl
         /\ (cpltodo # 0 /\ cpltodo <= u'.capacity - u'.fill) => cpl' > 0
<1>1. RingOK(r) /\ r.fill \in Nat /\ r.capacity \in Nat
  BY DEF RingInv, RingOK, Ring
<1>2. /\ u' = PushedRing(r, b) /\ fpga' = fpga + Len(WrittenToDevice(r))
      /\ left' = Gone(left, WrittenToDevice(r))
      /\ CompleteFor(GetFreeCapacity(AfterPush(r)))
  BY DEF Push, PushedRing, Leave, Gone
<1>3. /\ RingInv(kind, u', left', n, cut, t)
      /\ u'.is_running = b /\ u'.capacity = r.capacity /\ u'.fill = AfterPush(r).fill
      /\ AfterPush(r).capacity = r.capacity /\ AfterPush(r).fill = r.fill - WriteCount(r)
  BY <1>2, InvPush
<1>4. /\ WriteCount(r) \in 1 .. r.fill
      /\ Len(WrittenToDevice(r)) \in 0 .. FifoDepth
      /\ kind.type # "WRITE_CXP" => Len(WrittenToDevice(r)) = WriteCount(r)
  BY <1>1, PushedWords
<1>5. GetFreeCapacity(AfterPush(r)) = u'.capacity - u'.fill
  BY <1>3 DEF GetFreeCapacity
<1>6. u'.fill \in 0 .. r.fill /\ u'.capacity - u'.fill \in Int
  BY <1>1, <1>3, <1>4
<1>7. cpl' \in Nat /\ cpl' >= cpl /\ ((cpltodo # 0 /\ cpltodo <= u'.capacity - u'.fill) => cpl' > 0)
  <2>1. CompleteFor(u'.capacity - u'.fill)
    BY <1>2, <1>5
  <2>2. QED
    BY <1>6, <2>1, Completes
<1>8. fpga' \in fpga .. fpga + FifoDepth /\ (kind.type # "WRITE_CXP" => fpga' > fpga)
  BY <1>1, <1>2, <1>4, UiqAssumption
<1>9. QED
  BY <1>3, <1>6, <1>7, <1>8

\* The interrupt of a write queue: its packet or event is used up (e2, s2, t2).
LEMMA FifoEmptyPreserves ==
  ASSUME IInv, kind.type # "READ", FifoEmpty, NEW e2 \in BOOLEAN, NEW s2 \in BOOLEAN, NEW t2,
         kind.board = "me5" => t2.mine = FALSE, kind.board = "me6" => s2 = FALSE,
         Burst(e2 \/ s2) + Burst(Mine(t2)) + FifoDepth <= Burst(event \/ seen) + Burst(Mine(transfer))
  PROVE  /\ RingInv(kind, u', left', sent, cut, t2)
         /\ DriveInv(kind, u', fpga', e2, s2, t2, offs)
         /\ WaitInv(kind, u', cpltodo, cpl', wait, req, starved)
         /\ cpl' \in Nat
<1>1. /\ Typed /\ RingOK(u) /\ u.fill \in Nat /\ u.capacity \in Nat /\ kind.protocol # "VA_EVENT"
      /\ WaitInv(kind, u, cpltodo, cpl, wait, req, starved)
      /\ DriveInv(kind, u, fpga, event, seen, transfer, offs)
  BY KindFacts DEF IInv, RingInv, RingOK, Ring, Typed
<1>b. \A b : Burst(b) \in {0, FifoDepth}
  BY DEF Burst
<1>c. /\ fpga \in Nat /\ offs \in Nat /\ u.is_running \in BOOLEAN
      /\ fpga + FifoDepth + Burst(e2 \/ s2) + Burst(Mine(t2)) + Burst(u.is_running = FALSE)
           <= FifoDepth * (1 + offs)
  <2>1. fpga \in Nat /\ offs \in Nat /\ u.is_running \in BOOLEAN
    BY <1>1 DEF DriveInv, RingOK, Ring
  <2>2. fpga + Burst(event \/ seen) + Burst(Mine(transfer)) + Burst(u.is_running = FALSE)
           <= FifoDepth * (1 + offs)
    BY <1>1 DEF DriveInv
  <2>3. QED
    BY <1>b, <2>1, <2>2, UiqAssumption
<1>2. RingInv(kind, u, left, sent, cut, t2)
  BY <1>1, OtherTransfer DEF IInv
<1>3. \A q \in Requests : q \in Nat /\ q > 0
  BY UiqAssumption
<1>4. CASE u.fill = 0
  <2>1. u' = [u EXCEPT !.is_running = FALSE, !.read_index = 0] /\ fpga' = fpga /\ left' = left /\ cpl' = cpl
    BY <1>4 DEF FifoEmpty
  <2>2. SameWords(u, u') /\ u'.capacity = u.capacity /\ u'.last_word_was_eop = u.last_word_was_eop
        /\ u'.is_running = FALSE
    BY <1>1, <1>4, <2>1, IdleSame
  <2>3. RingInv(kind, u', left', sent, cut, t2)
    BY <1>2, <2>1, <2>2, InvSame
  <2>4. u'.fill = 0
    BY <1>4, <2>2 DEF SameWords
  <2>5. DriveInv(kind, u', fpga', e2, s2, t2, offs)
    <3>1. fpga + Burst(e2 \/ s2) + Burst(Mine(t2)) + Burst(u'.is_running = FALSE)
             <= FifoDepth * (1 + offs)
      <4>1. Burst(u'.is_running = FALSE) = FifoDepth
        BY <2>2 DEF Burst
      <4>2. QED
        BY <1>b, <1>c, <4>1, UiqAssumption
    <3>2. QED
      BY <1>1, <1>c, <2>1, <3>1 DEF DriveInv
  <2>6. WaitInv(kind, u', cpltodo, cpl', wait, req, starved)
    BY <1>1, <1>4, <2>1, <2>2, <2>4 DEF WaitInv
  <2>7. QED
    BY <1>1, <2>1, <2>3, <2>5, <2>6 DEF Typed
<1>5. CASE u.fill # 0
  <2>1. Push(u, u.is_running) /\ u.fill > 0
    BY <1>1, <1>5 DEF FifoEmpty
  <2>2. /\ RingInv(kind, u', left', sent, cut, t2)
        /\ u'.is_running = u.is_running /\ u'.capacity = u.capacity /\ u'.fill \in 0 .. u.fill
        /\ fpga' \in fpga .. fpga + FifoDepth
        /\ cpl' \in Nat /\ cpl' >= cpl
        /\ (cpltodo # 0 /\ cpltodo <= u'.capacity - u'.fill) => cpl' > 0
    BY <1>1, <1>2, <1>c, <2>1, PushKeeps
  <2>3. DriveInv(kind, u', fpga', e2, s2, t2, offs)
    <3>1. fpga' + Burst(e2 \/ s2) + Burst(Mine(t2)) + Burst(u'.is_running = FALSE)
             <= FifoDepth * (1 + offs)
      BY <1>b, <1>c, <2>2, UiqAssumption
    <3>2. QED
      BY <1>1, <1>c, <2>2, <3>1, UiqAssumption DEF DriveInv
  <2>4. WaitInv(kind, u', cpltodo, cpl', wait, req, starved)
    <3>1. cpl \in Nat
      BY <1>1 DEF Typed
    <3>2. ASSUME wait = "waiting", cpltodo = Cleared PROVE cpl' > 0
      BY <1>1, <2>2, <3>1, <3>2 DEF WaitInv
    <3>3. ASSUME wait = "waiting", cpltodo # Cleared, ~starved, u'.fill = 0 PROVE cpl' > 0
      <4>1. cpltodo = req /\ req \in Requests /\ req <= u.capacity
        BY <1>1, <3>3 DEF WaitInv
      <4>2. QED
        BY <1>1, <1>3, <2>2, <3>3, <4>1
    <3>4. QED
      BY <1>1, <2>2, <3>2, <3>3 DEF WaitInv
  <2>5. QED
    BY <2>2, <2>3, <2>4
<1>6. QED
  BY <1>4, <1>5

\* uiq_write stores n words, and passes on what it can.
LEMMA EnqueueKeeps ==
  ASSUME IInv, kind.type # "READ", NEW n \in Nat, n > 0, GetFreeCapacity(u) >= n, Enqueue(n)
  PROVE  /\ RingInv(kind, u', left', sent', cut, transfer)
         /\ DriveInv(kind, u', fpga', event, seen, transfer, offs)
         /\ cpl' \in Nat /\ sent' = sent + n /\ sent' \in 0 .. MaxWords
<1>1. Typed /\ RingInv(kind, u, left, sent, cut, transfer) /\ DriveInv(kind, u, fpga, event, seen, transfer, offs)
      /\ kind \in Kinds /\ u.fill \in Nat /\ sent \in Nat /\ u.is_running \in BOOLEAN
  BY DEF IInv, RingInv, RingOK, Ring, Typed
<1>2. sent' = sent + n /\ sent' \in 0 .. MaxWords
  BY <1>1, UiqAssumption DEF Enqueue
<1> DEFINE v == Enqueued(n)
<1>3. RingInv(kind, v, left, sent', cut, transfer)
      /\ v.fill = u.fill + n /\ v.capacity = u.capacity /\ v.is_running = u.is_running
  BY <1>1, <1>2, InvStores
<1>4. IF u.is_running THEN u' = v /\ fpga' = fpga /\ left' = left /\ cpl' = cpl ELSE Push(v, TRUE)
  BY DEF Enqueue, Enqueued
<1> HIDE DEF v
<1>5. CASE u.is_running = TRUE
  <2>1. u' = v /\ fpga' = fpga /\ left' = left /\ cpl' = cpl
    BY <1>4, <1>5
  <2>2. DriveInv(kind, v, fpga, event, seen, transfer, offs)
    BY <1>1, <1>3, <1>5 DEF DriveInv
  <2>3. QED
    BY <1>1, <1>2, <1>3, <2>1, <2>2 DEF Typed
<1>6. CASE u.is_running = FALSE
  <2>1. Push(v, TRUE) /\ v.fill > 0
    <3>1. Push(v, TRUE)
      BY <1>4, <1>6, Zenon
    <3>2. v.fill > 0
      BY <1>1, <1>3
    <3>3. QED
      BY <3>1, <3>2
  <2>2. fpga \in Nat /\ offs \in Nat
        /\ fpga + Burst(event \/ seen) + Burst(Mine(transfer)) + FifoDepth <= FifoDepth * (1 + offs)
    BY <1>1, <1>6 DEF DriveInv, Burst
  <2>3. /\ RingInv(kind, u', left', sent', cut, transfer)
        /\ u'.is_running = TRUE /\ fpga' \in fpga .. fpga + FifoDepth
        /\ cpl' \in Nat
    BY <1>1, <1>3, <2>1, <2>2, PushKeeps
  <2>4. DriveInv(kind, u', fpga', event, seen, transfer, offs)
    <3>1. \A b : Burst(b) \in {0, FifoDepth}
      BY DEF Burst
    <3>2. Burst(u'.is_running = FALSE) = 0
      BY <2>3 DEF Burst
    <3>3. fpga' + Burst(event \/ seen) + Burst(Mine(transfer)) + Burst(u'.is_running = FALSE)
            <= FifoDepth * (1 + offs)
      BY <2>2, <2>3, <3>1, <3>2, UiqAssumption
    <3>4. QED
      BY <1>1, <2>2, <2>3, <3>3, UiqAssumption DEF DriveInv
  <2>5. QED
    BY <1>2, <2>3, <2>4
<1>7. QED
  BY <1>1, <1>5, <1>6

\* uiq_write
LEMMA WriteCallKeeps ==
  ASSUME IInv, NEW n \in Requests, WriteCall(n)
  PROVE  IInv'
<1>1. /\ kind' = kind /\ cut' = cut /\ admin' = admin /\ transfer' = transfer /\ event' = event
      /\ masked' = masked /\ phase' = phase /\ offs' = offs /\ seen' = seen
      /\ kind.type # "READ" /\ cpltodo = 0 /\ n <= u.capacity
  BY DEF WriteCall, IsWrite, switchVars
<1>2. Typed /\ n \in Nat /\ n > 0 /\ u.fill \in Nat /\ u.capacity \in Nat /\ n # Cleared
  BY UiqAssumption DEF IInv, RingInv, RingOK, Ring, Cleared
<1>3. wait = "none"
  BY <1>1 DEF IInv, WaitInv
<1>4. CASE GetFreeCapacity(u) < n
  <2>1. /\ u' = u /\ left' = left /\ cpl' = cpl /\ sent' = sent /\ fpga' = fpga
        /\ cpltodo' = n /\ wait' = "waiting" /\ req' = n /\ starved' = starved
    BY <1>4 DEF WriteCall, Sleep
  <2>2. WaitInv(kind, u, n, cpl, "waiting", n, starved)
    BY <1>1, <1>2, <1>4 DEF WaitInv, GetFreeCapacity
  <2>3. Typed'
    BY <1>1, <1>2, <2>1 DEF Typed, Cleared
  <2>4. QED
    BY <1>1, <2>1, <2>2, <2>3 DEF IInv
<1>5. CASE ~(GetFreeCapacity(u) < n)
  <2>1. Enqueue(n) /\ cpltodo' = cpltodo /\ wait' = wait /\ req' = req /\ starved' = starved
    BY <1>5 DEF WriteCall, waitVars
  <2>2. GetFreeCapacity(u) >= n
    BY <1>2, <1>5 DEF GetFreeCapacity
  <2>3. /\ RingInv(kind, u', left', sent', cut, transfer)
        /\ DriveInv(kind, u', fpga', event, seen, transfer, offs)
        /\ cpl' \in Nat /\ sent' \in 0 .. MaxWords
    BY <1>1, <1>2, <2>1, <2>2, EnqueueKeeps
  <2>4. WaitInv(kind, u', cpltodo, cpl', wait, req, starved)
    BY <1>1, <1>3 DEF WaitInv
  <2>5. Typed' /\ Budget(kind, sent', transfer)
    BY <1>1, <1>2, <2>1, <2>3 DEF Typed, Cleared, Budget
  <2>6. QED
    BY <1>1, <2>1, <2>3, <2>4, <2>5 DEF IInv
<1>6. QED
  BY <1>4, <1>5

\* uiq_write returns, or sleeps again.
LEMMA WriteResumeKeeps ==
  ASSUME IInv, WriteResume
  PROVE  IInv'
<1>1. /\ kind' = kind /\ cut' = cut /\ admin' = admin /\ transfer' = transfer /\ event' = event
      /\ masked' = masked /\ phase' = phase /\ offs' = offs /\ seen' = seen
      /\ kind.type # "READ" /\ wait \in {"woken", "expired"}
  BY DEF WriteResume, IsWrite, switchVars
<1>2. /\ Typed /\ u.fill \in Nat /\ u.capacity \in Nat /\ req \in Requests /\ req \in Nat /\ req > 0
      /\ cpltodo # 0 /\ cpltodo \in {req, Cleared} /\ (~starved => req <= u.capacity)
  <2>1. Typed /\ u.fill \in Nat /\ u.capacity \in Nat
    BY DEF IInv, RingInv, RingOK, Ring
  <2>2. cpltodo # 0 /\ cpltodo \in {req, Cleared} /\ (~starved => req <= u.capacity) /\ req \in Requests
    BY <1>1 DEF IInv, WaitInv
  <2>3. QED
    BY <2>1, <2>2, UiqAssumption
<1>3. CASE /\ cpltodo' = 0 /\ wait' = "none" /\ req' = 0 /\ starved' = FALSE
           /\ u' = u /\ left' = left /\ cpl' = cpl /\ sent' = sent /\ fpga' = fpga
  <2>1. WaitInv(kind, u, 0, cpl, "none", 0, FALSE)
    BY DEF WaitInv
  <2>2. Typed'
    BY <1>1, <1>2, <1>3 DEF Typed, Cleared
  <2>3. QED
    BY <1>1, <1>3, <2>1, <2>2 DEF IInv
<1>4. CASE cpltodo # Cleared /\ GetFreeCapacity(u) >= req /\ Return /\ Enqueue(req)
  <2>1. cpltodo' = 0 /\ wait' = "none" /\ req' = 0 /\ starved' = FALSE
    BY <1>4 DEF Return
  <2>2. /\ RingInv(kind, u', left', sent', cut, transfer)
        /\ DriveInv(kind, u', fpga', event, seen, transfer, offs)
        /\ cpl' \in Nat /\ sent' \in 0 .. MaxWords
    BY <1>1, <1>2, <1>4, EnqueueKeeps
  <2>3. WaitInv(kind, u', 0, cpl', "none", 0, FALSE)
    BY DEF WaitInv
  <2>4. Typed' /\ Budget(kind, sent', transfer)
    BY <1>1, <1>2, <2>1, <2>2 DEF Typed, Cleared, Budget
  <2>5. QED
    BY <1>1, <2>1, <2>2, <2>3, <2>4 DEF IInv
<1>5. CASE /\ cpltodo # Cleared /\ GetFreeCapacity(u) < req
           /\ wait' = "waiting" /\ cpltodo' = cpltodo /\ req' = req /\ starved' = starved
           /\ u' = u /\ left' = left /\ cpl' = cpl /\ sent' = sent /\ fpga' = fpga
  <2>1. WaitInv(kind, u, cpltodo, cpl, "waiting", req, starved)
    BY <1>1, <1>2, <1>5 DEF WaitInv, GetFreeCapacity
  <2>2. Typed'
    BY <1>1, <1>2, <1>5 DEF Typed, Cleared
  <2>3. QED
    BY <1>1, <1>5, <2>1, <2>2 DEF IInv
<1>6. \/ cpltodo = Cleared /\ Return /\ UNCHANGED <<u, left, cpl, sent, fpga>>
      \/ cpltodo # Cleared /\ GetFreeCapacity(u) >= req /\ Return /\ Enqueue(req)
      \/ /\ cpltodo # Cleared /\ GetFreeCapacity(u) < req
         /\ \/ wait' = "waiting" /\ UNCHANGED <<cpltodo, req, starved>>
            \/ Return
         /\ UNCHANGED <<u, left, cpl, sent, fpga>>
  BY DEF WriteResume
<1>7. QED
  BY <1>3, <1>4, <1>5, <1>6, Zenon DEF Return

\* A reader that waits for no more words than there are has been told so.
LEMMA ReaderTold ==
  ASSUME NEW k, k.type = "READ", NEW r, NEW v, NEW todo, NEW c \in Nat, NEW w, NEW q, NEW s,
         WaitInv(k, r, todo, c, w, q, s), r.fill \in Nat, v.fill \in Nat,
         NEW c2 \in Nat, c2 >= c, (todo # 0 /\ todo <= v.fill) => c2 > 0
  PROVE  WaitInv(k, v, todo, c2, w, q, s)
<1>1. ASSUME w = "waiting", todo # Cleared, v.fill >= q PROVE c2 > 0
  <2>1. q \in Requests /\ todo = q
    BY <1>1 DEF WaitInv
  <2>2. q \in Nat /\ q > 0
    BY <2>1, UiqAssumption
  <2>3. QED
    BY <1>1, <2>1, <2>2
<1>2. QED
  BY <1>1 DEF WaitInv

\* process_uiq_data handles words of a packet.
LEMMA IrqPayloadKeeps ==
  ASSUME IInv, NEW k \in 1 .. transfer.remaining, NEW stamp \in Stamps, IrqPayload(k, stamp)
  PROVE  IInv'
<1>1. /\ kind' = kind /\ event' = event /\ cut' = cut /\ admin' = admin
      /\ masked' = masked /\ phase' = phase /\ offs' = offs /\ seen' = seen
      /\ cpltodo' = cpltodo /\ wait' = wait /\ req' = req /\ starved' = starved
      /\ kind.board = "me6"
      /\ transfer' = [transfer EXCEPT !.remaining = transfer.remaining - k, !.first = FALSE]
  BY DEF IrqPayload, waitVars, switchVars
<1>2. Typed /\ RingInv(kind, u, left, sent, cut, transfer) /\ DriveInv(kind, u, fpga, event, seen, transfer, offs)
      /\ WaitInv(kind, u, cpltodo, cpl, wait, req, starved) /\ kind \in Kinds
      /\ event \in BOOLEAN /\ cpl \in Nat
  BY DEF IInv, Typed
<1>3. transfer \in [remaining : Nat, mine : BOOLEAN, first : BOOLEAN] /\ transfer.remaining \in Nat
      /\ k \in Nat /\ k > 0 /\ k <= transfer.remaining /\ stamp \in BOOLEAN
      /\ sent \in Nat /\ u.fill \in Nat
  BY <1>2, UiqAssumption DEF Typed, RingInv, RingOK, Ring
<1>4. /\ transfer' \in [remaining : Nat, mine : BOOLEAN, first : BOOLEAN]
      /\ transfer'.remaining = transfer.remaining - k /\ transfer'.mine = transfer.mine
      /\ transfer'.first = FALSE
  <2>1. transfer.remaining - k \in Nat
    BY <1>3
  <2>2. QED
    BY <1>1, <1>3, <2>1
<1> DEFINE Fills == /\ u' = Received(k, transfer.remaining, transfer.first, stamp) /\ sent' = sent + k
                    /\ CompleteFor(u'.fill) /\ fpga' = fpga /\ left' = left
           Empties == FifoEmpty /\ sent' = sent
           Skips == u' = u /\ cpl' = cpl /\ sent' = sent /\ left' = left /\ fpga' = fpga
<1>a. (CASE transfer.mine /\ kind.type = "READ" -> Fills
         [] transfer.mine /\ kind.type # "READ" /\ k = transfer.remaining -> Empties
         [] ~transfer.mine \/ (kind.type # "READ" /\ k < transfer.remaining) -> Skips)
  BY DEF IrqPayload, IsRead, IsWrite, Received
<1> HIDE DEF Fills, Empties, Skips
<1>5. CASE transfer.mine = TRUE /\ kind.type = "READ"
  <2>1. /\ u' = Received(k, transfer.remaining, transfer.first, stamp) /\ sent' = sent + k
        /\ CompleteFor(u'.fill) /\ fpga' = fpga /\ left' = left
    <3>1. Fills
      BY <1>a, <1>5
    <3>2. QED
      BY <3>1 DEF Fills
  <2>2. (kind.protocol = "VA_EVENT" /\ u.last_word_was_eop) => transfer.first
    BY <1>1, <1>2, <1>3, <1>5 DEF RingInv, Mine
  <2>3. transfer.first \in BOOLEAN /\ (k = transfer.remaining => transfer'.remaining = 0)
    BY <1>3, <1>4
  <2>4. /\ RingInv(kind, u', left, sent + k, cut, transfer')
        /\ u'.fill >= u.fill /\ u'.capacity = u.capacity /\ u'.is_running = u.is_running
    BY <1>2, <1>3, <1>4, <1>5, <2>1, <2>2, <2>3, InvWriteAll
  <2>5. u'.fill \in Nat
    BY <2>4 DEF RingInv, RingOK, Ring
  <2>6. cpl' \in Nat /\ cpl' >= cpl /\ ((cpltodo # 0 /\ cpltodo <= u'.fill) => cpl' > 0)
    BY <1>2, <2>1, <2>5, Completes
  <2>7. WaitInv(kind, u', cpltodo, cpl', wait, req, starved)
    BY <1>2, <1>3, <1>5, <2>5, <2>6, ReaderTold
  <2>8. DriveInv(kind, u', fpga, event, seen, transfer', offs)
    BY <1>1, <1>2, <1>5 DEF DriveInv
  <2>9. sent' \in 0 .. MaxWords /\ Budget(kind, sent', transfer')
    <3>1. sent + transfer.remaining <= MaxWords
      BY <1>5 DEF IInv, Budget
    <3>2. QED
      BY <1>3, <1>4, <2>1, <3>1, UiqAssumption DEF Budget
  <2>10. Typed'
    BY <1>1, <1>2, <1>4, <2>6, <2>9 DEF Typed, Cleared
  <2>11. QED
    BY <1>1, <2>1, <2>4, <2>7, <2>8, <2>9, <2>10 DEF IInv
<1>6. CASE transfer.mine = TRUE /\ kind.type # "READ" /\ k = transfer.remaining
  <2>1. FifoEmpty /\ sent' = sent
    <3>1. ~(k < transfer.remaining)
      BY <1>3, <1>6
    <3>2. Empties
      BY <1>a, <1>6, <3>1, Zenon
    <3>3. QED
      BY <3>2 DEF Empties
  <2>2. seen = FALSE /\ seen \in BOOLEAN
    BY <1>1, <1>2 DEF DriveInv
  <2>3. /\ ~Mine(transfer') /\ kind.board # "me5"
        /\ Burst(event \/ seen) + Burst(Mine(transfer')) + FifoDepth
             <= Burst(event \/ seen) + Burst(Mine(transfer))
    <3>1. ~Mine(transfer') /\ kind.board # "me5" /\ Mine(transfer)
      BY <1>1, <1>3, <1>4, <1>6 DEF Mine
    <3>2. Burst(Mine(transfer')) = 0 /\ Burst(Mine(transfer)) = FifoDepth
          /\ Burst(event \/ seen) \in {0, FifoDepth}
      BY <3>1 DEF Burst
    <3>3. Burst(event \/ seen) + Burst(Mine(transfer')) + FifoDepth
            <= Burst(event \/ seen) + Burst(Mine(transfer))
      BY <3>2, UiqAssumption
    <3>4. QED
      BY <3>1, <3>3
  <2>4. /\ RingInv(kind, u', left', sent, cut, transfer')
        /\ DriveInv(kind, u', fpga', event, seen, transfer', offs)
        /\ WaitInv(kind, u', cpltodo, cpl', wait, req, starved)
        /\ cpl' \in Nat
    BY <1>2, <1>6, <2>1, <2>2, <2>3, FifoEmptyPreserves
  <2>5. Typed' /\ Budget(kind, sent, transfer')
    BY <1>1, <1>2, <1>4, <1>6, <2>1, <2>4 DEF Typed, Cleared, Budget
  <2>6. QED
    BY <1>1, <2>1, <2>2, <2>4, <2>5 DEF IInv
<1>7. CASE transfer.mine = FALSE \/ (kind.type # "READ" /\ k < transfer.remaining)
  <2>1. u' = u /\ cpl' = cpl /\ sent' = sent /\ left' = left /\ fpga' = fpga
    <3>1. k < transfer.remaining => ~(k = transfer.remaining)
      BY <1>3
    <3>2. Skips
      BY <1>a, <1>7, <3>1, Zenon
    <3>3. QED
      BY <3>2 DEF Skips
  <2>2. Mine(transfer') <=> Mine(transfer)
    BY <1>3, <1>4, <1>7 DEF Mine
  <2>3. RingInv(kind, u, left, sent, cut, transfer')
    <3>1. CASE transfer.mine = FALSE
      <4>1. kind.board # "me5" /\ ~Mine(transfer')
        BY <1>1, <1>4, <3>1 DEF Mine
      <4>2. QED
        BY <1>2, <4>1, OtherTransfer
    <3>2. CASE kind.type # "READ"
      <4>1. kind.protocol # "VA_EVENT"
        BY <1>2, <3>2, KindFacts
      <4>2. QED
        BY <1>2, <4>1, OtherTransfer
    <3>3. QED
      BY <1>7, <3>1, <3>2
  <2>4. DriveInv(kind, u, fpga, event, seen, transfer', offs)
    <3>1. Burst(Mine(transfer')) = Burst(Mine(transfer))
      BY <2>2 DEF Burst
    <3>2. QED
      BY <1>1, <1>2, <3>1 DEF DriveInv
  <2>5. Budget(kind, sent, transfer')
    BY <1>4, <1>7 DEF Budget
  <2>6. Typed'
    BY <1>1, <1>2, <1>4, <2>1 DEF Typed, Cleared
  <2>7. QED
    BY <1>1, <1>2, <2>1, <2>3, <2>4, <2>5, <2>6 DEF IInv
<1>8. QED
  <2>1. transfer.mine = TRUE \/ transfer.mine = FALSE
    BY <1>3
  <2>2. k = transfer.remaining \/ k < transfer.remaining
    BY <1>3
  <2>3. QED
    BY <1>5, <1>6, <1>7, <2>1, <2>2

\* uiq_irq of a read queue.
LEMMA UiqIrqReadKeeps ==
  ASSUME IInv, NEW n \in 1 .. MaxWords, NEW stamp \in Stamps, UiqIrqRead(n, stamp)
  PROVE  IInv'
<1> DEFINE first == transfer.remaining = 0
           k == IF u.fill = u.capacity \/ kind.protocol = "LEGACY" THEN n ELSE 1
<1>1. /\ kind' = kind /\ fpga' = fpga /\ event' = event /\ left' = left /\ admin' = admin
      /\ masked' = masked /\ phase' = phase /\ offs' = offs /\ seen /\ seen' = FALSE
      /\ cpltodo' = cpltodo /\ wait' = wait /\ req' = req /\ starved' = starved
      /\ kind.type = "READ" /\ sent + n <= MaxWords
      /\ sent' = sent + k /\ transfer' = [transfer EXCEPT !.remaining = n - k]
      /\ n = transfer.remaining \/ transfer.remaining = 0
  BY DEF UiqIrqRead, waitVars, switchVars, IsRead
<1>2. IF u.fill = u.capacity
      THEN u' = [u EXCEPT !.lost_words_count = @ + k] /\ cut' = cut \cup {"drained"} /\ cpl' = cpl
      ELSE u' = Received(k, n, first, stamp) /\ CompleteFor(u'.fill) /\ cut' = cut
  BY DEF UiqIrqRead, Received
<1>3. Typed /\ RingInv(kind, u, left, sent, cut, transfer) /\ DriveInv(kind, u, fpga, event, seen, transfer, offs)
      /\ WaitInv(kind, u, cpltodo, cpl, wait, req, starved) /\ kind \in Kinds
      /\ event \in BOOLEAN /\ cpl \in Nat /\ kind.board = "me5"
  <2>1. IInv /\ kind \in Kinds /\ event \in BOOLEAN /\ cpl \in Nat /\ kind.board \in {"me5", "me6"}
    BY KindFacts DEF IInv, Typed
  <2>2. kind.board # "me6"
    BY <1>1 DEF IInv, DriveInv
  <2>3. QED
    BY <2>1, <2>2 DEF IInv
<1>4. transfer \in [remaining : Nat, mine : BOOLEAN, first : BOOLEAN] /\ stamp \in BOOLEAN
      /\ sent \in Nat /\ u.fill \in Nat /\ n \in Nat /\ n > 0 /\ transfer.mine = FALSE
  <2>1. transfer \in [remaining : Nat, mine : BOOLEAN, first : BOOLEAN]
    BY <1>3 DEF Typed
  <2>2. sent \in Nat /\ u.fill \in Nat
    BY <1>3 DEF RingInv, RingOK, Ring
  <2>3. transfer.mine = FALSE
    BY <1>1, <1>3 DEF DriveInv
  <2>4. QED
    BY <2>1, <2>2, <2>3, UiqAssumption
<1>5. k \in Nat /\ k > 0 /\ k <= n /\ first \in BOOLEAN
  BY <1>4
<1>6. (u.fill = u.capacity => k = n) /\ (first <=> transfer.remaining = 0)
  OBVIOUS
<1> HIDE DEF k, first
<1>7. /\ transfer' \in [remaining : Nat, mine : BOOLEAN, first : BOOLEAN]
      /\ transfer'.remaining = n - k /\ transfer'.mine = FALSE
  BY <1>1, <1>4, <1>5
<1>8. sent' \in 0 .. MaxWords /\ sent' = sent + k
  BY <1>1, <1>4, <1>5, UiqAssumption
<1>9. Budget(kind, sent', transfer')
  BY <1>7 DEF Budget
<1>10. ASSUME NEW r PROVE DriveInv(kind, r, fpga, event, FALSE, transfer', offs)
  BY <1>1, <1>3, <1>7 DEF DriveInv
<1>11. CASE u.fill = u.capacity
  <2>1. u' = Drained(u, k) /\ cut' = cut \cup {"drained"} /\ cpl' = cpl
    BY <1>2, <1>11 DEF Drained
  <2>2. transfer'.remaining = 0
    BY <1>4, <1>5, <1>6, <1>7, <1>11
  <2>3. /\ RingInv(kind, u', left, sent + k, cut', transfer')
        /\ u'.capacity = u.capacity /\ u'.fill = u.fill /\ u'.is_running = u.is_running
    BY <1>1, <1>3, <1>5, <2>1, <2>2, InvDrained, ZenonT(60)
  <2>4. WaitInv(kind, u', cpltodo, cpl, wait, req, starved)
    BY <1>3, <2>3 DEF WaitInv
  <2>5. cut' \subseteq {"cleared", "shrunk", "drained"}
    BY <1>3, <2>1 DEF Typed
  <2>6. Typed'
    BY <1>1, <1>3, <1>7, <1>8, <2>1, <2>5 DEF Typed, Cleared
  <2>7. QED
    BY <1>1, <1>8, <1>9, <1>10, <2>1, <2>3, <2>4, <2>6 DEF IInv
<1>12. CASE u.fill # u.capacity
  <2>1. u' = Received(k, n, first, stamp) /\ CompleteFor(u'.fill) /\ cut' = cut
    BY <1>2, <1>12
  <2>2. (kind.protocol = "VA_EVENT" /\ u.last_word_was_eop) => first
    BY <1>1, <1>3, <1>6 DEF RingInv
  <2>3. k = n => transfer'.remaining = 0
    BY <1>4, <1>7
  <2>4. /\ RingInv(kind, u', left, sent + k, cut, transfer')
        /\ u'.fill >= u.fill /\ u'.capacity = u.capacity /\ u'.is_running = u.is_running
    BY <1>1, <1>3, <1>4, <1>5, <2>1, <2>2, <2>3, InvWriteAll
  <2>5. u'.fill \in Nat
    BY <2>4 DEF RingInv, RingOK, Ring
  <2>6. cpl' \in Nat /\ cpl' >= cpl /\ ((cpltodo # 0 /\ cpltodo <= u'.fill) => cpl' > 0)
    BY <1>3, <2>1, <2>5, Completes
  <2>7. WaitInv(kind, u', cpltodo, cpl', wait, req, starved)
    BY <1>1, <1>3, <1>4, <2>5, <2>6, ReaderTold
  <2>8. Typed'
    BY <1>1, <1>3, <1>7, <1>8, <2>1, <2>6 DEF Typed, Cleared
  <2>9. QED
    BY <1>1, <1>8, <1>9, <1>10, <2>1, <2>4, <2>7, <2>8 DEF IInv
<1>13. QED
  BY <1>11, <1>12

\* uiq_irq of a write queue.
LEMMA UiqIrqWriteKeeps ==
  ASSUME IInv, UiqIrqWrite
  PROVE  IInv'
<1>1. /\ kind' = kind /\ transfer' = transfer /\ sent' = sent /\ cut' = cut /\ admin' = admin
      /\ cpltodo' = cpltodo /\ wait' = wait /\ req' = req /\ starved' = starved
      /\ masked' = masked /\ phase' = phase /\ offs' = offs /\ seen
      /\ kind.type # "READ" /\ event' = FALSE /\ seen' = FALSE /\ FifoEmpty
  BY DEF UiqIrqWrite, waitVars, switchVars, IsWrite
<1>2. Typed
  BY DEF IInv
<1>3. /\ kind.board = "me6" => seen = FALSE
      /\ kind.board = "me5" => transfer.mine = FALSE
      /\ Burst(FALSE \/ FALSE) + Burst(Mine(transfer)) + FifoDepth
           <= Burst(event \/ seen) + Burst(Mine(transfer))
  <2>1. Burst(FALSE \/ FALSE) = 0 /\ Burst(event \/ seen) = FifoDepth
        /\ Burst(Mine(transfer)) \in {0, FifoDepth}
    BY <1>1 DEF Burst
  <2>2. QED
    BY <2>1, UiqAssumption DEF IInv, DriveInv
<1>4. /\ RingInv(kind, u', left', sent, cut, transfer)
      /\ DriveInv(kind, u', fpga', FALSE, FALSE, transfer, offs)
      /\ WaitInv(kind, u', cpltodo, cpl', wait, req, starved)
      /\ cpl' \in Nat
  BY <1>1, <1>3, FifoEmptyPreserves
<1>5. Typed'
  BY <1>1, <1>2, <1>4 DEF Typed, Cleared
<1>6. QED
  BY <1>1, <1>4, <1>5 DEF IInv

\* The handler of a microEnable 5 board has read the interrupt.
LEMMA UiqIrqSeenKeeps ==
  ASSUME IInv, UiqIrqSeen
  PROVE  IInv'
<1>1. /\ kind' = kind /\ u' = u /\ cpltodo' = cpltodo /\ req' = req /\ starved' = starved
      /\ sent' = sent /\ left' = left /\ cut' = cut /\ admin' = admin /\ wait' = wait /\ cpl' = cpl
      /\ transfer' = transfer /\ fpga' = fpga /\ event' = event
      /\ masked' = masked /\ phase' = phase /\ offs' = offs /\ seen' = TRUE
      /\ kind.board = "me5" /\ (kind.type # "READ" => event)
  BY DEF UiqIrqSeen, waitVars, switchVars, IsWrite
<1>2. DriveInv(kind, u, fpga, event, TRUE, transfer, offs)
  <2>1. DriveInv(kind, u, fpga, event, seen, transfer, offs)
    BY DEF IInv
  <2>2. kind.type # "READ" => Burst(event \/ TRUE) = Burst(event \/ seen)
    BY <1>1 DEF Burst
  <2>3. QED
    BY <1>1, <2>1, <2>2 DEF DriveInv
<1>3. Typed'
  BY <1>1 DEF IInv, Typed, Cleared
<1>4. QED
  BY <1>1, <1>2, <1>3 DEF IInv

\* An interrupt is due no more: nothing else depends on it.
LEMMA LessDue ==
  ASSUME NEW k, NEW r, NEW fp, NEW ev, NEW se, NEW t, NEW o, DriveInv(k, r, fp, ev, se, t, o)
  PROVE  DriveInv(k, r, fp, FALSE, se, t, o)
<1>1. ASSUME k.type # "READ"
      PROVE  fp + Burst(FALSE \/ se) + Burst(Mine(t)) + Burst(r.is_running = FALSE) <= FifoDepth * (1 + o)
  <2>1. /\ fp + Burst(ev \/ se) + Burst(Mine(t)) + Burst(r.is_running = FALSE) <= FifoDepth * (1 + o)
        /\ fp \in Nat /\ o \in Nat
    BY <1>1 DEF DriveInv
  <2>2. /\ Burst(ev \/ se) \in {0, FifoDepth} /\ Burst(Mine(t)) \in {0, FifoDepth}
        /\ Burst(r.is_running = FALSE) \in {0, FifoDepth} /\ Burst(FALSE \/ se) \in {0, FifoDepth}
        /\ Burst(FALSE \/ se) = FifoDepth => Burst(ev \/ se) = FifoDepth
    BY UiqAssumption DEF Burst
  <2>3. QED
    BY <2>1, <2>2, UiqAssumption
<1>2. QED
  BY <1>1 DEF DriveInv

\* is_running is cleared: one more burst, if the queue was running.
LEMMA SwitchedOff ==
  ASSUME NEW k, NEW fp, NEW ev, NEW se, NEW t, DriveInv(k, u, fp, ev, se, t, offs), RingOK(u),
         NEW out, NEW n, NEW c, RingInv(k, u, out, n, c, t), SwitchOff,
         NEW todo, NEW cp, NEW w, NEW q, NEW s, WaitInv(k, u, todo, cp, w, q, s)
  PROVE  /\ DriveInv(k, u', fp, ev, se, t, offs') /\ RingInv(k, u', out, n, c, t)
         /\ WaitInv(k, u', todo, cp, w, q, s)
<1>1. u' = [u EXCEPT !.is_running = FALSE] /\ offs' = IF u.is_running THEN offs + 1 ELSE offs
  BY DEF SwitchOff
<1>2. /\ SameWords(u, u') /\ u'.capacity = u.capacity /\ u'.is_running = FALSE
      /\ u'.last_word_was_eop = u.last_word_was_eop
  BY <1>1, RunningSame
<1>3. RingInv(k, u', out, n, c, t)
  BY <1>2, InvSame
<1>4. u'.fill = u.fill
  BY <1>2 DEF SameWords
<1>5. WaitInv(k, u', todo, cp, w, q, s)
  BY <1>2, <1>4 DEF WaitInv
<1>6. offs \in Nat /\ offs' \in Nat /\ u.is_running \in BOOLEAN
  BY <1>1 DEF DriveInv, RingOK, Ring
<1>7. ASSUME k.type # "READ"
      PROVE  fp + Burst(ev \/ se) + Burst(Mine(t)) + Burst(u'.is_running = FALSE) <= FifoDepth * (1 + offs')
  <2>1. /\ fp + Burst(ev \/ se) + Burst(Mine(t)) + Burst(u.is_running = FALSE) <= FifoDepth * (1 + offs)
        /\ fp \in Nat
    BY <1>7 DEF DriveInv
  <2>2. /\ Burst(ev \/ se) \in {0, FifoDepth} /\ Burst(Mine(t)) \in {0, FifoDepth}
        /\ Burst(u'.is_running = FALSE) = FifoDepth
    BY <1>2 DEF Burst
  <2>3. CASE u.is_running = TRUE
    <3>1. Burst(u.is_running = FALSE) = 0 /\ offs' = offs + 1
      BY <1>1, <2>3 DEF Burst
    <3>2. FifoDepth * (1 + (offs + 1)) = FifoDepth * (1 + offs) + FifoDepth
      BY <1>6, UiqAssumption
    <3>3. FifoDepth * (1 + offs) \in Nat
      BY <1>6, UiqAssumption
    <3>4. QED
      BY <2>1, <2>2, <3>1, <3>2, <3>3, UiqAssumption
  <2>4. CASE u.is_running = FALSE
    <3>1. Burst(u.is_running = FALSE) = FifoDepth /\ offs' = offs
      BY <1>1, <2>4 DEF Burst
    <3>2. QED
      BY <2>1, <2>2, <3>1
  <2>5. QED
    BY <1>6, <2>3, <2>4
<1>8. QED
  BY <1>3, <1>5, <1>6, <1>7 DEF DriveInv

\* Opening, closing and reconfiguring.
LEMMA SwitchKeeps ==
  ASSUME IInv, Switch
  PROVE  IInv'
<1>1. /\ kind' = kind /\ cpltodo' = cpltodo /\ req' = req /\ starved' = starved /\ seen' = seen
      /\ sent' = sent /\ left' = left /\ cut' = cut /\ wait' = wait /\ cpl' = cpl
  BY DEF Switch, Open, CloseIrq, CloseQueue, ReconfigureStop, ReconfigureBoard, ReconfigureStart,
         DesignName, UiqIrqUnwanted, Switching, waitVars, switchVars
<1>2. Typed /\ MaxAdmin \in Nat
  BY UiqAssumption DEF IInv
<1>3. phase' \in {"closed", "open", "closing", "stopped", "fresh"}
  BY <1>2 DEF Switch, Open, CloseIrq, CloseQueue, ReconfigureStop, ReconfigureBoard, ReconfigureStart,
         DesignName, UiqIrqUnwanted, Switching, switchVars, Typed
<1>4. admin' \in 0 .. MaxAdmin
  BY <1>2 DEF Switch, Open, CloseIrq, CloseQueue, ReconfigureStop, ReconfigureBoard, ReconfigureStart,
         DesignName, UiqIrqUnwanted, Requested, Typed
<1>5. event' \in BOOLEAN /\ masked' \in BOOLEAN
  BY <1>2 DEF Switch, Open, CloseIrq, CloseQueue, ReconfigureStop, ReconfigureBoard, ReconfigureStart,
         DesignName, UiqIrqUnwanted, StopIrq, StartIrq, switchVars, Typed
<1>6. /\ RingInv(kind, u, left, sent, cut, transfer) /\ RingOK(u)
      /\ DriveInv(kind, u, fpga, event, seen, transfer, offs)
      /\ WaitInv(kind, u, cpltodo, cpl, wait, req, starved)
      /\ Budget(kind, sent, transfer)
  BY DEF IInv, RingInv
<1>7. DriveInv(kind, u, fpga, FALSE, seen, transfer, offs)
  BY <1>6, LessDue
<1>a. ASSUME transfer' \in [remaining : Nat, mine : BOOLEAN, first : BOOLEAN] PROVE Typed'
  BY <1>1, <1>2, <1>3, <1>4, <1>5, <1>a DEF Typed, Cleared
<1>b. transfer' = transfer => Typed'
  BY <1>2, <1>a DEF Typed
<1>8. CASE UNCHANGED <<u, offs, transfer, fpga>> /\ (event' = event \/ event' = FALSE)
  BY <1>1, <1>6, <1>7, <1>8, <1>b DEF IInv
<1>9. CASE SwitchOff /\ UNCHANGED <<transfer, fpga>> /\ (event' = event \/ event' = FALSE)
  <2>1. DriveInv(kind, u, fpga, event', seen, transfer, offs)
    BY <1>6, <1>7, <1>9
  <2>2. /\ DriveInv(kind, u', fpga, event', seen, transfer, offs')
        /\ RingInv(kind, u', left, sent, cut, transfer)
        /\ WaitInv(kind, u', cpltodo, cpl, wait, req, starved)
    BY <1>6, <1>9, <2>1, SwitchedOff
  <2>3. QED
    BY <1>1, <1>6, <1>9, <1>b, <2>2 DEF IInv
<1>10. CASE ReconfigureBoard
  <2>1. /\ fpga' = 0 /\ event' = FALSE /\ transfer' = [transfer EXCEPT !.remaining = 0]
        /\ u' = u /\ offs' = offs
    BY <1>10 DEF ReconfigureBoard
  <2>2. /\ transfer' \in [remaining : Nat, mine : BOOLEAN, first : BOOLEAN]
        /\ transfer'.remaining = 0 /\ transfer'.mine = transfer.mine
    BY <1>2, <2>1 DEF Typed
  <2>3. ~Mine(transfer')
    BY <2>2 DEF Mine
  <2>4. RingInv(kind, u, left, sent, cut, transfer')
    BY <1>6, <2>2, <2>3 DEF RingInv
  <2>5. DriveInv(kind, u, 0, FALSE, seen, transfer', offs)
    <3>1. /\ Burst(Mine(transfer')) = 0 /\ Burst(Mine(transfer)) \in {0, FifoDepth}
          /\ Burst(FALSE \/ seen) \in {0, FifoDepth} /\ Burst(u.is_running = FALSE) \in {0, FifoDepth}
      BY <2>3 DEF Burst
    <3>2. /\ fpga \in Nat /\ offs \in Nat
          /\ kind.type # "READ" =>
               fpga + Burst(FALSE \/ seen) + Burst(Mine(transfer)) + Burst(u.is_running = FALSE)
                 <= FifoDepth * (1 + offs)
      BY <1>7 DEF DriveInv
    <3>3. kind.type # "READ" =>
               0 + Burst(FALSE \/ seen) + Burst(Mine(transfer')) + Burst(u.is_running = FALSE)
                 <= FifoDepth * (1 + offs)
      BY <3>1, <3>2, UiqAssumption
    <3>4. QED
      BY <1>7, <2>2, <3>3 DEF DriveInv
  <2>6. Budget(kind, sent, transfer')
    <3>1. sent <= MaxWords /\ sent + 0 = sent
      BY <1>2, UiqAssumption DEF Typed
    <3>2. QED
      BY <2>2, <3>1 DEF Budget
  <2>7. QED
    BY <1>1, <1>6, <1>a, <2>1, <2>2, <2>4, <2>5, <2>6 DEF IInv
<1>11. QED
  <2>1. CASE Open \/ ReconfigureStart \/ DesignName \/ UiqIrqUnwanted
    <3>1. UNCHANGED <<u, offs, transfer, fpga>> /\ (event' = event \/ event' = FALSE)
      BY <2>1 DEF Open, ReconfigureStart, DesignName, UiqIrqUnwanted, StartIrq, switchVars
    <3>2. QED
      BY <1>8, <3>1
  <2>2. CASE CloseIrq \/ ReconfigureStop
    <3>1. StopIrq /\ UNCHANGED <<transfer, fpga>>
      BY <2>2 DEF CloseIrq, ReconfigureStop
    <3>2. (SwitchOff /\ event' = FALSE) \/ UNCHANGED <<u, offs, event>>
      BY <3>1 DEF StopIrq
    <3>3. QED
      BY <1>8, <1>9, <3>1, <3>2
  <2>3. CASE CloseQueue
    BY <1>9, <2>3 DEF CloseQueue
  <2>4. QED
    BY <1>10, <2>1, <2>2, <2>3 DEF Switch

\* Every step keeps the invariant.
LEMMA NextKeeps == IInv /\ [Next]_vars => IInv'
<1> SUFFICES ASSUME IInv, [Next]_vars PROVE IInv'
  OBVIOUS
<1>1. CASE \E size \in Sizes : Resize(size)
  BY <1>1, ResizeKeeps
<1>2. CASE Clear
  BY <1>2, ClearKeeps
<1>3. CASE \E n \in Requests : ReadCall(n) \/ WriteCall(n)
  BY <1>3, ReadCallKeeps, WriteCallKeeps
<1>4. CASE Woken \/ Expired
  BY <1>4, WakesKeeps
<1>5. CASE ReadResume
  BY <1>5, ReadResumeKeeps
<1>6. CASE WriteResume
  BY <1>6, WriteResumeKeeps
<1>7. CASE BoardDrains
  BY <1>7, BoardDrainsKeeps
<1>8. CASE \E mine \in BOOLEAN, n \in Packets : IrqHeader(mine, n)
  BY <1>8, IrqHeaderKeeps
<1>9. CASE \E k \in 1 .. transfer.remaining, stamp \in Stamps : IrqPayload(k, stamp)
  BY <1>9, IrqPayloadKeeps
<1>10. CASE \E n \in 1 .. MaxWords, stamp \in Stamps : UiqIrqRead(n, stamp)
  BY <1>10, UiqIrqReadKeeps
<1>11. CASE UiqIrqWrite
  BY <1>11, UiqIrqWriteKeeps
<1>12. CASE UiqIrqSeen
  BY <1>12, UiqIrqSeenKeeps
<1>13. CASE Switch
  BY <1>13, SwitchKeeps
<1>14. CASE UNCHANGED vars
  BY <1>14 DEF vars, IInv, Typed, Cleared
<1>15. QED
  BY <1>1, <1>2, <1>3, <1>4, <1>5, <1>6, <1>7, <1>8, <1>9, <1>10, <1>11, <1>12, <1>13, <1>14 DEF Next

-----------------------------------------------------------------------------
(* A write queue and its board agree, and go on agreeing.                  *)

\* Driven, of a queue with the ring r, fp words in the board's FIFO and the interrupts
\* ev, se and t under way.
Balanced(r, fp, ev, se, t) ==
  /\ r.is_running = TRUE <=> (fp > 0 \/ ev \/ se \/ Mine(t))
  /\ r.fill > 0 => r.is_running = TRUE
  /\ fp > 0 => ~(ev \/ se \/ Mine(t))
  /\ ev \/ se => ~Mine(t)

\* The interrupt of a queue that agrees with its board.
LEMMA FifoEmptyDrives ==
  ASSUME IInv, kind.type # "READ", kind.type # "WRITE_CXP", FifoEmpty,
         u.is_running = TRUE, fpga = 0, NEW t2, ~Mine(t2)
  PROVE  Balanced(u', fpga', FALSE, FALSE, t2)
<1>1. /\ Typed /\ RingInv(kind, u, left, sent, cut, transfer) /\ RingOK(u)
      /\ u.fill \in Nat /\ fpga \in Nat
  BY DEF IInv, RingInv, RingOK, Ring, DriveInv
<1>2. CASE u.fill = 0
  <2>1. u' = [u EXCEPT !.is_running = FALSE, !.read_index = 0] /\ fpga' = fpga
    BY <1>2 DEF FifoEmpty
  <2>2. SameWords(u, u') /\ u'.is_running = FALSE
    BY <1>1, <1>2, <2>1, IdleSame
  <2>3. u'.fill = 0 /\ fpga' = 0
    BY <1>2, <2>1, <2>2 DEF SameWords
  <2>4. QED
    BY <2>2, <2>3 DEF Balanced
<1>3. CASE u.fill # 0
  <2>1. Push(u, TRUE)
    <3>1. Push(u, u.is_running)
      BY <1>3 DEF FifoEmpty
    <3>2. QED
      BY <3>1, Zenon
  <2>2. u.fill > 0
    BY <1>1, <1>3
  <2>a. u'.is_running = TRUE /\ fpga' > fpga
    BY <1>1, <2>1, <2>2, PushKeeps
  <2>3. fpga' > 0
    BY <2>a
  <2>4. QED
    BY <2>a, <2>3 DEF Balanced
<1>4. QED
  BY <1>2, <1>3

\* uiq_write of a queue that agrees with its board.
LEMMA EnqueueDrives ==
  ASSUME IInv, kind.type # "READ", kind.type # "WRITE_CXP", NEW n \in Nat, n > 0,
         GetFreeCapacity(u) >= n, Enqueue(n), Balanced(u, fpga, event, seen, transfer)
  PROVE  Balanced(u', fpga', event, seen, transfer)
<1>1. /\ Typed /\ RingInv(kind, u, left, sent, cut, transfer) /\ kind \in Kinds
      /\ u.fill \in Nat /\ sent \in Nat /\ u.is_running \in BOOLEAN /\ fpga \in Nat
  BY DEF IInv, RingInv, RingOK, Ring, Typed, DriveInv
<1> DEFINE v == Enqueued(n)
<1>2. RingInv(kind, v, left, sent + n, cut, transfer)
      /\ v.fill = u.fill + n /\ v.is_running = u.is_running
  BY <1>1, InvStores
<1>3. IF u.is_running THEN u' = v /\ fpga' = fpga ELSE Push(v, TRUE)
  BY DEF Enqueue, Enqueued
<1> HIDE DEF v
<1>4. CASE u.is_running = TRUE
  <2>1. u' = v /\ fpga' = fpga
    BY <1>3, <1>4
  <2>2. QED
    BY <1>2, <1>4, <2>1 DEF Balanced
<1>5. CASE u.is_running = FALSE
  <2>1. fpga = 0 /\ ~(event \/ seen \/ Mine(transfer))
    BY <1>1, <1>5 DEF Balanced
  <2>2. Push(v, TRUE)
    BY <1>3, <1>5, Zenon
  <2>3. v.fill > 0
    BY <1>1, <1>2
  <2>4. u'.is_running = TRUE /\ fpga' > fpga
    BY <1>1, <1>2, <2>2, <2>3, PushKeeps
  <2>5. fpga' > 0
    BY <2>1, <2>4
  <2>6. QED
    BY <2>1, <2>4, <2>5 DEF Balanced
<1>6. QED
  BY <1>1, <1>4, <1>5

\* The packet of a header is for this queue, or it is not.
LEMMA HeaderDrives ==
  ASSUME IInv, kind.type # "READ", NEW mine \in BOOLEAN, NEW n \in Packets, IrqHeader(mine, n),
         Balanced(u, fpga, event, seen, transfer)
  PROVE  Balanced(u', fpga', event', seen', transfer')
<1>1. /\ u' = u /\ fpga' = fpga /\ seen' = seen /\ transfer.remaining = 0
      /\ event' = (event /\ ~mine) /\ transfer' = [remaining |-> n, mine |-> mine, first |-> TRUE]
      /\ (mine => event) /\ kind.board = "me6"
  BY DEF IrqHeader, IsWrite, switchVars
<1>2. n > 0 /\ seen = FALSE /\ event \in BOOLEAN
  BY <1>1, UiqAssumption DEF IInv, DriveInv, Typed
<1>3. ~Mine(transfer) /\ (Mine(transfer') <=> mine)
  BY <1>1, <1>2 DEF Mine
<1>4. CASE mine = TRUE
  BY <1>1, <1>2, <1>3, <1>4 DEF Balanced
<1>5. CASE mine = FALSE
  BY <1>1, <1>2, <1>3, <1>5 DEF Balanced
<1>6. QED
  BY <1>4, <1>5

\* Words of a packet, for this queue or for another one.
LEMMA PayloadDrives ==
  ASSUME IInv, kind.type # "READ", kind.type # "WRITE_CXP",
         NEW k \in 1 .. transfer.remaining, NEW stamp \in Stamps, IrqPayload(k, stamp),
         Balanced(u, fpga, event, seen, transfer)
  PROVE  Balanced(u', fpga', event', seen', transfer')
<1>1. /\ event' = event /\ seen' = seen /\ kind.board = "me6"
      /\ transfer' = [transfer EXCEPT !.remaining = transfer.remaining - k, !.first = FALSE]
  BY DEF IrqPayload, switchVars
<1>2. /\ transfer \in [remaining : Nat, mine : BOOLEAN, first : BOOLEAN]
      /\ event \in BOOLEAN /\ fpga \in Nat /\ u.is_running \in BOOLEAN
  BY DEF IInv, Typed, RingInv, RingOK, Ring, DriveInv
<1>3. /\ transfer'.remaining = transfer.remaining - k /\ transfer'.mine = transfer.mine
      /\ transfer.remaining \in Nat /\ k \in Nat /\ k > 0
  BY <1>1, <1>2
<1> DEFINE Fills == /\ u' = WriteAllFromGrabber(kind.protocol, u,
                         BoardWords(k, transfer.remaining, transfer.first, stamp))
                    /\ sent' = sent + k /\ CompleteFor(u'.fill) /\ UNCHANGED <<fpga, left>>
           Empties == FifoEmpty /\ UNCHANGED sent
           Skips == UNCHANGED <<u, cpl, sent, left, fpga>>
<1>4. (CASE transfer.mine /\ kind.type = "READ" -> Fills
         [] transfer.mine /\ kind.type # "READ" /\ k = transfer.remaining -> Empties
         [] ~transfer.mine \/ (kind.type # "READ" /\ k < transfer.remaining) -> Skips)
  BY DEF IrqPayload, IsRead, IsWrite
<1> HIDE DEF Fills, Empties, Skips
<1>5. CASE transfer.mine = TRUE /\ k = transfer.remaining
  <2>1. Mine(transfer) /\ ~Mine(transfer')
    BY <1>3, <1>5 DEF Mine
  <2>2. ~event /\ ~seen /\ fpga = 0 /\ u.is_running = TRUE
    BY <1>2, <2>1 DEF Balanced
  <2>3. FifoEmpty
    <3>1. ~(k < transfer.remaining)
      BY <1>3, <1>5
    <3>2. Empties
      BY <1>4, <1>5, <3>1, Zenon
    <3>3. QED
      BY <3>2 DEF Empties
  <2>4. Balanced(u', fpga', FALSE, FALSE, transfer')
    BY <2>1, <2>2, <2>3, FifoEmptyDrives
  <2>5. event' = FALSE /\ seen' = FALSE
    <3>1. seen = FALSE
      BY <1>1 DEF IInv, DriveInv
    <3>2. QED
      BY <1>1, <1>2, <2>2, <3>1
  <2>6. QED
    BY <2>4, <2>5
<1>6. CASE ~(transfer.mine = TRUE /\ k = transfer.remaining)
  <2>1. ~transfer.mine \/ k < transfer.remaining
    BY <1>2, <1>3, <1>6
  <2>2. k < transfer.remaining => ~(k = transfer.remaining)
    BY <1>3
  <2>3. Skips
    BY <1>4, <2>1, <2>2, Zenon
  <2>4. u' = u /\ fpga' = fpga
    BY <2>3 DEF Skips
  <2>5. Mine(transfer') <=> Mine(transfer)
    BY <1>2, <1>3, <2>1 DEF Mine
  <2>6. QED
    BY <1>1, <2>4, <2>5 DEF Balanced
<1>7. QED
  BY <1>5, <1>6

\* What is switched, acknowledged or reconfigured while the queue is not in use.
LEMMA IdleSwitchDrives ==
  ASSUME IInv, Switch, Balanced(u, fpga, event, seen, transfer),
         ~(fpga > 0 \/ event \/ seen \/ Mine(transfer))
  PROVE  Balanced(u', fpga', event', seen', transfer')
<1>1. /\ RingOK(u) /\ u.is_running = FALSE /\ ~(u.fill > 0) /\ fpga \in Nat
      /\ transfer \in [remaining : Nat, mine : BOOLEAN, first : BOOLEAN]
  BY DEF IInv, RingInv, RingOK, Ring, DriveInv, Typed, Balanced
<1>2. seen' = seen /\ (event' = event \/ event' = FALSE) /\ (fpga' = fpga \/ fpga' = 0)
  BY DEF Switch, Open, CloseIrq, CloseQueue, ReconfigureStop, ReconfigureBoard, ReconfigureStart,
         DesignName, UiqIrqUnwanted, Switching, StopIrq, StartIrq, switchVars
<1>3. transfer' = transfer \/ transfer' = [transfer EXCEPT !.remaining = 0]
  BY DEF Switch, Open, CloseIrq, CloseQueue, ReconfigureStop, ReconfigureBoard, ReconfigureStart,
         DesignName, UiqIrqUnwanted
<1>4. ~Mine(transfer')
  BY <1>1, <1>3 DEF Mine
<1>5. u' = u \/ u' = [u EXCEPT !.is_running = FALSE]
  BY DEF Switch, Open, CloseIrq, CloseQueue, ReconfigureStop, ReconfigureBoard, ReconfigureStart,
         DesignName, UiqIrqUnwanted, StopIrq, StartIrq, SwitchOff
<1>6. u'.is_running = FALSE /\ ~(u'.fill > 0)
  BY <1>1, <1>5, RunningSame DEF SameWords
<1>7. ~(fpga' > 0) /\ ~event' /\ ~seen'
  BY <1>2
<1>8. QED
  BY <1>4, <1>6, <1>7 DEF Balanced

\* Every step of a write queue that agrees with its board.
LEMMA BalanceKept ==
  ASSUME IInv, [Next]_vars, kind.type # "READ", kind.type # "WRITE_CXP",
         Balanced(u, fpga, event, seen, transfer),
         Switch => ~(fpga > 0 \/ event \/ seen \/ Mine(transfer))
  PROVE  Balanced(u', fpga', event', seen', transfer')
<1>1. /\ Typed /\ RingInv(kind, u, left, sent, cut, transfer) /\ RingOK(u)
      /\ u.fill \in Nat /\ fpga \in Nat /\ u.is_running \in BOOLEAN
      /\ kind.board = "me5" => transfer.mine = FALSE
  BY DEF IInv, RingInv, RingOK, Ring, DriveInv
<1>2. ASSUME NEW size \in Sizes, Resize(size) PROVE Balanced(u', fpga', event', seen', transfer')
  <2>1. /\ u' = ReplaceBuffer(u, size)
        /\ fpga' = fpga /\ event' = event /\ seen' = seen /\ transfer' = transfer
    BY <1>2 DEF Resize, boardVars
  <2>2. Shrinks(u, size, cut, cut')
    BY <1>2 DEF Resize, Shrinks
  <2>3. u'.fill = Least(u.fill, size) /\ u'.is_running = u.is_running
    BY <1>1, <2>1, <2>2, InvKeeps
  <2>4. u'.fill > 0 => u.fill > 0
    BY <1>1, <2>3, UiqAssumption DEF Least
  <2>5. QED
    BY <2>1, <2>3, <2>4 DEF Balanced
<1>3. CASE Clear
  <2>1. u' = Reset(u) /\ fpga' = fpga /\ event' = event /\ seen' = seen /\ transfer' = transfer
    BY <1>3 DEF Clear, boardVars
  <2>2. u'.fill = 0 /\ u'.is_running = u.is_running
    BY <1>1, <2>1, InvReset
  <2>3. QED
    BY <2>1, <2>2 DEF Balanced
<1>4. ASSUME NEW n \in Requests, WriteCall(n) PROVE Balanced(u', fpga', event', seen', transfer')
  <2>1. event' = event /\ seen' = seen /\ transfer' = transfer /\ n \in Nat /\ n > 0
    BY <1>4, UiqAssumption DEF WriteCall
  <2>2. GetFreeCapacity(u) \in Int
    BY <1>1 DEF GetFreeCapacity, RingOK, Ring
  <2>3. (u' = u /\ fpga' = fpga) \/ (Enqueue(n) /\ GetFreeCapacity(u) >= n)
    BY <1>4, <2>1, <2>2 DEF WriteCall
  <2>4. QED
    BY <2>1, <2>3, EnqueueDrives
<1>5. CASE WriteResume
  <2>1. event' = event /\ seen' = seen /\ transfer' = transfer
    BY <1>5 DEF WriteResume
  <2>2. req \in Nat /\ req > 0
    <3>1. wait # "none"
      BY <1>5 DEF WriteResume
    <3>2. req \in Requests
      BY <3>1 DEF IInv, WaitInv
    <3>3. QED
      BY <3>2, UiqAssumption
  <2>3. (u' = u /\ fpga' = fpga) \/ (Enqueue(req) /\ GetFreeCapacity(u) >= req)
    BY <1>5 DEF WriteResume
  <2>4. QED
    BY <2>1, <2>2, <2>3, EnqueueDrives
<1>6. CASE BoardDrains
  <2>1. /\ fpga > 0 /\ fpga' = 0 /\ event' = TRUE
        /\ u' = u /\ seen' = seen /\ transfer' = transfer
    BY <1>6 DEF BoardDrains
  <2>2. QED
    BY <2>1 DEF Balanced
<1>7. ASSUME NEW mine \in BOOLEAN, NEW n \in Packets, IrqHeader(mine, n)
      PROVE  Balanced(u', fpga', event', seen', transfer')
  BY <1>7, HeaderDrives
<1>8. ASSUME NEW k \in 1 .. transfer.remaining, NEW stamp \in Stamps, IrqPayload(k, stamp)
      PROVE  Balanced(u', fpga', event', seen', transfer')
  BY <1>8, PayloadDrives
<1>9. CASE UiqIrqSeen
  <2>1. seen' = TRUE /\ event /\ u' = u /\ fpga' = fpga /\ event' = event /\ transfer' = transfer
    BY <1>9 DEF UiqIrqSeen, IsWrite, switchVars
  <2>2. QED
    BY <2>1 DEF Balanced
<1>10. CASE UiqIrqWrite
  <2>1. seen /\ seen' = FALSE /\ event' = FALSE /\ FifoEmpty /\ transfer' = transfer
    BY <1>10 DEF UiqIrqWrite
  <2>2. u.is_running = TRUE /\ fpga = 0 /\ ~Mine(transfer)
    BY <1>1, <2>1 DEF Balanced
  <2>3. Balanced(u', fpga', FALSE, FALSE, transfer)
    BY <2>1, <2>2, FifoEmptyDrives
  <2>4. QED
    BY <2>1, <2>3
<1>11. CASE Switch
  BY <1>11, IdleSwitchDrives
<1>12. CASE UNCHANGED <<u, fpga, event, seen, transfer>>
  BY <1>12 DEF Balanced
<1>13. QED
  <2>1. CASE Woken \/ Expired \/ UNCHANGED vars
    BY <1>12, <2>1 DEF Woken, Expired, vars, boardVars
  <2>2. ~ReadResume /\ (\A n : ~ReadCall(n)) /\ (\A n, stamp : ~UiqIrqRead(n, stamp))
    BY DEF ReadResume, ReadCall, UiqIrqRead, IsRead
  <2>3. QED
    BY <1>2, <1>3, <1>4, <1>5, <1>6, <1>7, <1>8, <1>9, <1>10, <1>11, <2>1, <2>2 DEF Next

\* The same, said of Driven.
LEMMA StaysDriven ==
  IInv /\ [Next]_vars =>
    [IsWrite /\ kind.type # "WRITE_CXP" /\ Driven => Driven' \/ (InUse /\ Switch)]_vars
<1> SUFFICES ASSUME IInv, [Next]_vars, kind.type # "READ", kind.type # "WRITE_CXP", Driven,
                    ~(InUse /\ Switch)
             PROVE  Driven'
  BY DEF IsWrite
<1>1. Reporting <=> (event \/ seen \/ Mine(transfer))
  BY DEF Reporting, Mine
<1>2. InUse <=> (fpga > 0 \/ event \/ seen \/ Mine(transfer))
  BY <1>1 DEF InUse
<1>3. u.is_running \in BOOLEAN
  BY DEF IInv, RingInv, RingOK, Ring
<1>4. Balanced(u, fpga, event, seen, transfer)
  BY <1>1, <1>2, <1>3 DEF Driven, Balanced, Mine
<1>5. Balanced(u', fpga', event', seen', transfer')
  BY <1>2, <1>4, BalanceKept
<1>6. u'.is_running \in BOOLEAN
  <2>1. IInv'
    BY NextKeeps
  <2>2. QED
    BY <2>1 DEF IInv, RingInv, RingOK, Ring
<1>7. QED
  BY <1>5, <1>6 DEF Balanced, Driven, InUse, Reporting, Mine

-----------------------------------------------------------------------------
(* The theorems.                                                           *)

\* The invariant always holds.
LEMMA Invariance == Spec => []IInv
  BY InitIInv, NextKeeps, PTL DEF Spec

\* All variables keep their types: whatever is stored, lost, cleared or resized, the
\* indices of uiq_base stay inside its buffer.
THEOREM UiqTypeCorrect == Spec => []TypeOK
  BY Invariance, TypesHold, PTL

\* lost_words_count counts every word that is neither stored nor handed on, whatever
\* the order of stores, reads, resizes and clear requests.
THEOREM WordsAreAccounted == Spec => []AllWordsAccounted
<1>1. ASSUME IInv PROVE AllWordsAccounted
  <2> SUFFICES ASSUME kind.type # "WRITE_CXP"
               PROVE  /\ Missing <= u.lost_words_count
                      /\ "shrunk" \notin cut => Missing = u.lost_words_count
    BY DEF AllWordsAccounted
  <2>1. Accounted(u, left.count, sent, Exact(cut))
    BY <1>1 DEF IInv, RingInv, Fed
  <2>2. QED
    BY <2>1 DEF Accounted, Exact, Missing
<1>2. QED
  BY <1>1, Invariance, PTL

\* The words leave the ring in the order they came, each timestamp behind its word, and
\* UIQ_CONTROL_DATALOSS marks exactly the places where words are missing.
THEOREM StreamIsIntact == Spec => []StreamIntact
<1>1. ASSUME IInv PROVE StreamIntact
  <2> SUFFICES ASSUME kind.type # "WRITE_CXP", NEW i \in 1 .. u.fill
               PROVE  LET w == Stream[i]
                          v == Stream[i + 1]
                      IN  /\ v.seq > w.seq \/ (v.seq = w.seq /\ v.part > w.part)
                          /\ cut = {} => \/ Follows(w, v) /\ ~v.dataloss
                                         \/ Gap(w, v) /\ IsRead /\ (kind.protocol = "RAW" \/ v.dataloss)
    BY DEF StreamIntact
  <2> DEFINE w == StreamAt(u, left.last, i - 1)
             v == StreamAt(u, left.last, i)
  <2>1. StreamOK(kind, u, left.last, sent, Uncut(cut)) /\ RingOK(u) /\ left.last \in Word
    BY <1>1 DEF IInv, RingInv, Fed, StreamOK
  <2>2. Contents(u) \in Seq(Word) /\ Len(Contents(u)) = u.fill /\ u.fill \in Nat
    BY <2>1, ContentsSeq DEF RingOK, Ring
  <2>3. Stream[i] = w /\ Stream[i + 1] = v
    <3> DEFINE s == Contents(u)
               l == left.last
    <3> HIDE DEF s, l
    <3>1. s \in Seq(Word) /\ l \in Word /\ i \in 1 .. Len(s) /\ Stream = <<l>> \o s
      BY <2>1, <2>2 DEF s, l, Stream
    <3>2. (<<l>> \o s)[i + 1] = s[i]
      BY <3>1
    <3>3. (<<l>> \o s)[i] = IF i = 1 THEN l ELSE s[i - 1]
      BY <3>1
    <3>4. QED
      BY <3>1, <3>2, <3>3 DEF StreamAt, s, l
  <2>4. Beyond(w, v) /\ (cut = {} => InLine(kind, w, v))
    BY <2>1 DEF StreamOK, Uncut
  <2>5. v.dataloss \in BOOLEAN
    <3>1. i \in 0 .. u.fill
      BY <2>2
    <3>2. v \in Word
      BY <2>1, <3>1, StreamWords
    <3>3. QED
      BY <3>2 DEF Word
  <2> HIDE DEF w, v
  <2>6. QED
    BY <2>3, <2>4, <2>5 DEF Beyond, InLine, IsRead
<1>2. QED
  BY <1>1, Invariance, PTL

\* After a loss an event queue resumes at the start of a packet.
THEOREM PacketsAreWhole == Spec => []PacketsNotTorn
<1>1. ASSUME IInv PROVE PacketsNotTorn
  <2>1. ASSUME kind.protocol = "VA_EVENT" PROVE NotTorn(u)
    <3>1. kind.type # "WRITE_CXP"
      BY <1>1, <2>1, KindFacts DEF IInv, Typed
    <3>2. QED
      BY <1>1, <2>1, <3>1 DEF IInv, RingInv, Fed
  <2>2. QED
    BY <2>1 DEF PacketsNotTorn, NotTorn
<1>2. QED
  BY <1>1, Invariance, PTL

\* No write, wakeup, request or interrupt makes a write queue and its board disagree: only
\* a switch that finds the queue in use does.
THEOREM WriteQueueIsDriven == Spec => WriteQueueDriven
<1>1. IInv /\ [Next]_vars => [IsWrite /\ kind.type # "WRITE_CXP" /\ Driven => Driven' \/ (InUse /\ Switch)]_vars
  BY StaysDriven
<1>2. QED
  BY <1>1, Invariance, PTL DEF Spec, WriteQueueDriven

\* men_uiq_push never gives the board more words than its FIFO has places, but for one
\* burst each time the queue was switched off while the board was still busy.
THEOREM FpgaFifoIsBounded == Spec => []FpgaFifoBounded
<1>1. ASSUME IInv PROVE FpgaFifoBounded
  <2>1. DriveInv(kind, u, fpga, event, seen, transfer, offs) /\ FifoDepth \in Nat
    BY <1>1, UiqAssumption DEF IInv
  <2>2. fpga \in Nat /\ offs \in Nat /\ FifoDepth * (1 + offs) \in Nat
    <3>1. fpga \in Nat /\ offs \in Nat
      BY <2>1 DEF DriveInv
    <3>2. QED
      BY <2>1, <3>1
  <2>3. CASE kind.type = "READ"
    <3>1. fpga = 0
      BY <2>1, <2>3 DEF DriveInv
    <3>2. QED
      BY <2>2, <3>1 DEF FpgaFifoBounded
  <2>4. CASE kind.type # "READ"
    <3>1. fpga + Burst(event \/ seen) + Burst(Mine(transfer)) + Burst(u.is_running = FALSE)
            <= FifoDepth * (1 + offs)
      BY <2>1, <2>4 DEF DriveInv
    <3>2. /\ Burst(event \/ seen) \in Nat /\ Burst(Mine(transfer)) \in Nat
          /\ Burst(u.is_running = FALSE) \in Nat
      BY <2>1 DEF Burst
    <3>3. QED
      BY <2>2, <3>1, <3>2 DEF FpgaFifoBounded
  <2>5. QED
    BY <2>3, <2>4
<1>2. QED
  BY <1>1, Invariance, PTL

\* No wakeup of a sleeping client is lost, except to a resize.
THEOREM WakeupsAreNotMissed == Spec => []NoMissedWakeup
<1>1. ASSUME IInv PROVE NoMissedWakeup
  <2>1. WaitInv(kind, u, cpltodo, cpl, wait, req, starved) /\ u.fill \in Nat
    BY <1>1 DEF IInv, RingInv, RingOK, Ring
  <2>2. QED
    BY <2>1 DEF WaitInv, NoMissedWakeup, IsRead, IsWrite
<1>2. QED
  BY <1>1, Invariance, PTL

=============================================================================
