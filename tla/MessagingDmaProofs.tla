------------------------- MODULE MessagingDmaProofs -------------------------
(***************************************************************************)
(* The messaging DMA, for every number and size of pages, every width of   *)
(* the count register and every interleaving of the board, the event       *)
(* interrupt and the thread that sets up and tears down: driver and board  *)
(* agree about the ring (RingAgreed).                                      *)
(***************************************************************************)
EXTENDS MessagingDma, TLAPS

-----------------------------------------------------------------------------
(* Places in the ring.                                                     *)

\* A distance from the read offset that has gone round at most once.
Wrap(x) == IF x < Capacity THEN x ELSE x - Capacity

LEMMA CapacityNat == Capacity \in Nat /\ Capacity >= PageWords
<1>1. PageWords \in Nat /\ NumBuffers \in Nat /\ NumBuffers >= 1
  BY MessagingAssumption
<1>2. PICK m \in Nat : NumBuffers = m + 1
  BY <1>1
<1>3. NumBuffers * PageWords = m * PageWords + PageWords /\ m * PageWords \in Nat
  BY <1>1, <1>2
<1>4. QED
  BY <1>1, <1>3 DEF Capacity

\* A remainder is unique.
LEMMA RemainderUnique ==
  ASSUME NEW p \in Nat \ {0}, NEW q \in Nat
  PROVE  (p * q) % p = 0
  OBVIOUS

LEMMA QuotientRemainder ==
  ASSUME NEW p \in Nat \ {0}, NEW o \in Nat
  PROVE  \E q \in Nat : o = p * q + (o % p) /\ o % p \in 0 .. p - 1
<1>1. o \div p \in Nat /\ o % p \in 0 .. p - 1 /\ o = p * (o \div p) + (o % p)
  OBVIOUS
<1>2. QED
  BY <1>1

\* The page of an offset ends inside the ring.
LEMMA PageInRing ==
  ASSUME NEW o \in 0 .. Capacity - 1
  PROVE  /\ o % PageWords \in 0 .. PageWords - 1
         /\ (o - (o % PageWords)) + PageWords <= Capacity
<1> DEFINE p == PageWords
           r == o % p
<1>1. p \in Nat \ {0} /\ NumBuffers \in Nat /\ Capacity \in Nat /\ o \in Nat
  BY MessagingAssumption, CapacityNat
<1>2. PICK q \in Nat : o = p * q + r /\ r \in 0 .. p - 1
  BY <1>1, QuotientRemainder
<1> HIDE DEF p, r
<1>3. q < NumBuffers
  <2>1. SUFFICES ASSUME q >= NumBuffers PROVE FALSE
    BY <1>1
  <2>2. PICK e \in Nat : q = NumBuffers + e
    BY <1>1, <2>1
  <2>3. p * q = NumBuffers * p + p * e /\ p * e \in Nat
    BY <1>1, <2>2
  <2>4. Capacity = NumBuffers * p
    BY DEF Capacity, p
  <2>5. QED
    BY <1>1, <1>2, <2>3, <2>4
<1>4. PICK e \in Nat : NumBuffers = q + 1 + e
  BY <1>1, <1>3
<1>5. NumBuffers * p = p * q + p + p * e /\ p * e \in Nat
  BY <1>1, <1>4
<1>6. Capacity = NumBuffers * p
  BY DEF Capacity, p
<1>7. (o - r) + p <= Capacity
  <2>1. p * q \in Nat
    BY <1>1
  <2>2. QED
    BY <1>1, <1>2, <1>5, <1>6, <2>1
<1>8. QED
  BY <1>2, <1>7 DEF p, r

\* A transmission that fits into its page: the place after it.
LEMMA PlaceAfter ==
  ASSUME NEW o \in 0 .. Capacity - 1, NEW n \in 2 .. PageWords,
         (o % PageWords) + n <= PageWords
  PROVE  /\ BoardPlace(o + n) \in o + n .. o + n + 1
         /\ BoardPlace(o + n) - o <= PageWords
         /\ BoardPlace(o + n) <= Capacity
         /\ o + n <= Capacity
         /\ BoardPlace(o + n) % Capacity = Wrap(BoardPlace(o + n))
         /\ NextOffset(o, n) = Wrap(BoardPlace(o + n))
         /\ Valid(o, n)
<1> DEFINE p == PageWords
           r == o % p
           end == o + n
           next == BoardPlace(end)
<1>1. p \in Nat \ {0} /\ p > 2 /\ Capacity \in Nat /\ Capacity >= p /\ o \in Nat /\ n \in Nat
  BY MessagingAssumption, CapacityNat
<1>2. r \in 0 .. p - 1 /\ (o - r) + p <= Capacity
  BY PageInRing
<1>3. end % p = p - 1 => r + n # p
  <2>1. ASSUME r + n = p PROVE end % p = 0
    <3>1. PICK q \in Nat : o = p * q + r
      BY <1>1, QuotientRemainder
    <3> HIDE DEF r, p
    <3>2. p * (q + 1) = p * q + p /\ p * q \in Nat
      BY <1>1
    <3>3. end = p * (q + 1)
      BY <1>1, <1>2, <2>1, <3>1, <3>2
    <3>4. PICK z \in Nat : z = q + 1
      OBVIOUS
    <3>5. (p * z) % p = 0
      BY <1>1, RemainderUnique
    <3>6. QED
      BY <3>3, <3>4, <3>5
  <2> DEFINE m == end % p
  <2> HIDE DEF m, p, r
  <2>2. QED
    BY <1>1, <2>1 DEF m
<1>4. end % p \in 0 .. p - 1
  BY <1>1
<1>5. next = IF end % p = p - 1 THEN end + 1 ELSE end
  BY DEF BoardPlace
<1>6. r + n <= p
  OBVIOUS
<1>7. NextOffset(o, n) = (IF p - (end % p) = 1 THEN end + 1 ELSE end) % Capacity
  BY DEF NextOffset
<1>8. Valid(o, n) <=> r # p - 1 /\ n # 0 /\ r + n <= p
  BY DEF Valid
<1> DEFINE m == end % p
<1> HIDE DEF next, r, m, p
<1>9. next \in end .. end + 1 /\ next - o <= p /\ next <= Capacity /\ end <= Capacity
  BY <1>1, <1>2, <1>3, <1>4, <1>5, <1>6 DEF m
<1>10. NextOffset(o, n) = next % Capacity
  BY <1>1, <1>4, <1>5, <1>7 DEF m
<1>11. next % Capacity = Wrap(next)
  <2>1. next \in Nat /\ Capacity \in Nat \ {0}
    BY <1>1, <1>9
  <2>2. CASE next < Capacity
    BY <2>1, <2>2 DEF Wrap
  <2>3. CASE next = Capacity
    BY <2>1, <2>3 DEF Wrap
  <2>4. QED
    BY <1>9, <2>1, <2>2, <2>3
<1>12. Valid(o, n)
  BY <1>1, <1>2, <1>6, <1>8
<1>13. QED
  BY <1>9, <1>10, <1>11, <1>12 DEF next, p

-----------------------------------------------------------------------------
(* The transmissions that the ring holds.                                  *)

RingWord == [id : Nat, at : Nat, len : Nat]
RingPages == [0 .. Capacity - 1 -> RingWord]

\* Transmission i lies complete at the offset o.
Stored(r, o, i) ==
  /\ r[o].len \in 2 .. PageWords
  /\ (o % PageWords) + r[o].len <= PageWords
  /\ \A k \in 0 .. r[o].len - 1 : r[o + k] = [id |-> i, at |-> k, len |-> r[o].len]

\* How far the transmission at the offset o moves the engine on.
Span(r, o) == BoardPlace(o + r[o].len) - o

\* The transmissions h + 1 .. s lie one behind the other from the read offset ro to the
\* place `at' of the engine; transmission i is the distance d[i] away from ro.
Linked(r, d, h, s, ro, at) ==
  /\ d \in [Nat -> Nat] /\ h \in Nat /\ s \in Nat /\ h <= s
  /\ ro \in 0 .. Capacity - 1
  /\ d[h + 1] = 0
  /\ \A i, j \in h + 1 .. s + 1 : i <= j => d[i] <= d[j]
  /\ d[s + 1] <= Capacity
  /\ at = Wrap(ro + d[s + 1])
  /\ \A i \in h + 1 .. s :
       /\ Stored(r, Wrap(ro + d[i]), i)
       /\ d[i + 1] = d[i] + Span(r, Wrap(ro + d[i]))

\* A place in the ring, going round at most once.
LEMMA WrapInRing ==
  ASSUME NEW x \in Nat, x < 2 * Capacity
  PROVE  Wrap(x) \in 0 .. Capacity - 1
  BY CapacityNat DEF Wrap

\* A transmission that lies complete at an offset.
LEMMA StoredSpan ==
  ASSUME NEW r \in RingPages, NEW o \in 0 .. Capacity - 1, NEW i \in Nat, Stored(r, o, i)
  PROVE  /\ r[o].len \in 2 .. PageWords /\ o + r[o].len <= Capacity
         /\ Span(r, o) \in r[o].len .. r[o].len + 1
         /\ Span(r, o) <= PageWords
         /\ o + Span(r, o) <= Capacity
         /\ NextOffset(o, r[o].len) = Wrap(o + Span(r, o))
         /\ Valid(o, r[o].len)
         /\ r[o].at = 0
<1> DEFINE n == r[o].len
<1>1. n \in 2 .. PageWords /\ (o % PageWords) + n <= PageWords
      /\ \A k \in 0 .. n - 1 : r[o + k] = [id |-> i, at |-> k, len |-> n]
  BY DEF Stored
<1>2. o \in Nat /\ Capacity \in Nat /\ PageWords \in Nat
  BY CapacityNat, MessagingAssumption
<1>3. r[o].at = 0
  <2>1. 0 \in 0 .. n - 1 /\ o + 0 = o
    BY <1>1, <1>2
  <2>2. r[o] = [id |-> i, at |-> 0, len |-> n]
    <3> HIDE DEF n
    <3>1. r[o + 0] = [id |-> i, at |-> 0, len |-> n]
      BY <1>1, <2>1
    <3>2. QED
      BY <2>1, <3>1
  <2>3. QED
    BY <2>2
<1>4. Span(r, o) = BoardPlace(o + n) - o
  BY DEF Span
<1> HIDE DEF n
<1>5. /\ BoardPlace(o + n) \in o + n .. o + n + 1
      /\ BoardPlace(o + n) - o <= PageWords
      /\ BoardPlace(o + n) <= Capacity
      /\ o + n <= Capacity
      /\ NextOffset(o, n) = Wrap(BoardPlace(o + n))
      /\ Valid(o, n)
  BY <1>1, PlaceAfter
<1> DEFINE b == BoardPlace(o + n)
<1> HIDE DEF b
<1>6. o + Span(r, o) = b /\ Span(r, o) \in n .. n + 1 /\ Span(r, o) <= PageWords
      /\ b <= Capacity /\ o + n <= Capacity
  BY <1>1, <1>2, <1>4, <1>5 DEF b
<1>7. NextOffset(o, n) = Wrap(o + Span(r, o))
  BY <1>5, <1>6 DEF b
<1>8. QED
  BY <1>1, <1>3, <1>5, <1>6, <1>7 DEF n

\* After messaging_dma_init_buffers nothing is outstanding.
LEMMA LinkedEmpty ==
  ASSUME NEW r, NEW s \in Nat
  PROVE  Linked(r, [i \in Nat |-> 0], s, s, 0, 0)
<1> DEFINE d == [i \in Nat |-> 0]
<1>1. d \in [Nat -> Nat] /\ \A i \in Nat : d[i] = 0
  OBVIOUS
<1>2. Capacity \in Nat /\ Capacity > 0 /\ s + 1 \in Nat
  BY CapacityNat, MessagingAssumption
<1> HIDE DEF d
<1>3. d[s + 1] = 0 /\ \A i, j \in s + 1 .. s + 1 : d[i] <= d[j]
  BY <1>1, <1>2
<1>4. 0 = Wrap(0 + d[s + 1]) /\ 0 \in 0 .. Capacity - 1
  BY <1>2, <1>3 DEF Wrap
<1>5. s + 1 .. s = {}
  OBVIOUS
<1>6. Linked(r, d, s, s, 0, 0)
  BY <1>1, <1>2, <1>3, <1>4, <1>5 DEF Linked
<1>7. QED
  BY <1>6 DEF d

\* The oldest transmission lies at the read offset.
LEMMA LinkedHead ==
  ASSUME NEW r \in RingPages, NEW d, NEW h, NEW s, NEW ro, NEW at,
         Linked(r, d, h, s, ro, at), h < s
  PROVE  /\ Stored(r, ro, h + 1)
         /\ d[h + 2] = Span(r, ro)
         /\ h + 1 \in Nat /\ ro \in 0 .. Capacity - 1
<1>1. h \in Nat /\ s \in Nat /\ ro \in 0 .. Capacity - 1 /\ d[h + 1] = 0 /\ h + 1 \in h + 1 .. s
  BY DEF Linked
<1>2. Wrap(ro + d[h + 1]) = ro
  BY <1>1, CapacityNat DEF Wrap
<1>3. Stored(r, Wrap(ro + d[h + 1]), h + 1)
      /\ d[(h + 1) + 1] = d[h + 1] + Span(r, Wrap(ro + d[h + 1]))
  BY <1>1 DEF Linked
<1>4. Stored(r, ro, h + 1) /\ d[h + 2] = 0 + Span(r, ro)
  <2>1. (h + 1) + 1 = h + 2
    BY <1>1
  <2>2. QED
    BY <1>1, <1>2, <1>3, <2>1
<1>5. Span(r, ro) \in Nat
  <2>1. Span(r, ro) \in r[ro].len .. r[ro].len + 1 /\ r[ro].len \in 2 .. PageWords
    BY <1>1, <1>4, StoredSpan
  <2>2. QED
    BY <2>1, MessagingAssumption
<1>6. QED
  BY <1>1, <1>4, <1>5

\* The distances after the oldest transmission has been handed on.
Fetched(d, h, s) == [i \in Nat |-> IF i \in h + 2 .. s + 1 THEN d[i] - d[h + 2] ELSE 0]

\* get_next_transmission moves the read offset to the next transmission.
LEMMA LinkedGet ==
  ASSUME NEW r \in RingPages, NEW d, NEW h, NEW s, NEW ro, NEW at,
         Linked(r, d, h, s, ro, at), h < s
  PROVE  Linked(r, Fetched(d, h, s), h + 1, s, NextOffset(ro, r[ro].len), at)
<1> DEFINE x == d[h + 2]
           e == [i \in Nat |-> IF i \in h + 2 .. s + 1 THEN d[i] - x ELSE 0]
           ro2 == NextOffset(ro, r[ro].len)
           c == Capacity
<1>1. /\ d \in [Nat -> Nat] /\ h \in Nat /\ s \in Nat /\ h + 1 <= s
      /\ ro \in 0 .. c - 1 /\ c \in Nat
      /\ \A i, j \in h + 1 .. s + 1 : i <= j => d[i] <= d[j]
      /\ d[s + 1] <= c /\ at = Wrap(ro + d[s + 1])
      /\ \A i \in h + 1 .. s :
           /\ Stored(r, Wrap(ro + d[i]), i)
           /\ d[i + 1] = d[i] + Span(r, Wrap(ro + d[i]))
  BY CapacityNat DEF Linked
<1>2. Stored(r, ro, h + 1) /\ x = Span(r, ro) /\ h + 1 \in Nat
  BY LinkedHead
<1>3. r[ro].len \in 2 .. PageWords /\ x \in r[ro].len .. r[ro].len + 1 /\ ro + x <= c
      /\ ro2 = Wrap(ro + x)
  BY <1>1, <1>2, StoredSpan
<1>4. x \in Nat /\ x >= 2
  BY <1>3, MessagingAssumption
<1>5. ro2 \in 0 .. c - 1 /\ (ro2 = ro + x \/ (ro2 = 0 /\ ro + x = c))
  BY <1>1, <1>3, <1>4, SMTT(30) DEF Wrap
<1>6. \A i \in h + 2 .. s + 1 : d[i] \in Nat /\ x <= d[i] /\ d[i] <= c
  <2>1. \A i \in h + 2 .. s + 1 : i \in h + 1 .. s + 1 /\ s + 1 \in h + 1 .. s + 1
                                  /\ h + 2 \in h + 1 .. s + 1 /\ h + 2 <= i /\ i <= s + 1
    BY <1>1
  <2>2. QED
    BY <1>1, <2>1
<1>7. \A i \in h + 2 .. s + 1 : e[i] = d[i] - x /\ e[i] \in Nat
  BY <1>1, <1>4, <1>6
<1>8. e \in [Nat -> Nat]
  BY <1>4, <1>6
<1> HIDE DEF x, e, ro2, c
<1>9. \A i \in h + 2 .. s + 1 : Wrap(ro2 + e[i]) = Wrap(ro + d[i])
  <2>1. SUFFICES ASSUME NEW i \in h + 2 .. s + 1 PROVE Wrap(ro2 + e[i]) = Wrap(ro + d[i])
    OBVIOUS
  <2>2. d[i] \in Nat /\ x <= d[i] /\ d[i] <= c /\ e[i] = d[i] - x
    BY <1>6, <1>7
  <2>3. QED
    BY <1>1, <1>4, <1>5, <2>2 DEF Wrap, c
<1>10. e[(h + 1) + 1] = 0
  <2>1. (h + 1) + 1 = h + 2 /\ h + 2 \in h + 2 .. s + 1
    BY <1>1
  <2>2. QED
    BY <1>4, <1>7, <2>1 DEF x
<1>11. \A i, j \in (h + 1) + 1 .. s + 1 : i <= j => e[i] <= e[j]
  <2>1. SUFFICES ASSUME NEW i \in h + 2 .. s + 1, NEW j \in h + 2 .. s + 1, i <= j
                 PROVE  e[i] <= e[j]
    BY <1>1
  <2>2. i \in h + 1 .. s + 1 /\ j \in h + 1 .. s + 1
    BY <1>1
  <2>3. d[i] <= d[j]
    BY <1>1, <2>1, <2>2
  <2>4. QED
    BY <1>4, <1>6, <1>7, <2>3
<1>12. e[s + 1] <= c /\ at = Wrap(ro2 + e[s + 1])
  <2>1. s + 1 \in h + 2 .. s + 1
    BY <1>1
  <2>2. QED
    BY <1>1, <1>4, <1>6, <1>7, <1>9, <2>1
<1>13. ASSUME NEW i \in (h + 1) + 1 .. s
       PROVE  /\ Stored(r, Wrap(ro2 + e[i]), i)
              /\ e[i + 1] = e[i] + Span(r, Wrap(ro2 + e[i]))
  <2>1. i \in h + 1 .. s /\ i \in h + 2 .. s + 1 /\ i + 1 \in h + 2 .. s + 1
    BY <1>1
  <2>2. Wrap(ro2 + e[i]) = Wrap(ro + d[i])
    BY <1>9, <2>1
  <2>3. Stored(r, Wrap(ro + d[i]), i) /\ d[i + 1] = d[i] + Span(r, Wrap(ro + d[i]))
    BY <1>1, <2>1
  <2> DEFINE w == Wrap(ro + d[i])
             z == Span(r, w)
  <2>4. z \in Nat
    <3>1. w \in 0 .. c - 1
      <4>1. ro + d[i] \in Nat /\ ro + d[i] < 2 * c
        BY <1>1, <1>6, <2>1
      <4>2. QED
        BY <1>1, <4>1 DEF Wrap, c
    <3>2. z \in r[w].len .. r[w].len + 1 /\ r[w].len \in 2 .. PageWords
      <4> HIDE DEF w
      <4>1. Stored(r, w, i) /\ i \in Nat
        BY <1>1, <2>1, <2>3 DEF w
      <4>2. QED
        BY <3>1, <4>1, StoredSpan DEF c
    <3>3. QED
      BY <3>2, MessagingAssumption
  <2>5. e[i + 1] = d[i + 1] - x /\ e[i] = d[i] - x /\ d[i] \in Nat /\ d[i + 1] \in Nat
    BY <1>6, <1>7, <2>1
  <2>6. d[i + 1] = d[i] + z
    BY <2>3
  <2> HIDE DEF z
  <2>7. e[i + 1] = e[i] + z
    BY <1>4, <2>4, <2>5, <2>6
  <2>8. QED
    BY <2>2, <2>3, <2>7 DEF z
<1>14. Linked(r, e, h + 1, s, ro2, at)
  BY <1>1, <1>2, <1>5, <1>8, <1>10, <1>11, <1>12, <1>13 DEF Linked, c
<1>15. QED
  BY <1>14 DEF e, ro2, x, Fetched

\* Two stretches of the ring that do not meet.
LEMMA StretchesApart ==
  ASSUME NEW c \in Nat, NEW ro \in 0 .. c - 1, NEW x \in Nat, NEW n \in Nat,
         NEW y \in Nat, NEW m \in Nat, NEW o \in Nat, NEW a \in Nat,
         x + n <= y, y + m <= c,
         o = IF ro + x < c THEN ro + x ELSE (ro + x) - c,
         a = IF ro + y < c THEN ro + y ELSE (ro + y) - c,
         o + n <= c, a + m <= c,
         NEW k \in 0 .. n - 1
  PROVE  o + k \notin a .. a + m - 1
  OBVIOUS

\* What the board makes of the ring with a transmission t of len words at the offset at.
Written(r, at, len, t) ==
  [o \in 0 .. Capacity - 1 |->
     IF o \in at .. at + len - 1 THEN [id |-> t, at |-> o - at, len |-> len] ELSE r[o]]

\* The distances after a transmission that moves the engine on by b.
Extended(d, s, b) == [i \in Nat |-> IF i = s + 2 THEN d[s + 1] + b ELSE d[i]]

\* The transmission at the offset o does not meet the len words at the offset at.
Apart(r, o, at, len) == \A k \in 0 .. r[o].len - 1 : o + k \notin at .. at + len - 1

\* A stored transmission that the new words do not meet stays.
LEMMA StoredStays ==
  ASSUME NEW r \in RingPages, NEW o \in 0 .. Capacity - 1, NEW i \in Nat, Stored(r, o, i),
         NEW at \in Nat, NEW len \in Nat, NEW t \in Nat,
         Apart(r, o, at, len)
  PROVE  /\ Stored(Written(r, at, len, t), o, i)
         /\ Span(Written(r, at, len, t), o) = Span(r, o)
<1> DEFINE w == Written(r, at, len, t)
           n == r[o].len
<1>1. n \in 2 .. PageWords /\ o + n <= Capacity
  BY StoredSpan
<1>2. o \in Nat /\ Capacity \in Nat /\ PageWords \in Nat
  BY CapacityNat, MessagingAssumption
<1> HIDE DEF n
<1>3. \A k \in 0 .. n - 1 : o + k \in 0 .. Capacity - 1 /\ o + k \notin at .. at + len - 1
  BY <1>1, <1>2 DEF n, Apart
<1>4. \A k \in 0 .. n - 1 : w[o + k] = r[o + k]
  BY <1>3 DEF Written
<1> HIDE DEF w
<1>5. w[o] = r[o]
  <2>1. 0 \in 0 .. n - 1 /\ o + 0 = o
    BY <1>1, <1>2
  <2>2. QED
    BY <1>4, <2>1
<1>6. w[o].len = n
  BY <1>5 DEF n
<1>7. /\ (o % PageWords) + n <= PageWords
      /\ \A k \in 0 .. n - 1 : r[o + k] = [id |-> i, at |-> k, len |-> n]
  BY DEF Stored, n
<1>8. Stored(w, o, i)
  BY <1>1, <1>4, <1>6, <1>7 DEF Stored
<1>9. Span(w, o) = Span(r, o)
  BY <1>5 DEF Span
<1>10. QED
  BY <1>8, <1>9 DEF w

\* The board stores a transmission behind the others.
LEMMA LinkedPut ==
  ASSUME NEW r \in RingPages, NEW d, NEW h, NEW s, NEW ro, NEW at \in 0 .. Capacity - 1,
         Linked(r, d, h, s, ro, at),
         NEW len \in 2 .. PageWords, (at % PageWords) + len <= PageWords,
         d[s + 1] + PageWords <= Capacity
  PROVE  Linked(Written(r, at, len, s + 1),
                Extended(d, s, BoardPlace(at + len) - at), h, s + 1, ro,
                BoardPlace(at + len) % Capacity)
<1> DEFINE c == Capacity
           b == BoardPlace(at + len) - at
           w == Written(r, at, len, s + 1)
           e == Extended(d, s, b)
           y == d[s + 1]
           at2 == BoardPlace(at + len) % Capacity
<1>1. /\ d \in [Nat -> Nat] /\ h \in Nat /\ s \in Nat /\ h <= s
      /\ ro \in 0 .. c - 1 /\ c \in Nat /\ at \in Nat /\ len \in Nat
      /\ d[h + 1] = 0
      /\ \A i, j \in h + 1 .. s + 1 : i <= j => d[i] <= d[j]
      /\ y <= c /\ at = Wrap(ro + y)
      /\ \A i \in h + 1 .. s :
           /\ Stored(r, Wrap(ro + d[i]), i)
           /\ d[i + 1] = d[i] + Span(r, Wrap(ro + d[i]))
      /\ PageWords \in Nat
  BY CapacityNat, MessagingAssumption DEF Linked
<1>2. /\ BoardPlace(at + len) \in at + len .. at + len + 1
      /\ BoardPlace(at + len) - at <= PageWords
      /\ BoardPlace(at + len) <= c /\ at + len <= c
      /\ at2 = Wrap(BoardPlace(at + len))
  BY PlaceAfter
<1>3. b \in Nat /\ b \in len .. len + 1 /\ b <= PageWords /\ at + b <= c /\ at2 = Wrap(at + b)
  <2> DEFINE z == BoardPlace(at + len)
  <2> HIDE DEF z
  <2>1. b = z - at
    BY DEF z
  <2>2. at + b = z /\ b \in Nat /\ b \in len .. len + 1 /\ b <= PageWords
    BY <1>1, <1>2, <2>1 DEF z
  <2>3. QED
    BY <1>2, <2>2 DEF z
<1>4. s + 1 \in Nat /\ s + 2 \in Nat /\ y \in Nat
  BY <1>1
<1>5. e[s + 2] = y + b /\ (\A i \in h + 1 .. s + 1 : e[i] = d[i] /\ d[i] \in Nat /\ d[i] <= y)
      /\ e \in [Nat -> Nat]
  <2> HIDE DEF b
  <2>1. e \in [Nat -> Nat]
    BY <1>1, <1>3, <1>4 DEF Extended
  <2>2. e[s + 2] = y + b
    BY <1>4 DEF Extended
  <2>3. ASSUME NEW i \in h + 1 .. s + 1 PROVE e[i] = d[i] /\ d[i] \in Nat /\ d[i] <= y
    <3>1. i \in Nat /\ i # s + 2 /\ s + 1 \in h + 1 .. s + 1 /\ i <= s + 1
      BY <1>1
    <3>2. e[i] = d[i]
      BY <3>1 DEF Extended
    <3>3. QED
      BY <1>1, <3>1, <3>2
  <2>4. QED
    BY <2>1, <2>2, <2>3
<1> HIDE DEF c, b, w, e, y, at2
<1>6. y + b <= c
  BY <1>1, <1>3, <1>4 DEF c, y
<1>7. \A i, j \in h + 1 .. (s + 1) + 1 : i <= j => e[i] <= e[j]
  <2>1. SUFFICES ASSUME NEW i \in h + 1 .. s + 2, NEW j \in h + 1 .. s + 2, i <= j
                 PROVE  e[i] <= e[j]
    BY <1>1
  <2>2. CASE j \in h + 1 .. s + 1
    <3>1. i \in h + 1 .. s + 1
      BY <1>1, <2>1, <2>2
    <3>2. d[i] <= d[j]
      BY <1>1, <2>1, <2>2, <3>1
    <3>3. QED
      BY <1>5, <2>2, <3>1, <3>2
  <2>3. CASE j = s + 2 /\ i \in h + 1 .. s + 1
    BY <1>3, <1>4, <1>5, <2>3
  <2>4. CASE j = s + 2 /\ i = s + 2
    BY <1>3, <1>4, <1>5, <2>4
  <2>5. QED
    BY <1>1, <2>1, <2>2, <2>3, <2>4
<1>8. at2 = Wrap(ro + (y + b))
  BY <1>1, <1>3, <1>4, <1>6 DEF Wrap, c
<1>9. ASSUME NEW i \in h + 1 .. s
      PROVE  Stored(w, Wrap(ro + e[i]), i) /\ e[i + 1] = e[i] + Span(w, Wrap(ro + e[i]))
  <2> DEFINE o == Wrap(ro + d[i])
             n == r[o].len
  <2>1. Stored(r, o, i) /\ d[i + 1] = d[i] + Span(r, o)
    BY <1>1
  <2>2. i \in h + 1 .. s + 1 /\ i + 1 \in h + 1 .. s + 1 /\ i \in Nat
    BY <1>1
  <2>3. e[i] = d[i] /\ e[i + 1] = d[i + 1] /\ d[i] \in Nat /\ d[i + 1] \in Nat /\ d[i + 1] <= y
    BY <1>5, <2>2
  <2>4. o \in 0 .. c - 1
    <3>1. d[i] \in Nat /\ d[i] <= y
      BY <1>5, <2>2
    <3>2. ro + d[i] \in Nat /\ ro + d[i] < 2 * c
      BY <1>1, <1>4, <3>1
    <3>3. QED
      BY <1>1, <3>2 DEF Wrap, c
  <2>5. o = IF ro + d[i] < c THEN ro + d[i] ELSE (ro + d[i]) - c
    BY DEF Wrap, c
  <2>6. at = IF ro + y < c THEN ro + y ELSE (ro + y) - c
    BY <1>1 DEF Wrap, c
  <2> HIDE DEF o
  <2>7. n \in 2 .. PageWords /\ o + n <= c /\ Span(r, o) \in n .. n + 1
    BY <2>1, <2>2, <2>4, StoredSpan DEF c
  <2> HIDE DEF n
  <2>8. d[i] + n <= y
    BY <1>1, <1>4, <2>1, <2>3, <2>7
  <2>9. y + len <= c /\ at + len <= c /\ n \in Nat /\ o \in Nat
    BY <1>1, <1>3, <1>4, <1>6, <2>4, <2>7 DEF c
  <2>10. \A k \in 0 .. n - 1 : o + k \notin at .. at + len - 1
    <3> DEFINE x == d[i]
    <3>1. x \in Nat /\ x + n <= y /\ o = IF ro + x < c THEN ro + x ELSE (ro + x) - c
      BY <2>3, <2>5, <2>8
    <3> HIDE DEF x
    <3>2. QED
      BY <1>1, <1>4, <2>6, <2>7, <2>9, <3>1, StretchesApart
  <2>11. Stored(w, o, i) /\ Span(w, o) = Span(r, o)
    <3>1. Apart(r, o, at, len)
      BY <2>10 DEF n, Apart
    <3>2. o \in 0 .. Capacity - 1 /\ i \in Nat /\ at \in Nat /\ len \in Nat
          /\ Stored(r, o, i)
      BY <1>1, <2>1, <2>2, <2>4 DEF c
    <3>3. PICK t \in Nat : t = s + 1
      BY <1>4
    <3>4. /\ Stored(Written(r, at, len, t), o, i)
          /\ Span(Written(r, at, len, t), o) = Span(r, o)
      BY <3>1, <3>2, StoredStays
    <3>5. QED
      BY <3>3, <3>4 DEF w
  <2>12. QED
    BY <2>1, <2>3, <2>11 DEF o
<1>10. Stored(w, Wrap(ro + y), s + 1) /\ b = Span(w, Wrap(ro + y))
  <2>1. \A k \in 0 .. len - 1 : at + k \in 0 .. c - 1 /\ at + k \in at .. at + len - 1
                                /\ (at + k) - at = k
    BY <1>1, <1>2 DEF c
  <2>2. \A k \in 0 .. len - 1 : w[at + k] = [id |-> s + 1, at |-> k, len |-> len]
    BY <2>1 DEF w, Written, c
  <2>3. w[at].len = len
    <3>1. 0 \in 0 .. len - 1 /\ at + 0 = at
      BY <1>1
    <3>2. w[at] = [id |-> s + 1, at |-> 0, len |-> len]
      BY <2>2, <3>1
    <3>3. QED
      BY <3>2
  <2>4. Stored(w, at, s + 1)
    BY <2>2, <2>3 DEF Stored
  <2>5. Span(w, at) = b
    BY <2>3 DEF Span, b
  <2>6. QED
    BY <1>1, <2>4, <2>5
<1>11. ASSUME NEW i \in h + 1 .. s + 1
       PROVE  Stored(w, Wrap(ro + e[i]), i) /\ e[i + 1] = e[i] + Span(w, Wrap(ro + e[i]))
  <2>1. CASE i \in h + 1 .. s
    BY <1>9, <2>1
  <2>2. CASE i = s + 1
    <3>1. e[i] = y /\ e[i + 1] = y + b
      <4>1. i \in h + 1 .. s + 1 /\ (s + 1) + 1 = s + 2
        BY <1>1
      <4>2. QED
        BY <1>5, <2>2, <4>1 DEF y
    <3>2. QED
      BY <1>10, <2>2, <3>1
  <2>3. QED
    BY <1>1, <2>1, <2>2
<1>12. h <= s + 1 /\ e[h + 1] = 0 /\ e[(s + 1) + 1] = y + b
  <2>1. h + 1 \in h + 1 .. s + 1 /\ (s + 1) + 1 = s + 2 /\ h <= s + 1
    BY <1>1
  <2>2. QED
    BY <1>1, <1>5, <2>1
<1>13. Linked(w, e, h, s + 1, ro, at2)
  BY <1>1, <1>4, <1>5, <1>6, <1>7, <1>8, <1>11, <1>12 DEF Linked, c
<1>14. QED
  BY <1>13 DEF w, e, b, at2

-----------------------------------------------------------------------------
(* The inductive invariant.                                                *)

DrvPcs == {"absent", "init", "stop", "wait", "reset", "buffers", "start", "starting", "up",
           "down", "free", "load", "exit", "gone"}

TypeOK ==
  /\ drv \in [pc : DrvPcs, job : {"init", "configure", "remove"}]
  /\ decl \in BOOLEAN /\ pages \in BOOLEAN
  /\ ctl \in [ready : BOOLEAN, addresses : BOOLEAN, read_offset : 0 .. Capacity - 1]
  /\ eng \in [enabled : BOOLEAN, running : BOOLEAN, resetting : BOOLEAN, declared : BOOLEAN,
              at : 0 .. Capacity - 1]
  /\ ring \in RingPages
  /\ line \in [raised : BOOLEAN, armed : BOOLEAN, pending : 0 .. CountMax,
               overflow : BOOLEAN, unacked : 0 .. Capacity]
  /\ irq \in [pc : {"idle", "loop", "get", "oops", "freed"}, left : Nat, reported : Nat]
  /\ sent \in Nat /\ handed \in Nat
  /\ skewed \in BOOLEAN /\ unstopped \in BOOLEAN
  /\ used \in [configs : Nat, faults : Nat]

\* The engine is enabled only between a complete set-up and the next abort.
EnabledWhenUp ==
  eng.enabled => /\ drv.pc \in {"starting", "up", "stop"}
                 /\ decl /\ ctl.ready /\ ctl.addresses

\* It runs on only while an abort waits for it, or after one that gave up.
RunningWhenUp == eng.running => eng.enabled \/ drv.pc = "wait" \/ unstopped

\* An engine that was reset starts at the first page, with nothing outstanding.
FreshStart ==
  /\ drv.pc = "buffers" => (eng.at = 0 /\ ~eng.running) \/ unstopped
  /\ drv.pc = "start" =>
       \/ skewed
       \/ /\ eng.at = 0 /\ ~eng.running /\ ctl.read_offset = 0 /\ sent = handed
          /\ irq.pc = "idle" /\ line.pending = 0 /\ ~line.raised
  /\ drv.pc = "start" => ctl.addresses

\* Who holds what where the two threads are.
Places ==
  /\ drv.pc \in {"stop", "wait", "reset", "buffers", "start"} => decl /\ ctl.ready
  /\ drv.pc \notin {"absent", "gone"} => pages
  /\ irq.pc \in {"idle", "freed"} => irq.left = 0
  /\ irq.pc = "get" => irq.left > 0
  /\ irq.pc \in {"loop", "get"} => irq.reported <= line.unacked

Phase == EnabledWhenUp /\ RunningWhenUp /\ FreshStart /\ Places

\* The transmissions outstanding lie in the ring as the distances d say, are counted, and
\* are not acknowledged.
Matched(d) ==
  /\ Linked(ring, d, handed, sent, ctl.read_offset, eng.at)
  /\ sent - handed = irq.left + line.pending
  /\ d[sent + 1] <= line.unacked
  /\ irq.pc \in {"loop", "get"} =>
       d[sent + 1] - d[handed + irq.left + 1] <= line.unacked - irq.reported
  /\ ~eng.running => sent = handed

Chain == eng.enabled /\ ~skewed /\ ~line.overflow => \E d : Matched(d)

IInv == TypeOK /\ Phase /\ Chain

\* The initial states satisfy the invariant.
LEMMA InitIInv == Init => IInv
<1> SUFFICES ASSUME Init PROVE IInv
  OBVIOUS
<1>1. Capacity \in Nat /\ Capacity > 0 /\ CountMax \in Nat
  BY CapacityNat, MessagingAssumption
<1>2. ring \in RingPages
  BY DEF Init, RingPages, RingWord, Blank
<1>3. TypeOK
  <2>1. eng \in [enabled : BOOLEAN, running : BOOLEAN, resetting : BOOLEAN, declared : BOOLEAN,
                 at : 0 .. Capacity - 1]
    BY <1>1 DEF Init
  <2>2. ctl \in [ready : BOOLEAN, addresses : BOOLEAN, read_offset : 0 .. Capacity - 1]
    BY <1>1 DEF Init
  <2>3. line \in [raised : BOOLEAN, armed : BOOLEAN, pending : 0 .. CountMax,
                  overflow : BOOLEAN, unacked : 0 .. Capacity]
    BY <1>1 DEF Init
  <2>4. QED
    BY <1>1, <1>2, <2>1, <2>2, <2>3 DEF Init, TypeOK, DrvPcs
<1>4. Phase
  BY <1>1 DEF Init, Phase, EnabledWhenUp, RunningWhenUp, FreshStart, Places
<1>5. Chain
  BY DEF Init, Chain
<1>6. QED
  BY <1>3, <1>4, <1>5 DEF IInv

\* Reading the count keeps the interrupt's state in its type.
LEMMA CountedType ==
  ASSUME TypeOK
  PROVE  Counted \in [raised : BOOLEAN, armed : BOOLEAN, pending : 0 .. CountMax,
                      overflow : BOOLEAN, unacked : 0 .. Capacity]
<1> DEFINE L == [raised : BOOLEAN, armed : BOOLEAN, pending : 0 .. CountMax,
                 overflow : BOOLEAN, unacked : 0 .. Capacity]
<1>1. line \in L /\ 0 \in 0 .. CountMax
  BY MessagingAssumption DEF TypeOK
<1>2. [line EXCEPT !.raised = FALSE] \in L
  BY <1>1
<1>3. ASSUME NEW l \in L PROVE [l EXCEPT !.pending = 0] \in L
  BY <1>1
<1>4. ASSUME NEW l \in L PROVE [l EXCEPT !.overflow = FALSE] \in L
  OBVIOUS
<1>5. QED
  BY <1>2, <1>3, <1>4 DEF Counted

-----------------------------------------------------------------------------
(* Every step keeps the types and the phases.                              *)

LEMMA InitMemPhase == TypeOK /\ Phase /\ InitMem => TypeOK' /\ Phase'
<1> SUFFICES ASSUME TypeOK, Phase, InitMem PROVE TypeOK' /\ Phase'
  OBVIOUS
<1> USE CapacityNat, MessagingAssumption
<1>1. TypeOK'
  BY DEF TypeOK, DrvPcs, InitMem, At, Goto, boardVars, historyVars
<1>2. Phase'
  BY <1>1 DEF TypeOK, InitMem, At, Goto, boardVars, historyVars, Phase, EnabledWhenUp,
     RunningWhenUp, FreshStart, Places
<1>3. QED
  BY <1>1, <1>2

LEMMA EarlierFailsPhase == TypeOK /\ Phase /\ EarlierFails => TypeOK' /\ Phase'
<1> SUFFICES ASSUME TypeOK, Phase, EarlierFails PROVE TypeOK' /\ Phase'
  OBVIOUS
<1> USE CapacityNat, MessagingAssumption
<1>1. TypeOK'
  BY DEF TypeOK, DrvPcs, EarlierFails, At, Goto, Fault, boardVars, historyVars
<1>2. Phase'
  BY <1>1 DEF TypeOK, EarlierFails, At, Goto, Fault, boardVars, historyVars, Phase,
     EnabledWhenUp, RunningWhenUp, FreshStart, Places
<1>3. QED
  BY <1>1, <1>2

LEMMA InitControllerPhase == TypeOK /\ Phase /\ InitController => TypeOK' /\ Phase'
<1> SUFFICES ASSUME TypeOK, Phase, InitController PROVE TypeOK' /\ Phase'
  OBVIOUS
<1> USE CapacityNat, MessagingAssumption
<1>1. TypeOK'
  <2>1. ctl' \in [ready : BOOLEAN, addresses : BOOLEAN, read_offset : 0 .. Capacity - 1]
    <3>1. ctl' = [ctl EXCEPT !.ready = TRUE] \/ ctl' = ctl
      BY DEF InitController
    <3>2. ctl \in [ready : BOOLEAN, addresses : BOOLEAN, read_offset : 0 .. Capacity - 1]
      BY DEF TypeOK
    <3>3. QED
      BY <3>1, <3>2
  <2>2. drv' \in [pc : DrvPcs, job : {"init", "configure", "remove"}]
    BY DEF TypeOK, DrvPcs, Phase, Places, InitController, At, Goto, boardVars, historyVars
  <2>3. QED
    BY <2>1, <2>2 DEF TypeOK, DrvPcs, Phase, Places, InitController, At, Goto, boardVars,
       historyVars
<1>2. Phase'
  BY <1>1 DEF TypeOK, InitController, At, Goto, boardVars, historyVars, Phase,
     EnabledWhenUp, RunningWhenUp, FreshStart, Places
<1>3. QED
  BY <1>1, <1>2

LEMMA StopEnginePhase == TypeOK /\ Phase /\ StopEngine => TypeOK' /\ Phase'
<1> SUFFICES ASSUME TypeOK, Phase, StopEngine PROVE TypeOK' /\ Phase'
  OBVIOUS
<1> USE CapacityNat, MessagingAssumption
<1>1. TypeOK'
  <2>1. eng' \in [enabled : BOOLEAN, running : BOOLEAN, resetting : BOOLEAN, declared : BOOLEAN,
                   at : 0 .. Capacity - 1]
    BY DEF TypeOK, DrvPcs, Phase, Places, StopEngine, At, Goto, historyVars
  <2>2. QED
    BY <2>1 DEF TypeOK, DrvPcs, Phase, Places, StopEngine, At, Goto, historyVars
<1>2. Phase'
  BY <1>1 DEF TypeOK, StopEngine, At, Goto, historyVars, Phase, EnabledWhenUp,
     RunningWhenUp, FreshStart, Places
<1>3. QED
  BY <1>1, <1>2

LEMMA StoppedPhase == TypeOK /\ Phase /\ Stopped => TypeOK' /\ Phase'
<1> SUFFICES ASSUME TypeOK, Phase, Stopped PROVE TypeOK' /\ Phase'
  OBVIOUS
<1> USE CapacityNat, MessagingAssumption
<1>1. TypeOK'
  BY DEF TypeOK, DrvPcs, Stopped, At, Goto, boardVars, historyVars
<1>2. Phase'
  BY <1>1 DEF TypeOK, Stopped, At, Goto, boardVars, historyVars, Phase, EnabledWhenUp,
     RunningWhenUp, FreshStart, Places
<1>3. QED
  BY <1>1, <1>2

LEMMA StopTimesOutPhase == TypeOK /\ Phase /\ StopTimesOut => TypeOK' /\ Phase'
<1> SUFFICES ASSUME TypeOK, Phase, StopTimesOut PROVE TypeOK' /\ Phase'
  OBVIOUS
<1> USE CapacityNat, MessagingAssumption
<1>1. TypeOK'
  BY DEF TypeOK, DrvPcs, StopTimesOut, At, Goto, Fault, AfterAbort, boardVars
<1>2. Phase'
  BY <1>1 DEF TypeOK, StopTimesOut, At, Goto, Fault, AfterAbort, boardVars, Phase,
     EnabledWhenUp, RunningWhenUp, FreshStart, Places
<1>3. QED
  BY <1>1, <1>2

LEMMA ResetEnginePhase == TypeOK /\ Phase /\ ResetEngine => TypeOK' /\ Phase'
<1> SUFFICES ASSUME TypeOK, Phase, ResetEngine PROVE TypeOK' /\ Phase'
  OBVIOUS
<1> USE CapacityNat, MessagingAssumption
<1>1. TypeOK'
  <2>1. eng' \in [enabled : BOOLEAN, running : BOOLEAN, resetting : BOOLEAN, declared : BOOLEAN,
                   at : 0 .. Capacity - 1]
    BY DEF TypeOK, DrvPcs, Phase, Places, ResetEngine, At, Goto, Fault, AfterAbort
  <2>2. skewed' \in BOOLEAN /\ unstopped' \in BOOLEAN
    BY DEF TypeOK, DrvPcs, Phase, Places, ResetEngine, At, Goto, Fault, AfterAbort
  <2>3. QED
    BY <2>1, <2>2 DEF TypeOK, DrvPcs, Phase, Places, ResetEngine, At, Goto, Fault,
       AfterAbort
<1>2. Phase'
  BY <1>1 DEF TypeOK, ResetEngine, At, Goto, Fault, AfterAbort, Phase, EnabledWhenUp,
     RunningWhenUp, FreshStart, Places
<1>3. QED
  BY <1>1, <1>2

LEMMA InitBuffersPhase == TypeOK /\ Phase /\ InitBuffers => TypeOK' /\ Phase'
<1> SUFFICES ASSUME TypeOK, Phase, InitBuffers PROVE TypeOK' /\ Phase'
  OBVIOUS
<1> USE CapacityNat, MessagingAssumption
<1>1. TypeOK'
  <2>1. ctl' \in [ready : BOOLEAN, addresses : BOOLEAN, read_offset : 0 .. Capacity - 1]
      <3>1. ctl.ready \in BOOLEAN /\ 0 \in 0 .. Capacity - 1
      BY DEF TypeOK
    <3>2. ctl' = [ready |-> ctl.ready, addresses |-> TRUE, read_offset |-> 0]
      BY DEF TypeOK, InitBuffers
    <3>3. QED
      BY <3>1, <3>2, Zenon
  <2>2. eng' \in [enabled : BOOLEAN, running : BOOLEAN, resetting : BOOLEAN, declared : BOOLEAN,
                   at : 0 .. Capacity - 1]
    BY DEF TypeOK, DrvPcs, Phase, Places, InitBuffers, At, Goto
  <2>3. skewed' \in BOOLEAN /\ unstopped' \in BOOLEAN
    BY DEF TypeOK, DrvPcs, Phase, Places, InitBuffers, At, Goto
  <2>4. QED
    BY <2>1, <2>2, <2>3 DEF TypeOK, DrvPcs, Phase, Places, InitBuffers, At, Goto
<1>2. Phase'
  BY <1>1 DEF TypeOK, InitBuffers, At, Goto, Phase, EnabledWhenUp, RunningWhenUp,
     FreshStart, Places
<1>3. QED
  BY <1>1, <1>2

LEMMA InitBuffersFailsPhase == TypeOK /\ Phase /\ InitBuffersFails => TypeOK' /\ Phase'
<1> SUFFICES ASSUME TypeOK, Phase, InitBuffersFails PROVE TypeOK' /\ Phase'
  OBVIOUS
<1> USE CapacityNat, MessagingAssumption
<1>1. TypeOK'
  <2>1. ctl' \in [ready : BOOLEAN, addresses : BOOLEAN, read_offset : 0 .. Capacity - 1]
    BY DEF TypeOK, DrvPcs, Phase, Places, InitBuffersFails, At, Goto, Fault, boardVars,
       historyVars
  <2>2. used' \in [configs : Nat, faults : Nat]
        /\ drv' \in [pc : DrvPcs, job : {"init", "configure", "remove"}]
    BY DEF TypeOK, DrvPcs, InitBuffersFails, At, Goto, Fault
  <2>3. decl' \in BOOLEAN /\ pages' \in BOOLEAN
    BY DEF TypeOK, InitBuffersFails
  <2>4. QED
    BY <2>1, <2>2, <2>3 DEF TypeOK, DrvPcs, Phase, Places, InitBuffersFails, At, Goto,
       Fault, boardVars, historyVars
<1>2. Phase'
  BY <1>1 DEF TypeOK, InitBuffersFails, At, Goto, Fault, boardVars, historyVars, Phase,
     EnabledWhenUp, RunningWhenUp, FreshStart, Places
<1>3. QED
  BY <1>1, <1>2

LEMMA StartEnginePhase == TypeOK /\ Phase /\ StartEngine => TypeOK' /\ Phase'
<1> SUFFICES ASSUME TypeOK, Phase, StartEngine PROVE TypeOK' /\ Phase'
  OBVIOUS
<1> USE CapacityNat, MessagingAssumption
<1>1. TypeOK'
  <2>1. eng' \in [enabled : BOOLEAN, running : BOOLEAN, resetting : BOOLEAN, declared : BOOLEAN,
                   at : 0 .. Capacity - 1]
    BY DEF TypeOK, DrvPcs, Phase, Places, StartEngine, At, Goto, historyVars
  <2>2. QED
    BY <2>1 DEF TypeOK, DrvPcs, Phase, Places, StartEngine, At, Goto, historyVars
<1>2. Phase'
  BY <1>1 DEF TypeOK, StartEngine, At, Goto, historyVars, Phase, EnabledWhenUp,
     RunningWhenUp, FreshStart, Places
<1>3. QED
  BY <1>1, <1>2

LEMMA StartReturnsPhase == TypeOK /\ Phase /\ StartReturns => TypeOK' /\ Phase'
<1> SUFFICES ASSUME TypeOK, Phase, StartReturns PROVE TypeOK' /\ Phase'
  OBVIOUS
<1> USE CapacityNat, MessagingAssumption
<1>1. TypeOK'
  BY DEF TypeOK, DrvPcs, StartReturns, At, Goto, Fault, boardVars, historyVars
<1>2. Phase'
  BY <1>1 DEF TypeOK, StartReturns, At, Goto, Fault, boardVars, historyVars, Phase,
     EnabledWhenUp, RunningWhenUp, FreshStart, Places
<1>3. QED
  BY <1>1, <1>2

LEMMA ConfigurePhase == TypeOK /\ Phase /\ Configure => TypeOK' /\ Phase'
<1> SUFFICES ASSUME TypeOK, Phase, Configure PROVE TypeOK' /\ Phase'
  OBVIOUS
<1> USE CapacityNat, MessagingAssumption
<1>1. TypeOK'
  BY DEF TypeOK, DrvPcs, Configure, Destroy, boardVars, historyVars
<1>2. Phase'
  BY <1>1 DEF TypeOK, Configure, Destroy, boardVars, historyVars, Phase, EnabledWhenUp,
     RunningWhenUp, FreshStart, Places
<1>3. QED
  BY <1>1, <1>2

LEMMA RemovePhase == TypeOK /\ Phase /\ Remove => TypeOK' /\ Phase'
<1> SUFFICES ASSUME TypeOK, Phase, Remove PROVE TypeOK' /\ Phase'
  OBVIOUS
<1> USE CapacityNat, MessagingAssumption
<1>1. TypeOK'
  BY DEF TypeOK, DrvPcs, Remove, Destroy, boardVars, historyVars
<1>2. Phase'
  BY <1>1 DEF TypeOK, Remove, Destroy, boardVars, historyVars, Phase, EnabledWhenUp,
     RunningWhenUp, FreshStart, Places
<1>3. QED
  BY <1>1, <1>2

LEMMA FreeAddressesPhase == TypeOK /\ Phase /\ FreeAddresses => TypeOK' /\ Phase'
<1> SUFFICES ASSUME TypeOK, Phase, FreeAddresses PROVE TypeOK' /\ Phase'
  OBVIOUS
<1> USE CapacityNat, MessagingAssumption
<1>1. TypeOK'
  <2>1. ctl' \in [ready : BOOLEAN, addresses : BOOLEAN, read_offset : 0 .. Capacity - 1]
    BY DEF TypeOK, DrvPcs, Phase, Places, FreeAddresses, At, Goto, boardVars, historyVars
  <2>2. QED
    BY <2>1 DEF TypeOK, DrvPcs, Phase, Places, FreeAddresses, At, Goto, boardVars,
       historyVars
<1>2. Phase'
  BY <1>1 DEF TypeOK, FreeAddresses, At, Goto, boardVars, historyVars, Phase, EnabledWhenUp,
     RunningWhenUp, FreshStart, Places
<1>3. QED
  BY <1>1, <1>2

LEMMA LoadBitstreamPhase == TypeOK /\ Phase /\ LoadBitstream => TypeOK' /\ Phase'
<1> SUFFICES ASSUME TypeOK, Phase, LoadBitstream PROVE TypeOK' /\ Phase'
  OBVIOUS
<1> USE CapacityNat, MessagingAssumption
<1>1. TypeOK'
  BY DEF TypeOK, DrvPcs, LoadBitstream, At, Goto, Fault, boardVars, historyVars
<1>2. Phase'
  BY <1>1 DEF TypeOK, LoadBitstream, At, Goto, Fault, boardVars, historyVars, Phase,
     EnabledWhenUp, RunningWhenUp, FreshStart, Places
<1>3. QED
  BY <1>1, <1>2

LEMMA ExitPhase == TypeOK /\ Phase /\ Exit => TypeOK' /\ Phase'
<1> SUFFICES ASSUME TypeOK, Phase, Exit PROVE TypeOK' /\ Phase'
  OBVIOUS
<1> USE CapacityNat, MessagingAssumption
<1>1. TypeOK'
  <2>1. decl' \in BOOLEAN /\ pages' \in BOOLEAN
    BY DEF TypeOK, DrvPcs, Phase, Places, Exit, At, Goto, boardVars, historyVars
  <2>2. QED
    BY <2>1 DEF TypeOK, DrvPcs, Phase, Places, Exit, At, Goto, boardVars, historyVars
<1>2. Phase'
  BY <1>1 DEF TypeOK, Exit, At, Goto, boardVars, historyVars, Phase, EnabledWhenUp,
     RunningWhenUp, FreshStart, Places
<1>3. QED
  BY <1>1, <1>2

LEMMA EngineRunsPhase == TypeOK /\ Phase /\ EngineRuns => TypeOK' /\ Phase'
<1> SUFFICES ASSUME TypeOK, Phase, EngineRuns PROVE TypeOK' /\ Phase'
  OBVIOUS
<1> USE CapacityNat, MessagingAssumption
<1>1. TypeOK'
  <2>1. eng' \in [enabled : BOOLEAN, running : BOOLEAN, resetting : BOOLEAN, declared : BOOLEAN,
                   at : 0 .. Capacity - 1]
    BY DEF TypeOK, DrvPcs, Phase, Places, EngineRuns, historyVars
  <2>2. QED
    BY <2>1 DEF TypeOK, DrvPcs, Phase, Places, EngineRuns, historyVars
<1>2. Phase'
  BY <1>1 DEF TypeOK, EngineRuns, historyVars, Phase, EnabledWhenUp, RunningWhenUp,
     FreshStart, Places
<1>3. QED
  BY <1>1, <1>2

LEMMA EngineHaltsPhase == TypeOK /\ Phase /\ EngineHalts => TypeOK' /\ Phase'
<1> SUFFICES ASSUME TypeOK, Phase, EngineHalts PROVE TypeOK' /\ Phase'
  OBVIOUS
<1> USE CapacityNat, MessagingAssumption
<1>1. TypeOK'
  <2>1. eng' \in [enabled : BOOLEAN, running : BOOLEAN, resetting : BOOLEAN, declared : BOOLEAN,
                   at : 0 .. Capacity - 1]
    BY DEF TypeOK, DrvPcs, Phase, Places, EngineHalts, historyVars
  <2>2. QED
    BY <2>1 DEF TypeOK, DrvPcs, Phase, Places, EngineHalts, historyVars
<1>2. Phase'
  BY <1>1 DEF TypeOK, EngineHalts, historyVars, Phase, EnabledWhenUp, RunningWhenUp,
     FreshStart, Places
<1>3. QED
  BY <1>1, <1>2

LEMMA IrqCountPhase == TypeOK /\ Phase /\ IrqCount => TypeOK' /\ Phase'
<1> SUFFICES ASSUME TypeOK, Phase, IrqCount PROVE TypeOK' /\ Phase'
  OBVIOUS
<1> USE CapacityNat, MessagingAssumption
<1>1. TypeOK'
  <2>1. line' \in [raised : BOOLEAN, armed : BOOLEAN, pending : 0 .. CountMax,
                    overflow : BOOLEAN, unacked : 0 .. Capacity]
      BY CountedType DEF IrqCount
  <2>2. irq' \in [pc : {"idle", "loop", "get", "oops", "freed"}, left : Nat, reported : Nat]
    BY DEF TypeOK, DrvPcs, Phase, Places, IrqCount, Counted
  <2>3. QED
    BY <2>1, <2>2 DEF TypeOK, DrvPcs, Phase, Places, IrqCount, Counted
<1>2. Phase'
  BY <1>1 DEF TypeOK, IrqCount, Counted, Phase, EnabledWhenUp, RunningWhenUp, FreshStart,
     Places
<1>3. QED
  BY <1>1, <1>2

LEMMA IrqEventOnlyPhase == TypeOK /\ Phase /\ IrqEventOnly => TypeOK' /\ Phase'
<1> SUFFICES ASSUME TypeOK, Phase, IrqEventOnly PROVE TypeOK' /\ Phase'
  OBVIOUS
<1> USE CapacityNat, MessagingAssumption
<1>1. TypeOK'
  <2>1. line' \in [raised : BOOLEAN, armed : BOOLEAN, pending : 0 .. CountMax,
                    overflow : BOOLEAN, unacked : 0 .. Capacity]
      BY CountedType DEF IrqEventOnly
  <2>2. QED
    BY <2>1 DEF TypeOK, DrvPcs, Phase, Places, IrqEventOnly, Counted, historyVars
<1>2. Phase'
  BY <1>1 DEF TypeOK, IrqEventOnly, Counted, historyVars, Phase, EnabledWhenUp,
     RunningWhenUp, FreshStart, Places
<1>3. QED
  BY <1>1, <1>2

LEMMA IrqCheckPhase == TypeOK /\ Phase /\ IrqCheck => TypeOK' /\ Phase'
<1> SUFFICES ASSUME TypeOK, Phase, IrqCheck PROVE TypeOK' /\ Phase'
  OBVIOUS
<1> USE CapacityNat, MessagingAssumption
<1>1. TypeOK'
  BY DEF TypeOK, DrvPcs, IrqCheck, boardVars, historyVars
<1>2. Phase'
  BY <1>1 DEF TypeOK, IrqCheck, boardVars, historyVars, Phase, EnabledWhenUp, RunningWhenUp,
     FreshStart, Places
<1>3. QED
  BY <1>1, <1>2

LEMMA IrqGetFreedPhase == TypeOK /\ Phase /\ IrqGetFreed => TypeOK' /\ Phase'
<1> SUFFICES ASSUME TypeOK, Phase, IrqGetFreed PROVE TypeOK' /\ Phase'
  OBVIOUS
<1> USE CapacityNat, MessagingAssumption
<1>1. TypeOK'
  BY DEF TypeOK, DrvPcs, IrqGetFreed, boardVars, historyVars
<1>2. Phase'
  BY <1>1 DEF TypeOK, IrqGetFreed, boardVars, historyVars, Phase, EnabledWhenUp,
     RunningWhenUp, FreshStart, Places
<1>3. QED
  BY <1>1, <1>2

LEMMA IrqAckPhase == TypeOK /\ Phase /\ IrqAck => TypeOK' /\ Phase'
<1> SUFFICES ASSUME TypeOK, Phase, IrqAck PROVE TypeOK' /\ Phase'
  OBVIOUS
<1> USE CapacityNat, MessagingAssumption
<1>1. TypeOK'
  <2>1. line' \in [raised : BOOLEAN, armed : BOOLEAN, pending : 0 .. CountMax,
                    overflow : BOOLEAN, unacked : 0 .. Capacity]
      <3> DEFINE up == line.pending > 0
               none == line.pending = 0
               rest == line.unacked - irq.reported
    <3>1. /\ line.overflow \in BOOLEAN /\ line.pending \in 0 .. CountMax
          /\ rest \in 0 .. Capacity /\ up \in BOOLEAN /\ none \in BOOLEAN
      BY DEF TypeOK, Phase, Places, IrqAck
    <3>2. line' = [raised |-> up, armed |-> none, pending |-> line.pending,
                   overflow |-> line.overflow, unacked |-> rest]
      BY DEF TypeOK, IrqAck
    <3> HIDE DEF up, none, rest
    <3>3. QED
      BY <3>1, <3>2, Zenon
  <2>2. irq' \in [pc : {"idle", "loop", "get", "oops", "freed"}, left : Nat, reported : Nat]
    BY DEF TypeOK, DrvPcs, Phase, Places, IrqAck, historyVars
  <2>3. QED
    BY <2>1, <2>2 DEF TypeOK, DrvPcs, Phase, Places, IrqAck, historyVars
<1>2. Phase'
  BY <1>1 DEF TypeOK, IrqAck, historyVars, Phase, EnabledWhenUp, RunningWhenUp, FreshStart,
     Places
<1>3. QED
  BY <1>1, <1>2

LEMMA IrqGetPhase == TypeOK /\ Phase /\ IrqGet => TypeOK' /\ Phase'
<1> SUFFICES ASSUME TypeOK, Phase, IrqGet PROVE TypeOK' /\ Phase'
  OBVIOUS
<1> USE CapacityNat, MessagingAssumption
<1>1. /\ irq' = [irq EXCEPT !.pc = "loop", !.left = @ - 1] /\ irq.pc = "get"
      /\ UNCHANGED <<drv, decl, pages, skewed, unstopped, used, eng, ring, line, sent>>
  BY DEF IrqGet, boardVars
<1>2. ctl.read_offset \in Nat /\ Capacity \in Nat \ {0}
  BY DEF TypeOK
<1>3. ctl' \in [ready : BOOLEAN, addresses : BOOLEAN, read_offset : 0 .. Capacity - 1]
      /\ ctl'.ready = ctl.ready /\ ctl'.addresses = ctl.addresses
  <2>1. PICK n \in LengthsRead(ring[ctl.read_offset]) :
           \/ ctl' = [ctl EXCEPT !.read_offset = NextOffset(@, n)]
           \/ ctl' = ctl
    BY DEF IrqGet
  <2>2. n \in Nat
    <3>1. ring[ctl.read_offset].len \in Nat
      BY DEF TypeOK, RingPages, RingWord
    <3>2. QED
      BY <3>1 DEF LengthsRead
  <2>3. NextOffset(ctl.read_offset, n) \in 0 .. Capacity - 1
    <3> DEFINE end == ctl.read_offset + n
               z == IF PageWords - (end % PageWords) = 1 THEN end + 1 ELSE end
    <3>1. end \in Nat /\ end + 1 \in Nat
      BY <1>2, <2>2
    <3>2. z \in Nat
      BY <3>1
    <3>3. NextOffset(ctl.read_offset, n) = z % Capacity
      BY DEF NextOffset
    <3> HIDE DEF z
    <3>4. QED
      BY <1>2, <3>2, <3>3
  <2>4. CASE ctl' = ctl
    BY <2>4 DEF TypeOK
  <2>5. CASE ctl' = [ctl EXCEPT !.read_offset = NextOffset(@, n)]
    <3> DEFINE z == NextOffset(ctl.read_offset, n)
    <3>1. ctl' = [ctl EXCEPT !.read_offset = z]
      BY <2>5
    <3> HIDE DEF z
    <3>2. QED
      BY <2>3, <3>1 DEF TypeOK, z
  <2>6. QED
    BY <2>1, <2>4, <2>5
<1>4. handed' \in Nat
  BY DEF IrqGet, TypeOK
<1>5. irq' \in [pc : {"idle", "loop", "get", "oops", "freed"}, left : Nat, reported : Nat]
  <2> DEFINE z == irq.left - 1
  <2>1. z \in Nat /\ irq.reported \in Nat
    BY <1>1 DEF TypeOK, Phase, Places
  <2>2. irq' = [pc |-> "loop", left |-> z, reported |-> irq.reported]
    BY <1>1 DEF TypeOK
  <2> HIDE DEF z
  <2>3. QED
    BY <2>1, <2>2
<1>6. TypeOK'
  BY <1>1, <1>3, <1>4, <1>5 DEF TypeOK
<1>7. EnabledWhenUp'
  BY <1>1, <1>3 DEF TypeOK, Phase, EnabledWhenUp
<1>8. RunningWhenUp'
  BY <1>1 DEF TypeOK, Phase, RunningWhenUp
<1>9. FreshStart'
  BY <1>1, <1>3 DEF TypeOK, Phase, FreshStart
<1>10. Places'
  BY <1>1, <1>3 DEF TypeOK, Phase, Places
<1>11. QED
  BY <1>6, <1>7, <1>8, <1>9, <1>10 DEF Phase

\* What a transmission does, in the terms of the ring.
LEMMA TransmitEffect ==
  ASSUME TypeOK, NEW len \in 2 .. PageWords, Transmit(len)
  PROVE  /\ eng.at \in 0 .. Capacity - 1 /\ (eng.at % PageWords) + len <= PageWords
         /\ eng.running = TRUE /\ line.unacked + PageWords <= Capacity
         /\ ring' = Written(ring, eng.at, len, sent + 1)
         /\ ring' \in RingPages
         /\ eng'.at = BoardPlace(eng.at + len) % Capacity
         /\ eng'.at \in 0 .. Capacity - 1
         /\ eng' = [eng EXCEPT !.at = BoardPlace(eng.at + len) % Capacity]
         /\ line'.unacked = line.unacked + (BoardPlace(eng.at + len) - eng.at)
         /\ line'.unacked \in line.unacked .. Capacity
         /\ line'.overflow = FALSE => line.overflow = FALSE /\ line'.pending = line.pending + 1
         /\ line' \in [raised : BOOLEAN, armed : BOOLEAN, pending : 0 .. CountMax,
                       overflow : BOOLEAN, unacked : 0 .. Capacity]
         /\ sent' = sent + 1
         /\ UNCHANGED <<drv, decl, pages, ctl, irq, used, handed, skewed, unstopped>>
<1> USE CapacityNat, MessagingAssumption
<1> DEFINE at == eng.at
           next == BoardPlace(at + len)
           full == line.pending = CountMax
           up == line.raised \/ line.armed
           over == line.overflow \/ full
           count == IF full THEN CountMax ELSE line.pending + 1
           un == line.unacked + (next - at)
<1>1. /\ at \in 0 .. Capacity - 1 /\ at \in Nat /\ Capacity \in Nat
      /\ ring \in RingPages /\ DOMAIN ring = 0 .. Capacity - 1
      /\ line.pending \in 0 .. CountMax /\ line.unacked \in 0 .. Capacity
      /\ line.overflow \in BOOLEAN /\ sent \in Nat
  BY DEF TypeOK, RingPages
<1>2. eng.running = TRUE /\ (at % PageWords) + len <= PageWords
      /\ line.unacked + PageWords <= Capacity
  BY DEF Transmit, TypeOK
<1>3. /\ ring' = [o \in DOMAIN ring |->
                    IF o \in at .. at + len - 1
                    THEN [id |-> sent + 1, at |-> o - at, len |-> len] ELSE ring[o]]
      /\ eng' = [eng EXCEPT !.at = next % Capacity]
      /\ line' = [raised |-> up, armed |-> FALSE, pending |-> count, overflow |-> over,
                  unacked |-> un]
      /\ sent' = sent + 1
      /\ UNCHANGED <<drv, decl, pages, ctl, irq, used, handed, skewed, unstopped>>
  BY DEF Transmit, historyVars
<1>4. /\ next \in at + len .. at + len + 1 /\ next - at <= PageWords /\ next <= Capacity
      /\ at + len <= Capacity
  BY <1>1, <1>2, PlaceAfter
<1> HIDE DEF next
<1>5. next \in Nat /\ next % Capacity \in 0 .. Capacity - 1
  <2>1. next \in Nat /\ Capacity \in Nat \ {0}
    BY <1>1, <1>4
  <2>2. QED
    BY <2>1
<1>6. un \in line.unacked .. Capacity /\ un \in 0 .. Capacity
  <2> DEFINE b == next - at
  <2>1. b \in Nat /\ b <= PageWords
    BY <1>1, <1>4
  <2> DEFINE u == line.unacked
  <2>2. un = u + b /\ u \in 0 .. Capacity /\ u + PageWords <= Capacity
    BY <1>1, <1>2
  <2> HIDE DEF b, un, u
  <2>3. un \in u .. Capacity /\ un \in 0 .. Capacity
    BY <2>1, <2>2
  <2>4. QED
    BY <2>3 DEF u
<1>7. count \in 0 .. CountMax /\ up \in BOOLEAN /\ over \in BOOLEAN
      /\ (over = FALSE => line.overflow = FALSE /\ count = line.pending + 1)
  <2>1. count \in 0 .. CountMax
    BY <1>1
  <2>2. up \in BOOLEAN /\ over \in BOOLEAN
    BY Zenon
  <2>3. ASSUME over = FALSE PROVE line.overflow = FALSE /\ full = FALSE
    <3> HIDE DEF full
    <3>1. line.overflow \in BOOLEAN /\ full \in BOOLEAN
      BY <1>1 DEF full
    <3>2. QED
      BY <2>3, <3>1, Zenon
  <2>4. QED
    BY <2>1, <2>2, <2>3
<1>8. ring' = Written(ring, at, len, sent + 1)
  BY <1>1, <1>3 DEF Written
<1>9. ring' \in RingPages
  <2>1. \A o \in 0 .. Capacity - 1 : ring[o] \in RingWord
    BY <1>1 DEF RingPages
  <2>2. \A o \in 0 .. Capacity - 1 : o \in at .. at + len - 1 =>
          [id |-> sent + 1, at |-> o - at, len |-> len] \in RingWord
    BY <1>1 DEF RingWord
  <2>3. QED
    BY <1>1, <1>3, <2>1, <2>2 DEF RingPages
<1>10. eng'.at = next % Capacity
  BY <1>3 DEF TypeOK
<1> HIDE DEF un, count, up, over
<1>11. line' \in [raised : BOOLEAN, armed : BOOLEAN, pending : 0 .. CountMax,
                  overflow : BOOLEAN, unacked : 0 .. Capacity]
       /\ line'.unacked = un /\ line'.overflow = over /\ line'.pending = count
  BY <1>3, <1>6, <1>7, Zenon
<1>12. line'.overflow = FALSE => line.overflow = FALSE /\ line'.pending = line.pending + 1
  BY <1>7, <1>11
<1>13. line'.unacked = line.unacked + (next - at)
  BY <1>11 DEF un
<1>14. line'.unacked \in line.unacked .. Capacity
  BY <1>6, <1>11
<1>15. QED
  BY <1>1, <1>2, <1>3, <1>5, <1>8, <1>9, <1>10, <1>11, <1>12, <1>13, <1>14 DEF next

LEMMA TransmitPhase ==
  ASSUME TypeOK, Phase, NEW len \in 2 .. PageWords, Transmit(len)
  PROVE  TypeOK' /\ Phase'
<1> USE CapacityNat, MessagingAssumption
<1>1. /\ eng.running = TRUE
      /\ ring' \in RingPages
      /\ eng'.at \in 0 .. Capacity - 1
      /\ eng' = [eng EXCEPT !.at = BoardPlace(eng.at + len) % Capacity]
      /\ line'.unacked \in line.unacked .. Capacity
      /\ line' \in [raised : BOOLEAN, armed : BOOLEAN, pending : 0 .. CountMax,
                    overflow : BOOLEAN, unacked : 0 .. Capacity]
      /\ sent' = sent + 1
      /\ UNCHANGED <<drv, decl, pages, ctl, irq, used, handed, skewed, unstopped>>
  BY TransmitEffect
<1> DEFINE z == BoardPlace(eng.at + len) % Capacity
<1>2. eng' = [eng EXCEPT !.at = z]
  BY <1>1
<1> HIDE DEF z
<1>3. z \in 0 .. Capacity - 1 /\ eng'.enabled = eng.enabled /\ eng'.running = eng.running
  BY <1>1, <1>2 DEF TypeOK
<1>4. eng' \in [enabled : BOOLEAN, running : BOOLEAN, resetting : BOOLEAN, declared : BOOLEAN,
                at : 0 .. Capacity - 1]
  BY <1>2, <1>3 DEF TypeOK
<1>5. TypeOK'
  BY <1>1, <1>4 DEF TypeOK
<1>6. EnabledWhenUp'
  BY <1>1, <1>3 DEF Phase, EnabledWhenUp
<1>7. RunningWhenUp'
  BY <1>1, <1>3 DEF Phase, RunningWhenUp
<1>8. FreshStart'
  BY <1>1, <1>3 DEF TypeOK, Phase, FreshStart
<1>9. Places'
  BY <1>1, <1>3 DEF TypeOK, Phase, Places
<1>10. QED
  BY <1>5, <1>6, <1>7, <1>8, <1>9 DEF Phase

-----------------------------------------------------------------------------
(* What the steps do to the transmissions outstanding.                     *)

\* A step that changes none of it.
LEMMA ChainFrame ==
  Chain /\ UNCHANGED <<ctl, eng, ring, line, irq, sent, handed, skewed>> => Chain'
  BY DEF Chain, Matched

\* A step after which the engine is not enabled.
LEMMA ChainOff == eng'.enabled = FALSE => Chain'
  BY DEF Chain

\* The steps of the driver.
LEMMA DriverChain == IInv /\ Driver => Chain'
<1> SUFFICES ASSUME TypeOK, Phase, Chain, Driver PROVE Chain'
  BY DEF IInv
<1> USE CapacityNat, MessagingAssumption
<1>1. CASE InitMem \/ EarlierFails \/ Stopped \/ StopTimesOut \/ StartReturns \/ Configure
           \/ LoadBitstream \/ Exit
  <2>1. UNCHANGED <<ctl, eng, ring, line, irq, sent, handed, skewed>>
    BY <1>1 DEF InitMem, EarlierFails, Stopped, StopTimesOut, StartReturns, Configure,
                LoadBitstream, Exit, boardVars, historyVars
  <2>2. QED
    BY <2>1, ChainFrame
<1>2. CASE InitController \/ InitBuffersFails \/ FreeAddresses \/ InitBuffers
  <2>1. drv.pc \notin {"starting", "up", "stop"} /\ eng'.enabled = eng.enabled
    BY <1>2 DEF InitController, InitBuffersFails, FreeAddresses, InitBuffers, At, boardVars,
                TypeOK
  <2>2. eng.enabled = FALSE
    BY <2>1 DEF Phase, EnabledWhenUp, TypeOK
  <2>3. QED
    BY <2>1, <2>2, ChainOff
<1>3. CASE StopEngine \/ ResetEngine
  <2>1. eng'.enabled = FALSE
    BY <1>3 DEF StopEngine, ResetEngine, TypeOK
  <2>2. QED
    BY <2>1, ChainOff
<1>4. CASE Remove
  <2>1. SUFFICES ASSUME eng'.enabled /\ ~skewed' /\ ~line'.overflow PROVE \E d : Matched(d)'
    BY DEF Chain
  <2>2. /\ irq.pc = "idle" /\ irq'.pc = "freed" /\ irq'.left = irq.left
        /\ UNCHANGED <<ctl, eng, ring, line, sent, handed, skewed>>
    BY <1>4 DEF Remove, TypeOK, boardVars, historyVars
  <2>3. PICK d : Matched(d)
    BY <2>1, <2>2 DEF Chain
  <2>4. Matched(d)'
    BY <2>2, <2>3 DEF Matched
  <2>5. QED
    BY <2>4
<1>5. CASE StartEngine
  <2>1. SUFFICES ASSUME eng'.enabled /\ ~skewed' /\ ~line'.overflow PROVE \E d : Matched(d)'
    BY DEF Chain
  <2>2. /\ drv.pc = "start" /\ eng'.at = eng.at /\ eng'.running = eng.running
        /\ UNCHANGED <<ctl, ring, line, sent, irq, handed, skewed>>
    BY <1>5 DEF StartEngine, At, TypeOK, historyVars
  <2>3. /\ eng.at = 0 /\ ctl.read_offset = 0 /\ sent = handed /\ irq.pc = "idle"
        /\ line.pending = 0 /\ irq.left = 0
    BY <2>1, <2>2 DEF Phase, FreshStart, Places
  <2>4. sent \in Nat /\ line.unacked \in Nat
    BY DEF TypeOK
  <2> DEFINE d == [i \in Nat |-> 0]
  <2>5. Linked(ring, d, sent, sent, 0, 0) /\ d[sent + 1] = 0
    BY <2>4, LinkedEmpty
  <2> HIDE DEF d
  <2>6. Matched(d)'
    BY <2>2, <2>3, <2>4, <2>5 DEF Matched
  <2>7. QED
    BY <2>6
<1>6. QED
  BY <1>1, <1>2, <1>3, <1>4, <1>5 DEF Driver

\* A transmission goes behind the others.
LEMMA TransmitChain ==
  ASSUME IInv, NEW len \in 2 .. PageWords, Transmit(len)
  PROVE  Chain'
<1> USE CapacityNat, MessagingAssumption
<1> SUFFICES ASSUME eng'.enabled, ~skewed', ~line'.overflow PROVE \E d : Matched(d)'
  BY DEF Chain
<1>1. TypeOK /\ Chain /\ TypeOK'
  BY TransmitPhase DEF IInv
<1>2. /\ eng.at \in 0 .. Capacity - 1 /\ (eng.at % PageWords) + len <= PageWords
      /\ eng.running = TRUE /\ line.unacked + PageWords <= Capacity
      /\ ring' = Written(ring, eng.at, len, sent + 1)
      /\ eng'.at = BoardPlace(eng.at + len) % Capacity
      /\ eng' = [eng EXCEPT !.at = BoardPlace(eng.at + len) % Capacity]
      /\ line'.unacked = line.unacked + (BoardPlace(eng.at + len) - eng.at)
      /\ line'.overflow = FALSE => line.overflow = FALSE /\ line'.pending = line.pending + 1
      /\ sent' = sent + 1
      /\ UNCHANGED <<drv, decl, pages, ctl, irq, used, handed, skewed, unstopped>>
  BY <1>1, TransmitEffect
<1> DEFINE b == BoardPlace(eng.at + len) - eng.at
           at2 == BoardPlace(eng.at + len) % Capacity
<1>3. eng' = [eng EXCEPT !.at = at2] /\ line'.unacked = line.unacked + b
  BY <1>2
<1>4. b \in Nat
  <2>1. BoardPlace(eng.at + len) \in eng.at + len .. eng.at + len + 1
    BY <1>2, PlaceAfter
  <2>2. QED
    BY <1>2, <2>1
<1> HIDE DEF b, at2
<1>5. eng'.enabled = eng.enabled /\ eng'.running = TRUE
  BY <1>1, <1>2, <1>3 DEF TypeOK
<1>6. line'.overflow = FALSE
  BY <1>1 DEF TypeOK
<1>7. line.overflow = FALSE /\ line'.pending = line.pending + 1
  BY <1>2, <1>6
<1>8. PICK d : Matched(d)
  BY <1>1, <1>2, <1>5, <1>7 DEF Chain
<1>9. /\ Linked(ring, d, handed, sent, ctl.read_offset, eng.at)
      /\ sent - handed = irq.left + line.pending
      /\ d[sent + 1] <= line.unacked
      /\ irq.pc \in {"loop", "get"} =>
           d[sent + 1] - d[handed + irq.left + 1] <= line.unacked - irq.reported
  BY <1>8 DEF Matched
<1>10. /\ d \in [Nat -> Nat] /\ handed \in Nat /\ sent \in Nat /\ handed <= sent
       /\ irq.left \in Nat /\ line.pending \in Nat /\ line.unacked \in Nat
       /\ irq.reported \in Nat
  BY <1>1, <1>9 DEF Linked, TypeOK
<1>11. d[sent + 1] \in Nat /\ d[sent + 1] + PageWords <= Capacity
  BY <1>2, <1>9, <1>10
<1>0. PICK e : e = Extended(d, sent, b)
  OBVIOUS
<1>12. Linked(ring', e, handed, sent + 1, ctl.read_offset, eng'.at)
  <2>1. ring \in RingPages
    BY <1>1 DEF TypeOK
  <2>2. Linked(Written(ring, eng.at, len, sent + 1),
               Extended(d, sent, BoardPlace(eng.at + len) - eng.at), handed, sent + 1,
               ctl.read_offset, BoardPlace(eng.at + len) % Capacity)
    BY <1>2, <1>9, <1>11, <2>1, LinkedPut
  <2>3. QED
    BY <1>0, <1>2, <2>2 DEF b
<1>13. e[(sent + 1) + 1] = d[sent + 1] + b
  <2>1. (sent + 1) + 1 = sent + 2 /\ sent + 2 \in Nat
    BY <1>10
  <2>2. QED
    BY <1>0, <2>1 DEF Extended
<1>14. e[handed + irq.left + 1] = d[handed + irq.left + 1] /\ d[handed + irq.left + 1] \in Nat
  <2>1. handed + irq.left + 1 \in Nat /\ handed + irq.left + 1 # sent + 2
    BY <1>9, <1>10
  <2>2. QED
    BY <1>0, <1>10, <2>1 DEF Extended
<1>15. Linked(ring', e, handed', sent', ctl'.read_offset, eng'.at)
  BY <1>2, <1>12
<1>16. sent' - handed' = irq'.left + line'.pending
  BY <1>2, <1>7, <1>9, <1>10
<1>17. e[sent' + 1] <= line'.unacked
  BY <1>2, <1>3, <1>4, <1>9, <1>10, <1>11, <1>13
<1>18. ASSUME irq'.pc \in {"loop", "get"}
       PROVE  e[sent' + 1] - e[handed' + irq'.left + 1] <= line'.unacked - irq'.reported
  <2>1. d[sent + 1] - d[handed + irq.left + 1] <= line.unacked - irq.reported
    BY <1>2, <1>9, <1>18
  <2>2. e[sent' + 1] = d[sent + 1] + b
    BY <1>2, <1>13
  <2>3. e[handed' + irq'.left + 1] = d[handed + irq.left + 1]
    BY <1>2, <1>14
  <2>4. (d[sent + 1] + b) - d[handed + irq.left + 1] <= (line.unacked + b) - irq.reported
    BY <1>4, <1>10, <1>11, <1>14, <2>1
  <2>5. QED
    BY <1>2, <1>3, <2>2, <2>3, <2>4
<1>19. Matched(e)'
  <2>1. ~eng'.running => sent' = handed'
    BY <1>5
  <2>2. QED
    BY <1>15, <1>16, <1>17, <1>18, <2>1, Zenon DEF Matched
<1>20. QED
  BY <1>19

\* The other steps of the board.
LEMMA EngineChain == IInv /\ (EngineRuns \/ EngineHalts) => Chain'
<1> SUFFICES ASSUME TypeOK, Phase, Chain, EngineRuns \/ EngineHalts PROVE Chain'
  BY DEF IInv
<1>1. CASE EngineHalts
  <2>1. eng'.enabled = FALSE
    BY <1>1 DEF EngineHalts, TypeOK
  <2>2. QED
    BY <2>1, ChainOff
<1>2. CASE EngineRuns
  <2>1. SUFFICES ASSUME eng'.enabled /\ ~skewed' /\ ~line'.overflow PROVE \E d : Matched(d)'
    BY DEF Chain
  <2>2. /\ eng'.at = eng.at /\ eng'.running = TRUE /\ eng'.enabled = eng.enabled
        /\ UNCHANGED <<ctl, ring, line, irq, sent, handed, skewed>>
    BY <1>2 DEF EngineRuns, TypeOK, historyVars
  <2>3. PICK d : Matched(d)
    BY <2>1, <2>2 DEF Chain
  <2>4. Matched(d)'
    BY <2>2, <2>3 DEF Matched
  <2>5. QED
    BY <2>4
<1>3. QED
  BY <1>1, <1>2

\* The steps of the event interrupt's handler.
LEMMA CountChain == IInv /\ IrqCount => Chain'
<1> SUFFICES ASSUME TypeOK, Phase, Chain, IrqCount,
                    eng'.enabled, ~skewed', ~line'.overflow
             PROVE  \E d : Matched(d)'
  BY DEF IInv, Chain
<1>1. /\ irq.pc = "idle" /\ UNCHANGED <<ctl, eng, ring, sent, handed>>
      /\ irq' = [pc |-> "loop", reported |-> line.unacked,
                 left |-> IF line.overflow THEN 0 ELSE line.pending]
      /\ line' = Counted
  BY DEF IrqCount
<1>2. ~skewed /\ ~line.overflow
  BY DEF IrqCount
<1>3. irq'.left = line.pending /\ irq'.reported = line.unacked
  BY <1>1, <1>2
<1>4. line'.pending = 0 /\ line'.unacked = line.unacked
  BY <1>1 DEF Counted, TypeOK
<1>5. irq.left = 0
  BY <1>1 DEF Phase, Places
<1>6. PICK d : Matched(d)
  BY <1>1, <1>2 DEF Chain
<1>7. /\ Linked(ring, d, handed, sent, ctl.read_offset, eng.at)
      /\ sent - handed = irq.left + line.pending
      /\ d[sent + 1] <= line.unacked
      /\ ~eng.running => sent = handed
  BY <1>6 DEF Matched
<1>8. line.pending \in Nat /\ line.unacked \in Nat /\ sent \in Nat /\ handed \in Nat
      /\ d \in [Nat -> Nat]
  BY <1>7, MessagingAssumption, CapacityNat DEF TypeOK, Linked
<1>9. handed + irq'.left + 1 = sent + 1 /\ d[sent + 1] \in Nat
  BY <1>3, <1>5, <1>7, <1>8
<1>10. d[sent + 1] - d[handed + irq'.left + 1] <= line'.unacked - irq'.reported
  BY <1>3, <1>4, <1>8, <1>9
<1>11. sent - handed = irq'.left + line'.pending
  BY <1>3, <1>4, <1>5, <1>7, <1>8
<1>12. Matched(d)'
  BY <1>1, <1>4, <1>7, <1>10, <1>11 DEF Matched
<1>13. QED
  BY <1>12

LEMMA CheckChain == IInv /\ IrqCheck => Chain'
<1> SUFFICES ASSUME TypeOK, Phase, Chain, IrqCheck,
                    eng'.enabled, ~skewed', ~line'.overflow
             PROVE  \E d : Matched(d)'
  BY DEF IInv, Chain
<1>1. /\ irq.pc = "loop" /\ irq.left > 0
      /\ UNCHANGED <<ctl, eng, ring, line, sent, handed, skewed>>
      /\ irq' = IF eng.enabled /\ eng.running THEN [irq EXCEPT !.pc = "get"]
                ELSE [irq EXCEPT !.left = @ - 1]
  BY DEF IrqCheck, boardVars, historyVars
<1>2. PICK d : Matched(d)
  BY <1>1 DEF Chain
<1>3. eng.running
  <2>1. sent - handed = irq.left + line.pending /\ (~eng.running => sent = handed)
    BY <1>2 DEF Matched
  <2>2. sent \in Nat /\ handed \in Nat /\ irq.left \in Nat /\ line.pending \in Nat
    BY MessagingAssumption DEF TypeOK
  <2>3. sent # handed
    BY <1>1, <2>1, <2>2
  <2>4. QED
    BY <2>1, <2>3
<1>4. irq' = [irq EXCEPT !.pc = "get"]
  BY <1>1, <1>3
<1>5. irq'.left = irq.left /\ irq'.reported = irq.reported
  BY <1>4 DEF TypeOK
<1>6. Matched(d)'
  BY <1>1, <1>2, <1>5 DEF Matched
<1>7. QED
  BY <1>6

LEMMA GetChain == IInv /\ IrqGet => Chain'
<1> SUFFICES ASSUME TypeOK, Phase, Chain, IrqGet,
                    eng'.enabled, ~skewed', ~line'.overflow
             PROVE  \E d : Matched(d)'
  BY DEF IInv, Chain
<1> USE CapacityNat, MessagingAssumption
<1> DEFINE ro == ctl.read_offset
           n == ring[ro].len
<1>1. /\ irq.pc = "get" /\ irq' = [irq EXCEPT !.pc = "loop", !.left = @ - 1]
      /\ UNCHANGED <<eng, ring, line, sent, skewed>>
  BY DEF IrqGet, boardVars
<1>2. PICK d : Matched(d)
  BY <1>1 DEF Chain
<1>3. /\ Linked(ring, d, handed, sent, ro, eng.at)
      /\ sent - handed = irq.left + line.pending
      /\ d[sent + 1] <= line.unacked
      /\ d[sent + 1] - d[handed + irq.left + 1] <= line.unacked - irq.reported
      /\ ~eng.running => sent = handed
  BY <1>1, <1>2 DEF Matched
<1>4. /\ d \in [Nat -> Nat] /\ handed \in Nat /\ sent \in Nat
      /\ irq.left \in Nat /\ irq.left > 0 /\ line.pending \in Nat /\ line.unacked \in Nat
      /\ irq.reported \in Nat /\ ring \in RingPages
      /\ \A i, j \in handed + 1 .. sent + 1 : i <= j => d[i] <= d[j]
  BY <1>1, <1>3 DEF Linked, TypeOK, Phase, Places
<1>5. handed < sent
  BY <1>3, <1>4
<1>6. Stored(ring, ro, handed + 1) /\ ro \in 0 .. Capacity - 1 /\ handed + 1 \in Nat
  BY <1>3, <1>4, <1>5, LinkedHead
<1>7. Valid(ro, n) /\ ring[ro].at = 0
  BY <1>4, <1>6, StoredSpan
<1>8. ctl' = [ctl EXCEPT !.read_offset = NextOffset(@, n)] /\ handed' = handed + 1
  <2>1. LengthsRead(ring[ro]) = {n}
    BY <1>7 DEF LengthsRead
  <2>2. \E len \in {n} :
          IF Valid(ro, len)
          THEN /\ ctl' = [ctl EXCEPT !.read_offset = NextOffset(@, len)]
               /\ handed' = IF skewed THEN handed ELSE handed + 1
          ELSE UNCHANGED <<ctl, handed>>
    BY <2>1 DEF IrqGet
  <2> HIDE DEF n
  <2>3. /\ ctl' = [ctl EXCEPT !.read_offset = NextOffset(@, n)]
        /\ handed' = IF skewed THEN handed ELSE handed + 1
    BY <1>7, <2>2 DEF n
  <2>4. QED
    BY <1>1, <2>3
<1>9. ctl'.read_offset = NextOffset(ro, n)
  <2> DEFINE z == NextOffset(ro, n)
  <2>1. ctl' = [ctl EXCEPT !.read_offset = z]
    BY <1>8
  <2> HIDE DEF z
  <2>2. ctl'.read_offset = z
    BY <2>1 DEF TypeOK
  <2>3. QED
    BY <2>2 DEF z
<1>10. irq'.left = irq.left - 1 /\ irq'.reported = irq.reported
  BY <1>1 DEF TypeOK
<1>0. PICK e : e = Fetched(d, handed, sent)
  OBVIOUS
<1>11. Linked(ring, e, handed + 1, sent, NextOffset(ro, n), eng.at)
  BY <1>0, <1>3, <1>4, <1>5, LinkedGet
<1> HIDE DEF ro, n
<1>12. \A i \in handed + 2 .. sent + 1 :
         e[i] = d[i] - d[handed + 2] /\ d[i] \in Nat /\ d[handed + 2] \in Nat
  BY <1>0, <1>4 DEF Fetched
<1>13. sent + 1 \in handed + 2 .. sent + 1 /\ handed + irq.left + 1 \in handed + 2 .. sent + 1
       /\ handed' + irq'.left + 1 = handed + irq.left + 1
  BY <1>3, <1>4, <1>5, <1>8, <1>10
<1> DEFINE j == handed + irq.left + 1
           x == d[handed + 2]
<1>14. e[sent + 1] = d[sent + 1] - x /\ e[j] = d[j] - x /\ x \in Nat /\ d[sent + 1] \in Nat
       /\ d[j] \in Nat
  BY <1>12, <1>13
<1> HIDE DEF j, x
<1>15. e[sent + 1] <= line.unacked
  BY <1>3, <1>4, <1>14
<1>16. e[sent + 1] - e[j] <= line.unacked - irq.reported
  <2>1. d[sent + 1] - d[j] <= line.unacked - irq.reported
    BY <1>3 DEF j
  <2>2. QED
    BY <1>4, <1>14, <2>1
<1>17. sent - (handed + 1) = (irq.left - 1) + line.pending
  BY <1>3, <1>4
<1>18. Linked(ring', e, handed', sent', ctl'.read_offset, eng'.at)
  BY <1>1, <1>8, <1>9, <1>11
<1>19. sent' - handed' = irq'.left + line'.pending
  BY <1>1, <1>8, <1>10, <1>17
<1>20. e[sent' + 1] <= line'.unacked
  BY <1>1, <1>15
<1>21. e[sent' + 1] - e[handed' + irq'.left + 1] <= line'.unacked - irq'.reported
  BY <1>1, <1>10, <1>13, <1>16 DEF j
<1>22. ~eng'.running => sent' = handed'
  BY <1>1, <1>3, <1>4, <1>5
<1>23. Matched(e)'
  BY <1>18, <1>19, <1>20, <1>21, <1>22, Zenon DEF Matched
<1>24. QED
  BY <1>23

LEMMA AckChain == IInv /\ IrqAck => Chain'
<1> SUFFICES ASSUME TypeOK, Phase, Chain, IrqAck,
                    eng'.enabled, ~skewed', ~line'.overflow
             PROVE  \E d : Matched(d)'
  BY DEF IInv, Chain
<1> USE CapacityNat, MessagingAssumption
<1>1. /\ irq.pc = "loop" /\ irq.left = 0 /\ irq'.pc = "idle" /\ irq'.left = 0
      /\ UNCHANGED <<ctl, eng, ring, sent, handed, skewed>>
  BY DEF IrqAck, historyVars
<1>2. line'.unacked = line.unacked - irq.reported /\ line'.pending = line.pending
      /\ line'.overflow = line.overflow
  BY DEF IrqAck, TypeOK
<1>3. PICK d : Matched(d)
  BY <1>1, <1>2 DEF Chain
<1>4. /\ Linked(ring, d, handed, sent, ctl.read_offset, eng.at)
      /\ sent - handed = irq.left + line.pending
      /\ d[sent + 1] - d[handed + irq.left + 1] <= line.unacked - irq.reported
      /\ ~eng.running => sent = handed
  BY <1>1, <1>3 DEF Matched
<1>5. d[handed + 1] = 0 /\ d \in [Nat -> Nat] /\ sent \in Nat /\ handed \in Nat
  BY <1>4 DEF Linked
<1>6. d[sent + 1] <= line'.unacked
  <2>1. d[handed + irq.left + 1] = 0 /\ d[sent + 1] \in Nat
    BY <1>1, <1>5
  <2>2. line.unacked \in Nat /\ irq.reported \in Nat
    BY DEF TypeOK
  <2>3. QED
    BY <1>2, <1>4, <2>1, <2>2
<1>7. Matched(d)'
  BY <1>1, <1>2, <1>4, <1>6 DEF Matched
<1>8. QED
  BY <1>7

LEMMA HandlerChain == IInv /\ Handler => Chain'
<1> SUFFICES ASSUME IInv, Handler PROVE Chain'
  OBVIOUS
<1>1. CASE IrqEventOnly \/ IrqGetFreed
  <2>1. (decl = FALSE \/ ctl.addresses = FALSE) /\ eng' = eng
    BY <1>1 DEF IrqEventOnly, IrqGetFreed, IInv, TypeOK, boardVars
  <2>2. eng.enabled = FALSE
    BY <2>1 DEF IInv, Phase, EnabledWhenUp, TypeOK
  <2>3. QED
    BY <2>1, <2>2, ChainOff
<1>2. QED
  BY <1>1, CountChain, CheckChain, GetChain, AckChain DEF Handler

-----------------------------------------------------------------------------
(* The theorems.                                                           *)

\* Every step keeps the invariant.
LEMMA NextKeepsIInv == IInv /\ [Next]_vars => IInv'
<1> SUFFICES ASSUME IInv, [Next]_vars PROVE IInv'
  OBVIOUS
<1>1. CASE Driver
  <2>1. TypeOK' /\ Phase'
    BY <1>1, InitMemPhase, EarlierFailsPhase, InitControllerPhase, StopEnginePhase,
       StoppedPhase, StopTimesOutPhase, ResetEnginePhase, InitBuffersPhase,
       InitBuffersFailsPhase, StartEnginePhase, StartReturnsPhase, ConfigurePhase,
       RemovePhase, FreeAddressesPhase, LoadBitstreamPhase, ExitPhase DEF Driver, IInv
  <2>2. QED
    BY <1>1, <2>1, DriverChain DEF IInv
<1>2. CASE EngineRuns \/ EngineHalts
  <2>1. TypeOK' /\ Phase'
    BY <1>2, EngineRunsPhase, EngineHaltsPhase DEF IInv
  <2>2. QED
    BY <1>2, <2>1, EngineChain DEF IInv
<1>3. CASE \E len \in 2 .. PageWords : Transmit(len)
  <2>1. PICK len \in 2 .. PageWords : Transmit(len)
    BY <1>3
  <2>2. TypeOK /\ Phase
    BY DEF IInv
  <2>3. TypeOK' /\ Phase'
    BY <2>1, <2>2, TransmitPhase
  <2>4. Chain'
    BY <2>1, TransmitChain
  <2>5. QED
    BY <2>3, <2>4 DEF IInv
<1>4. CASE Handler
  <2>1. TypeOK' /\ Phase'
    BY <1>4, IrqCountPhase, IrqEventOnlyPhase, IrqCheckPhase, IrqGetPhase, IrqGetFreedPhase,
       IrqAckPhase DEF Handler, IInv
  <2>2. QED
    BY <1>4, <2>1, HandlerChain DEF IInv
<1>5. CASE UNCHANGED vars
  <2>1. UNCHANGED <<ctl, eng, ring, line, irq, sent, handed, skewed>>
    BY <1>5 DEF vars
  <2>2. Chain'
    BY <2>1, ChainFrame DEF IInv
  <2>3. TypeOK'
    BY <1>5 DEF vars, IInv, TypeOK
  <2>4. Phase'
    BY <1>5 DEF vars, IInv, Phase, EnabledWhenUp, RunningWhenUp, FreshStart, Places
  <2>5. QED
    BY <2>2, <2>3, <2>4 DEF IInv
<1>6. QED
  BY <1>1, <1>2, <1>3, <1>4, <1>5 DEF Next, Board

LEMMA SpecIInv == Spec => []IInv
  BY InitIInv, NextKeepsIInv, PTL DEF Spec

\* The variables of the messaging DMA keep their types: in particular the engine and the
\* read offset stay inside the ring, and no more words are acknowledged than are pending
\* (me6_messaging_irq, get_next_transmission).
THEOREM MessagingTypeCorrect == Spec => []TypeOK
<1>1. IInv => TypeOK
  BY DEF IInv
<1>2. QED
  BY <1>1, SpecIInv, PTL

\* The invariant gives what the run checks.
LEMMA IInvAgreed == IInv => RingAgreed
<1> SUFFICES ASSUME IInv PROVE InStep /\ PagesOutliveEngine
  BY DEF RingAgreed
<1>1. PagesOutliveEngine
  BY DEF IInv, Phase, EnabledWhenUp, RunningWhenUp, Places, PagesOutliveEngine, TypeOK
<1>2. ASSUME eng.enabled /\ ~skewed /\ ~line.overflow
      PROVE  sent - handed = irq.left + line.pending
  BY <1>2 DEF IInv, Chain, Matched
<1>3. ASSUME eng.enabled /\ ~skewed /\ ~line.overflow, sent > handed
      PROVE  /\ Valid(ctl.read_offset, ring[ctl.read_offset].len)
             /\ \A k \in 0 .. ring[ctl.read_offset].len - 1 :
                  ring[ctl.read_offset + k] =
                    [id |-> handed + 1, at |-> k, len |-> ring[ctl.read_offset].len]
  <2> DEFINE o == ctl.read_offset
  <2>1. PICK d : Linked(ring, d, handed, sent, o, eng.at)
    BY <1>3 DEF IInv, Chain, Matched
  <2>2. ring \in RingPages /\ handed < sent
    BY <1>3 DEF IInv, TypeOK
  <2>3. Stored(ring, o, handed + 1) /\ handed + 1 \in Nat /\ o \in 0 .. Capacity - 1
    BY <2>1, <2>2, LinkedHead
  <2>4. Valid(o, ring[o].len)
    BY <2>2, <2>3, StoredSpan
  <2>5. QED
    BY <2>3, <2>4 DEF Stored
<1>4. InStep
  BY <1>2, <1>3 DEF InStep
<1>5. QED
  BY <1>1, <1>4

\* Driver and board agree about the ring: unless transmissions were lost to an overflow of
\* the count or the engine was not reset, what get_next_transmission reads next is the
\* oldest transmission outstanding, whole, and as many are outstanding as are counted; and
\* the pages are not freed under an engine that stopped in time
\* (messaging_dma_init_buffers, dma_controller_base_abort, me6_impulse_exit).
THEOREM RingIsAgreed == Spec => []RingAgreed
  BY IInvAgreed, SpecIInv, PTL
=============================================================================
