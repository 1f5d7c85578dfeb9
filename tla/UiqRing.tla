------------------------------- MODULE UiqRing -------------------------------
(***************************************************************************)
(* The ring buffer of a user interrupt queue (lib/uiq/uiq_base.c): storing *)
(* words that come from the board or from a client, handing them out,      *)
(* replacing the buffer, and the bookkeeping of what did not fit.          *)
(*                                                                         *)
(* A word is what the driver looks at (its control bits, and for a CXP     *)
(* header the packet length) together with its origin: seq numbers the     *)
(* words in the order their source produced them, part is 0 for the word   *)
(* itself and 1 .. TsWords for the timestamp chunks that follow it, and    *)
(* first marks the first word of a packet.                                 *)
(***************************************************************************)
EXTENDS Integers, Sequences, SequencesExt

CONSTANT TsWords    \* chunks of a timestamp; 4 in the source

ASSUME TsAssumption == TsWords \in Nat \ {0}

Protocols == {"RAW", "LEGACY", "VA_EVENT"}

Word == [seq : Nat, part : 0 .. TsWords, first : BOOLEAN, eot : BOOLEAN,
         insert_ts : BOOLEAN, dataloss : BOOLEAN, len : Nat]

\* Uninitialised memory of a buffer.
NoWord == [seq |-> 0, part |-> 0, first |-> FALSE, eot |-> FALSE,
           insert_ts |-> FALSE, dataloss |-> FALSE, len |-> 0]

\* uiq_base_init, called without a buffer.
FreshRing ==
  [data |-> [i \in {} |-> NoWord], capacity |-> 0, fill |-> 0, read_index |-> 0,
   lost_words_count |-> 0, last_words_were_lost |-> FALSE,
   last_word_was_eop |-> FALSE, is_running |-> FALSE]

Least(a, b) == IF a <= b THEN a ELSE b

\* The stored words, oldest first.
Contents(u) == [i \in 1 .. u.fill |-> u.data[(u.read_index + i - 1) % u.capacity]]

GetFreeCapacity(u) == u.capacity - u.fill

-----------------------------------------------------------------------------
RecordDiscardedWords(u, n) ==
  [u EXCEPT !.lost_words_count = @ + n, !.last_words_were_lost = TRUE]

\* What fits is stored behind the last word, the rest is lost.
PushBack(u, ws) ==
  LET n      == Least(Len(ws), GetFreeCapacity(u))
      stored == [u EXCEPT
        !.data = [i \in 0 .. u.capacity - 1 |->
                    LET k == (i - u.read_index - u.fill) % u.capacity
                    IN  IF k < n THEN ws[k + 1] ELSE u.data[i]],
        !.fill = @ + n]
  IN  IF n = Len(ws)
      THEN [stored EXCEPT !.last_words_were_lost = FALSE]
      ELSE RecordDiscardedWords(stored, Len(ws) - n)

\* The words pop_front hands out, and the ring it leaves.
FrontWords(u, n) == SubSeq(Contents(u), 1, Least(n, u.fill))

PopFront(u, n) ==
  LET m == Least(n, u.fill)
  IN  [u EXCEPT !.read_index = IF m = 0 THEN @ ELSE (@ + m) % u.capacity,
                !.fill = @ - m]

\* Mutant of ReplaceBuffer: the words before the end of the old buffer are
\* counted from its start.
ReplaceBufferUnwrapped(u, size) ==
  LET keep == Least(u.fill, size)
  IN  [u EXCEPT
        !.data = [i \in 0 .. size - 1 |-> IF i < keep THEN u.data[i] ELSE NoWord],
        !.lost_words_count = @ + (u.fill - keep),
        !.fill = keep, !.read_index = 0, !.capacity = size]

\* Mutant of ReplaceBuffer: the words that do not fit are not counted.
ReplaceBufferUncounted(u, size) ==
  LET keep == Least(u.fill, size)
  IN  [u EXCEPT
        !.data = [i \in 0 .. size - 1 |->
                    IF i < keep THEN Contents(u)[i + 1] ELSE NoWord],
        !.fill = keep, !.read_index = 0, !.capacity = size]

\* The oldest words move to the new buffer, up to its size.
ReplaceBuffer(u, size) ==
  LET keep   == Least(u.fill, size)
      before == Least(u.capacity - u.read_index, keep)
  IN  [u EXCEPT
        !.data = [i \in 0 .. size - 1 |->
                    CASE i < before               -> u.data[u.read_index + i]
                      [] i >= before /\ i < keep  -> u.data[i - before]
                      [] i >= before /\ i >= keep -> NoWord],
        !.lost_words_count = @ + (u.fill - keep),
        !.fill = keep, !.read_index = 0, !.capacity = size]

Reset(u) == [u EXCEPT !.fill = 0, !.read_index = 0, !.lost_words_count = 0]

-----------------------------------------------------------------------------
(* write_from_grabber: one word from the board.                            *)

\* push_back_decorated_with_timestamp_unchecked: the chunks follow the word and
\* take its end-of-transmission flag over.
Decorated(w) ==
  <<[w EXCEPT !.eot = FALSE]>>
  \o [i \in 1 .. TsWords |-> [NoWord EXCEPT !.seq = w.seq, !.part = i,
                                            !.eot = w.eot /\ i = TsWords]]

\* Without room for the timestamp only the word itself is stored.
PushBackDecorated(u, w) ==
  PushBack(u, IF GetFreeCapacity(u) < TsWords + 1 THEN <<w>> ELSE Decorated(w))

WriteWordWithDatalossFlag(u, w) ==
  LET v == IF u.last_words_were_lost THEN [w EXCEPT !.dataloss = TRUE] ELSE w
  IN  IF v.insert_ts THEN PushBackDecorated(u, v) ELSE PushBack(u, <<v>>)

\* Mutant of WriteVaEvent: the rest of a packet that lost words is stored.
WriteVaEventRest(u, w) ==
  [WriteWordWithDatalossFlag(u, w) EXCEPT !.last_word_was_eop = w.eot]

\* After a loss the rest of the packet is discarded too.
WriteVaEvent(u, w) ==
  LET v == IF u.last_words_were_lost /\ ~u.last_word_was_eop
           THEN RecordDiscardedWords(u, 1)
           ELSE WriteWordWithDatalossFlag(u, w)
  IN  [v EXCEPT !.last_word_was_eop = w.eot]

\* Words marked invalid never get here and are not part of the model.
WriteFromGrabber(protocol, u, w) ==
  CASE protocol = "RAW"      -> PushBack(u, <<w>>)
    [] protocol = "LEGACY"   -> WriteWordWithDatalossFlag(u, w)
    [] protocol = "VA_EVENT" -> WriteVaEvent(u, w)

\* One word after the other; the state of the ring decides what becomes of each.
WriteAllFromGrabber(protocol, u, ws) ==
  LET after[i \in 0 .. Len(ws)] ==
        IF i = 0 THEN u ELSE WriteFromGrabber(protocol, after[i - 1], ws[i])
  IN  after[Len(ws)]
=============================================================================
