--------------------------- MODULE CircularBuffer ---------------------------
(***************************************************************************)
(* util::CircularBuffer, a byte stream between a thread that writes and    *)
(* one that reads; the array grows and shrinks with what is in it.  Bytes  *)
(* are numbered in the order they are written.                             *)
(***************************************************************************)
EXTENDS ConditionalWait, Sequences, FiniteSets

CONSTANTS MinCapacity,  \* 2048
          Chunk,        \* sizes of writes and reads
          MaxBytes,     \* bound on bytes written
          RingFaults    \* conditions the code does not provide for, see the actions

CircularBufferAssumption ==
  /\ MinCapacity \in Nat \ {0} /\ Chunk \subseteq Nat \ {0} /\ MaxBytes \in Nat
  /\ RingFaults \subseteq {"gap", "overlap"}
ASSUME CircularBufferAssumption

VARIABLES data, capacity, begIndex, size, eof,
          waitToRead,
          reader,       \* where the reader is
          wanted,       \* the size it asked for
          written,      \* bytes written
          got           \* bytes read, in that order

store == <<data, capacity, begIndex, size>>
ringVars == <<store, eof, waitToRead, reader, wanted, written, got>>

Blank(n) == [i \in 0 .. n - 1 |-> 0]

RingInit ==
  /\ capacity = MinCapacity /\ data = Blank(MinCapacity)
  /\ begIndex = 0 /\ size = 0 /\ eof = FALSE
  /\ waitToRead = NobodyWaits /\ reader = "idle" /\ wanted = 0
  /\ written = 0 /\ got = <<>>

-----------------------------------------------------------------------------
\* Array dst with n bytes of src, from index s on, copied to index d.
Copied(dst, d, src, s, n) ==
  [i \in DOMAIN dst |-> IF i \in d .. d + n - 1 THEN src[s + i - d] ELSE dst[i]]

\* The bytes of a write.
New(n) == [i \in 0 .. n - 1 |-> written + i + 1]

\* while(capacity_ < size_ + bytes) capacity_ *= 2
Doubled(from, need) ==
  LET at[c \in Nat \ {0}] == IF c < need THEN at[2 * c] ELSE c IN at[from]

\* The areas of the memcpy that moves the bytes to the front overlap: what the front
\* holds then is anybody's guess ("overlap").
Overlap == begIndex > 0 /\ begIndex < size

\* Mutant of MovedData: without the move.
MovedDataNot(n) == Copied(data, size, New(n), 0, n)

MovedData(n) == Copied(Copied(data, 0, data, begIndex, size), size, New(n), 0, n)

PutBytes(n) ==
  IF begIndex + size + n < capacity
    THEN /\ data' = Copied(data, begIndex + size, New(n), 0, n)
         /\ UNCHANGED <<begIndex, capacity>>
  ELSE IF size + n < capacity
    THEN /\ \/ ~Overlap /\ data' = MovedData(n)
            \/ Overlap /\ "overlap" \notin RingFaults /\ data' = MovedData(n)
            \/ Overlap /\ "overlap" \in RingFaults
                 /\ \E i \in 0 .. size - 1 : data' = [MovedData(n) EXCEPT ![i] = 0]
         /\ begIndex' = 0 /\ UNCHANGED capacity
  ELSE /\ capacity' = Doubled(capacity, size + n)
       /\ data' = Copied(Copied(Blank(capacity'), 0, data, begIndex, size), size, New(n), 0, n)
       /\ begIndex' = 0

\* The reader may have found nothing and not yet announced that it waits ("gap").
Seen == "gap" \in RingFaults \/ reader # "unlocked"

Write(n) ==
  /\ ~eof /\ written + n <= MaxBytes /\ Seen
  /\ PutBytes(n)
  /\ size' = size + n /\ written' = written + n
  /\ waitToRead' = NotifyOne(waitToRead)
  /\ UNCHANGED <<eof, reader, wanted, got>>

SetEoF ==
  /\ ~eof /\ eof' = TRUE /\ Seen
  /\ waitToRead' = NotifyOne(waitToRead)
  /\ UNCHANGED <<store, reader, wanted, written, got>>

-----------------------------------------------------------------------------
(* read.  It returns -1 only if it finds the end at once; a reader that waits *)
(* for it gets 0.                                                             *)

CallRead(n) ==
  /\ reader = "idle" /\ wanted' = n
  /\ reader' = IF eof /\ size = 0 THEN "done" ELSE "locked"
  /\ UNCHANGED <<store, eof, waitToRead, written, got>>

FindNothing ==
  /\ reader = "locked" /\ size = 0 /\ ~eof
  /\ reader' = "unlocked"
  /\ UNCHANGED <<store, eof, waitToRead, wanted, written, got>>

Sleep ==
  /\ reader = "unlocked" /\ reader' = "sleeping"
  /\ waitToRead' = Announce(waitToRead)
  /\ UNCHANGED <<store, eof, wanted, written, got>>

WakeReader ==
  /\ reader = "sleeping" /\ Woken(waitToRead)
  /\ waitToRead' = Awake(waitToRead) /\ reader' = "locked"
  /\ UNCHANGED <<store, eof, wanted, written, got>>

\* Mutant of Shrunk: the array is cut where it ends.
ShrunkUnmoved(b, left) == [i \in 0 .. capacity \div 2 - 1 |-> data[i]]

ShrinkWhen(left) == capacity \div 4 > left /\ capacity \div 2 > MinCapacity

Shrunk(b, left) == Copied(Blank(capacity \div 2), 0, data, b, left)

TakeBytes ==
  /\ reader = "locked" /\ (size > 0 \/ eof)
  /\ LET n == IF size < wanted THEN size ELSE wanted
         shrink == ShrinkWhen(size - n)
     IN /\ got' = got \o [i \in 1 .. n |-> data[begIndex + i - 1]]
        /\ size' = size - n
        /\ begIndex' = IF shrink THEN 0 ELSE begIndex + n
        /\ capacity' = IF shrink THEN capacity \div 2 ELSE capacity
        /\ data' = IF shrink THEN Shrunk(begIndex + n, size - n) ELSE data
        /\ reader' = IF n = 0 THEN "done" ELSE "idle"
  /\ UNCHANGED <<eof, waitToRead, wanted, written>>

ReaderRuns ==
  (\E n \in Chunk : CallRead(n)) \/ FindNothing \/ Sleep \/ WakeReader \/ TakeBytes

RingNext == ReaderRuns \/ SetEoF \/ \E n \in Chunk : Write(n)

\* The reader runs and reads until the end, which the writer sets some time.
RingSpec == RingInit /\ [][RingNext]_ringVars
RingFairSpec == RingSpec /\ WF_ringVars(ReaderRuns) /\ WF_ringVars(SetEoF)

-----------------------------------------------------------------------------
\* The reader gets the bytes in the order they were written, none twice, across every
\* move, growth and shrinking of the array, and the array holds what it has not got.
BytesInOrder ==
  /\ begIndex + size <= capacity
  /\ got = [i \in 1 .. Len(got) |-> i]
  /\ Len(got) + size = written
  /\ \A i \in 0 .. size - 1 : data[begIndex + i] = Len(got) + i + 1

\* The reader gets everything and sees the end.
ReaderDone == reader = "done" /\ Len(got) = written
ReaderSeesEnd == <>ReaderDone
=============================================================================
