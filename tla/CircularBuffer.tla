-------------------------- MODULE CircularBuffer --------------------------
(***************************************************************************)
(* The byte ring that holds the messages of a queuing port                 *)
(* (kernel/circular_buffer.c), as operators on a ring: a record of its     *)
(* buffer and its indices.  push_item and pop_item are given by what their *)
(* loops over push and pop amount to, the bytes that a loop which fails    *)
(* has moved included; module RingLoops runs the loops.                    *)
(*                                                                         *)
(* Each message is preceded by a header, the bytes of its length, least    *)
(* significant first.  A byte has ByteSize values and a header HeaderSize  *)
(* bytes: 256 and sizeof(size_t) in the code, less in a model.             *)
(***************************************************************************)
EXTENDS Integers, SequencesExt

CONSTANTS ByteSize, HeaderSize

ASSUME ByteAssumption == ByteSize \in Nat \ {0, 1} /\ HeaderSize \in Nat \ {0}

Bytes == 0..(ByteSize - 1)

CircBuf(maxLen) == [buffer |-> [k \in 0..(maxLen - 1) |-> 0],
                    head |-> 0, tail |-> 0, maxLen |-> maxLen]

(* How far ahead of one index another is, round the ring. *)
Ahead(c, from, to) == (to - from + c.maxLen) % c.maxLen

(* The number of bytes in a ring, and of those it still takes: one place   *)
(* stays free, for a full ring would look like an empty one.               *)
Used(c) == Ahead(c, c.tail, c.head)
Free(c) == c.maxLen - 1 - Used(c)

(* The bytes of a ring, oldest first. *)
Stored(c) == [k \in 1..Used(c) |-> c.buffer[(c.tail + k - 1) % c.maxLen]]

-----------------------------------------------------------------------------
(* ByteSize to the power of k: what the byte at offset k counts for. *)
Weight[k \in Nat] == IF k = 0 THEN 1 ELSE ByteSize * Weight[k - 1]

HeaderReversed(len) ==          \* mutant: most significant byte first
    [k \in 1..HeaderSize |-> (len \div Weight[HeaderSize - k]) % ByteSize]

(* The length of a message, as the bytes it has in memory, and back. *)
Header(len) == [k \in 1..HeaderSize |-> (len \div Weight[k - 1]) % ByteSize]

LengthOf[header \in Seq(Bytes)] ==
    IF header = <<>> THEN 0
    ELSE Head(header) + ByteSize * LengthOf[Tail(header)]

(* The bytes that a message has in a ring. *)
Item(data) == Header(Len(data)) \o data

(* The first n of some bytes written from the head on. *)
Written(c, bytes, n) ==
    [k \in 0..(c.maxLen - 1) |->
       IF Ahead(c, c.head, k) < n THEN bytes[Ahead(c, c.head, k) + 1]
       ELSE c.buffer[k]]

push_itemPartly(c, data) ==     \* mutant: head is not put back on failure
    LET n == IF Len(Item(data)) <= Free(c) THEN Len(Item(data)) ELSE Free(c) IN
    [ret |-> IF n = Len(Item(data)) THEN 0 ELSE -1,
     ring |-> [c EXCEPT !.buffer = Written(c, Item(data), n),
                        !.head = (c.head + n) % c.maxLen]]

(* A message goes in whole or not at all: when it does not fit, head goes  *)
(* back to where it was, and the bytes pushed after it stay behind.        *)
push_item(c, data) ==
    IF Len(Item(data)) <= Free(c)
      THEN [ret |-> 0,
            ring |-> [c EXCEPT !.buffer = Written(c, Item(data), Len(Item(data))),
                               !.head = (c.head + Len(Item(data))) % c.maxLen]]
      ELSE [ret |-> -1,
            ring |-> [c EXCEPT !.buffer = Written(c, Item(data), Free(c))]]

(* The n oldest bytes taken out, and their places cleared. *)
Drained(c, n) ==
    [c EXCEPT !.buffer = [k \in 0..(c.maxLen - 1) |->
                            IF Ahead(c, c.tail, k) < n THEN 0 ELSE c.buffer[k]],
              !.tail = (c.tail + n) % c.maxLen]

(* The bytes that the item at the tail is to have: its header's, and as    *)
(* many as the header says.                                                *)
Wanted(c) ==
    HeaderSize + (IF Used(c) < HeaderSize THEN 0
                  ELSE LengthOf[SubSeq(Stored(c), 1, HeaderSize)])

pop_itemPeeks(c) ==             \* mutant: a message that looks short is left
    IF Wanted(c) < Used(c)
      THEN [ret |-> 0,
            data |-> SubSeq(Stored(c), HeaderSize + 1, Wanted(c)),
            ring |-> Drained(c, Wanted(c))]
      ELSE [ret |-> -1, data |-> <<>>, ring |-> c]

pop_item(c) ==
    IF Wanted(c) <= Used(c)
      THEN [ret |-> 0,
            data |-> SubSeq(Stored(c), HeaderSize + 1, Wanted(c)),
            ring |-> Drained(c, Wanted(c))]
      ELSE [ret |-> -1, data |-> <<>>, ring |-> Drained(c, Used(c))]

-----------------------------------------------------------------------------
Torn == <<ByteSize>>

(* The messages that a sequence of bytes is made of; bytes that are not a  *)
(* whole message are the message Torn.                                     *)
Parsed[bytes \in Seq(Bytes)] ==
    IF bytes = <<>> THEN <<>>
    ELSE IF Len(bytes) < HeaderSize THEN <<Torn>>
    ELSE LET last == HeaderSize + LengthOf[SubSeq(bytes, 1, HeaderSize)] IN
         IF last > Len(bytes) THEN <<Torn>>
         ELSE <<SubSeq(bytes, HeaderSize + 1, last)>>
                \o Parsed[SubSeq(bytes, last + 1, Len(bytes))]

(* The messages in a ring. *)
Messages(c) == Parsed[Stored(c)]
=============================================================================
