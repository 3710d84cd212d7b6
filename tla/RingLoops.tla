----------------------------- MODULE RingLoops -----------------------------
(***************************************************************************)
(* push_item and pop_item as they run, a byte at a time                    *)
(* (kernel/circular_buffer.c:11-102), on one ring.  The property is that   *)
(* they amount to the operators of CircularBuffer, whatever messages have  *)
(* gone through the ring before.                                           *)
(***************************************************************************)
EXTENDS CircularBuffer

CONSTANTS MaxLen,           \* c->maxLen
          Message           \* the messages that are pushed

(* A message's length is a size_t, which is what a header has room for.    *)
ASSUME RingAssumption ==
    /\ MaxLen \in Nat \ {0}
    /\ Message \subseteq Seq(Bytes)
    /\ \A data \in Message : Len(data) < Weight[HeaderSize]

VARIABLES c,                \* the ring
          pc,               \* the function that runs, or "returned"
          bytes,            \* what push_item has to push, pop_item has popped
          i,                \* how many of them are done
          saved_head,
          ret,              \* the result of the last call
          called            \* the ring and the message at the last call

vars == <<c, pc, bytes, i, saved_head, ret, called>>

Init ==
    /\ c = CircBuf(MaxLen)
    /\ pc = "returned" /\ bytes = <<>> /\ i = 0
    /\ saved_head = 0 /\ ret = -1
    /\ called = [name |-> "pop_item", ring |-> c, data |-> <<>>]

-----------------------------------------------------------------------------
After(index) == IF index + 1 >= c.maxLen THEN 0 ELSE index + 1

Return(result) == pc' = "returned" /\ ret' = result

CallPush(data) ==
    /\ pc = "returned"
    /\ pc' = "push_item" /\ bytes' = Item(data) /\ i' = 0
    /\ saved_head' = c.head
    /\ called' = [name |-> "push_item", ring |-> c, data |-> data]
    /\ UNCHANGED <<c, ret>>

PushByteKeepsHead ==    \* mutant: head is not put back on failure
    /\ pc = "push_item" /\ i < Len(bytes)
    /\ IF After(c.head) = c.tail
         THEN Return(-1) /\ UNCHANGED <<c, i>>
         ELSE /\ c' = [c EXCEPT !.buffer[c.head] = bytes[i + 1],
                                !.head = After(c.head)]
              /\ i' = i + 1
              /\ UNCHANGED <<pc, ret>>
    /\ UNCHANGED <<bytes, saved_head, called>>

PushByteRetries ==      \* mutant: starts again when the ring is full
    /\ pc = "push_item" /\ i < Len(bytes)
    /\ IF After(c.head) = c.tail
         THEN /\ c' = [c EXCEPT !.head = saved_head]
              /\ i' = 0
         ELSE /\ c' = [c EXCEPT !.buffer[c.head] = bytes[i + 1],
                                !.head = After(c.head)]
              /\ i' = i + 1
    /\ UNCHANGED <<pc, ret, bytes, saved_head, called>>

(* A turn of push_item's loops: a push, and head put back when it fails. *)
PushByte ==
    /\ pc = "push_item" /\ i < Len(bytes)
    /\ IF After(c.head) = c.tail
         THEN /\ c' = [c EXCEPT !.head = saved_head]
              /\ Return(-1)
              /\ UNCHANGED i
         ELSE /\ c' = [c EXCEPT !.buffer[c.head] = bytes[i + 1],
                                !.head = After(c.head)]
              /\ i' = i + 1
              /\ UNCHANGED <<pc, ret>>
    /\ UNCHANGED <<bytes, saved_head, called>>

PushDone ==
    /\ pc = "push_item" /\ i >= Len(bytes)
    /\ Return(0)
    /\ UNCHANGED <<c, bytes, i, saved_head, called>>

CallPop ==
    /\ pc = "returned"
    /\ pc' = "pop_item" /\ bytes' = <<>> /\ i' = 0
    /\ called' = [name |-> "pop_item", ring |-> c, data |-> <<>>]
    /\ UNCHANGED <<c, saved_head, ret>>

BoundOfData ==          \* mutant: the header counts as part of the length
    IF i < HeaderSize THEN HeaderSize ELSE LengthOf[SubSeq(bytes, 1, HeaderSize)]

(* How many bytes pop_item's loops go for: the second takes its bound from *)
(* the length that the first has read.                                     *)
Bound == HeaderSize + (IF i < HeaderSize THEN 0
                       ELSE LengthOf[SubSeq(bytes, 1, HeaderSize)])

PopByte ==
    /\ pc = "pop_item" /\ i < Bound
    /\ IF c.head = c.tail
         THEN /\ Return(-1)
              /\ UNCHANGED <<c, bytes, i>>
         ELSE /\ bytes' = Append(bytes, c.buffer[c.tail])
              /\ c' = [c EXCEPT !.buffer[c.tail] = 0, !.tail = After(c.tail)]
              /\ i' = i + 1
              /\ UNCHANGED <<pc, ret>>
    /\ UNCHANGED <<saved_head, called>>

PopDone ==
    /\ pc = "pop_item" /\ i >= Bound
    /\ Return(0)
    /\ UNCHANGED <<c, bytes, i, saved_head, called>>

Next ==
    \/ \E data \in Message : CallPush(data)
    \/ PushByte \/ PushDone
    \/ CallPop \/ PopByte \/ PopDone

(* A loop that is entered runs to its end. *)
Spec == Init /\ [][Next]_vars /\ WF_vars(PushByte \/ PushDone \/ PopByte \/ PopDone)

-----------------------------------------------------------------------------
(* What the loops have done when they return is what push_item says: a     *)
(* message that is longer than the room left in the ring fails without a   *)
(* trace but for the bytes behind the head (circular_buffer.c:56-77).      *)
PushLoopsAgree ==
    pc = "returned" /\ called.name = "push_item" =>
        /\ ret = push_item(called.ring, called.data).ret
        /\ c = push_item(called.ring, called.data).ring

(* And what pop_item says: the oldest message comes out, with the length   *)
(* it was pushed with (circular_buffer.c:84-102).                          *)
PopLoopsAgree ==
    pc = "returned" /\ called.name = "pop_item" =>
        /\ ret = pop_item(called.ring).ret
        /\ c = pop_item(called.ring).ring
        /\ ret = 0 =>
             SubSeq(bytes, HeaderSize + 1, Len(bytes)) = pop_item(called.ring).data

(* Taken together the calls are a fifo: a push adds its message at the end *)
(* if it succeeds and nothing otherwise, a pop takes away the first.       *)
ItemsAreFifo ==
    pc = "returned" =>
        LET before == Messages(called.ring) IN
        Messages(c) = IF ret = -1 THEN before
                      ELSE IF called.name = "push_item" THEN Append(before, called.data)
                      ELSE Tail(before)

(* A loop over a ring ends, a pop's too, whose bound is read from the ring *)
(* (circular_buffer.c:94).                                                 *)
LoopsEnd == [](pc # "returned" => <>(pc = "returned"))
=============================================================================
