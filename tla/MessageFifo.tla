---------------------------- MODULE MessageFifo ----------------------------
(***************************************************************************)
(* What a queuing port promises (kernel/queuing_port.c): messages come out *)
(* whole, once each and in the order they went in, and never are there     *)
(* more than the port was created for.  A message that finds no room       *)
(* leaves no trace.  Only a channel that lists a port in several places    *)
(* may have its message enter more than once, side by side.                *)
(***************************************************************************)
EXTENDS Naturals, Sequences

CONSTANTS Message,          \* the messages that can be sent
          MaxNbMessage,     \* how many the port holds
          Copies            \* the numbers of places channels list it in

VARIABLES queue,            \* the messages waiting, oldest first
          delivered         \* the message last received

fifo == <<queue, delivered>>

Init == queue = <<>> /\ delivered = <<>>

Accept(m) ==
    /\ \E places \in Copies : \E n \in 1..places :
         /\ Len(queue) + n <= MaxNbMessage
         /\ queue' = queue \o [i \in 1..n |-> m]
    /\ UNCHANGED delivered

Deliver ==
    /\ queue # <<>>
    /\ delivered' = Head(queue)
    /\ queue' = Tail(queue)

Next == Deliver \/ \E m \in Message : Accept(m)

Spec == Init /\ [][Next]_fifo
=============================================================================
