--------------------------- MODULE QueuingPorts ---------------------------
(***************************************************************************)
(* The queuing ports of the partitions and the channels between them       *)
(* (kernel/queuing_port.c), with the tables of ports and channels that     *)
(* createCStructs.py generates from the system's XML.                      *)
(*                                                                         *)
(* A system call runs with the tick masked (svc_handler.c:34, 155), so     *)
(* each is one step; the partition whose process makes it is any.          *)
(***************************************************************************)
EXTENDS CircularBuffer, PortTables

VARIABLES
    port,               \* port: activated, NB_MESSAGE and circ_buf
    delivered,          \* port: the message last received from it
    RETURN_CODE,        \* of the last call
    undefined           \* a channel_link that is NULL has been followed

vars == <<port, delivered, RETURN_CODE, undefined>>

DepthAssumption == \A q \in Ports : Config(q).MAX_NB_MESSAGE \in Nat \ {0}
ASSUME DepthAssumption

(* A message is of bytes, and its length a size_t. *)
MessageAssumption ==
    \A m \in Message : m \in Seq(Bytes) /\ Len(m) < Weight[HeaderSize]
ASSUME MessageAssumption

(* Q_MESSAGE_BUFFER: the bytes a port's ring gets. *)
BufferLen(q) == Config(q).MAX_MESSAGE_SIZE * Config(q).MAX_NB_MESSAGE
                  + Config(q).MAX_MESSAGE_SIZE * HeaderSize

(* After init_queuing_ports. *)
Init ==
    /\ port = [q \in Ports |-> [activated |-> FALSE, NB_MESSAGE |-> 0,
                                circ_buf |-> CircBuf(BufferLen(q))]]
    /\ delivered = [q \in Ports |-> <<>>]
    /\ RETURN_CODE = "NO_ERROR"
    /\ undefined = FALSE

-----------------------------------------------------------------------------
(* The system calls of a process of partition p.                           *)

(* The first of p's ports that has what is asked for. *)
create_queuing_port(p, asked) ==
    LET matching == {n \in DOMAIN partitions[p] :
                       /\ partitions[p][n].portname = asked.portname
                       /\ partitions[p][n].MAX_MESSAGE_SIZE = asked.MAX_MESSAGE_SIZE
                       /\ partitions[p][n].MAX_NB_MESSAGE = asked.MAX_NB_MESSAGE
                       /\ partitions[p][n].PORT_DIRECTION = asked.PORT_DIRECTION}
    IN  /\ ~undefined
        /\ IF matching = {}
             THEN /\ RETURN_CODE' = "INVALID_PARAM"
                  /\ UNCHANGED port
             ELSE /\ RETURN_CODE' = "NO_ERROR"
                  /\ port' = [port EXCEPT ![<<p, Min(matching)>>].activated = TRUE]
        /\ UNCHANGED <<delivered, undefined>>

TakesOneMore(q, r, m) ==        \* mutant: ">" for ">=" in the test of the number
    /\ r.activated
    /\ Config(q).PORT_DIRECTION = "DESTINATION"
    /\ r.NB_MESSAGE <= Config(q).MAX_NB_MESSAGE
    /\ Len(m) <= Config(q).MAX_MESSAGE_SIZE

TakesShorter(q, r, m) ==        \* mutant: ">=" for ">" in the test of the length
    /\ r.activated
    /\ Config(q).PORT_DIRECTION = "DESTINATION"
    /\ r.NB_MESSAGE < Config(q).MAX_NB_MESSAGE
    /\ Len(m) < Config(q).MAX_MESSAGE_SIZE

(* A message is put to the ring of a port that passes the tests, as the    *)
(* port, r, is at its turn of the loop.                                    *)
Takes(q, r, m) ==
    /\ r.activated
    /\ Config(q).PORT_DIRECTION = "DESTINATION"
    /\ r.NB_MESSAGE < Config(q).MAX_NB_MESSAGE
    /\ Len(m) <= Config(q).MAX_MESSAGE_SIZE

OfferedCountedFirst(r, m) ==    \* mutant: counted whether it fits or not
    [r EXCEPT !.circ_buf = push_item(@, m).ring, !.NB_MESSAGE = @ + 1]

(* A port to whose ring a message has been put. *)
Offered(r, m) ==
    LET pushed == push_item(r.circ_buf, m) IN
    [r EXCEPT !.circ_buf = pushed.ring,
              !.NB_MESSAGE = IF pushed.ret = 0 THEN @ + 1 ELSE @]

Turn(q, r, m) == IF Takes(q, r, m) THEN Offered(r, m) ELSE r

(* A port after n turns of the loop.  It has one for each place that the   *)
(* list has it in; the turns of other ports do not touch it.               *)
AfterTurns(q, m, n) ==
    LET after[k \in 0..n] ==
          IF k = 0 THEN port[q] ELSE Turn(q, after[k - 1], m)
    IN  after[n]

message_sentLast(chan, m) ==    \* mutant: each turn decides anew
    LET q == Last(port_list(chan)) IN
    AfterTurns(q, m, Places(chan, q)).NB_MESSAGE
      > AfterTurns(q, m, Places(chan, q) - 1).NB_MESSAGE

(* A send is done when any port has counted the message. *)
message_sent(chan, m) ==
    \E q \in Range(port_list(chan)) :
        AfterTurns(q, m, Places(chan, q)).NB_MESSAGE > port[q].NB_MESSAGE

(* The loop over the ports of a channel, and what it reports. *)
send_over(chan, m) ==
    /\ port' = [q \in Ports |-> AfterTurns(q, m, Places(chan, q))]
    /\ RETURN_CODE' = IF message_sent(chan, m) THEN "NO_ERROR" ELSE "NO_ACTION"
    /\ UNCHANGED <<delivered, undefined>>

send_queuing_message(p, n, m) ==
    LET chan == channel_link(<<p, n>>) IN
    /\ ~undefined
    /\ IF n > Len(partitions[p])
         THEN /\ RETURN_CODE' = "INVALID_PARAM"
              /\ UNCHANGED <<port, delivered, undefined>>
       ELSE IF chan = NULL
         THEN /\ undefined' = TRUE
              /\ UNCHANGED <<port, delivered, RETURN_CODE>>
       ELSE send_over(chan, m)

(* Neither the direction of the port nor its activation is looked at. *)
recieve_queuing_message(p, n) ==
    LET q == <<p, n>>
        popped == pop_item(port[q].circ_buf)
    IN  /\ ~undefined
        /\ IF n > Len(partitions[p])
             THEN /\ RETURN_CODE' = "INVALID_PARAM"
                  /\ UNCHANGED <<port, delivered>>
           ELSE IF popped.ret = -1
             THEN /\ RETURN_CODE' = "NO_ACTION"
                  /\ port' = [port EXCEPT ![q].circ_buf = popped.ring]
                  /\ UNCHANGED delivered
           ELSE /\ RETURN_CODE' = "NO_ERROR"
                /\ port' = [port EXCEPT ![q].circ_buf = popped.ring,
                                        ![q].NB_MESSAGE = @ - 1]
                /\ delivered' = [delivered EXCEPT ![q] = popped.data]
        /\ UNCHANGED undefined

(* What a process asks for: a port of its partition, or a deeper one. *)
Asked(p) == Range(partitions[p])
    \cup {[asked EXCEPT !.MAX_NB_MESSAGE = @ + 1] : asked \in Range(partitions[p])}

Next ==
    \E p \in DOMAIN partitions :
        \/ \E asked \in Asked(p) : create_queuing_port(p, asked)
        \/ \E n \in 1..(Len(partitions[p]) + 1) :
             \/ \E m \in Message : send_queuing_message(p, n, m)
             \/ recieve_queuing_message(p, n)

(* The worker of a destination receives again and again (stdio_sys.c:42). *)
Fairness ==
    \A q \in Ports :
        WF_vars(port[q].activated /\ recieve_queuing_message(q[1], q[2]))

Spec == Init /\ [][Next]_vars /\ Fairness

-----------------------------------------------------------------------------
(* Properties                                                              *)

Waiting(q) == Messages(port[q].circ_buf)

(* Every variable keeps its type; indices stay in their buffer. *)
TypeOK ==
    /\ \A q \in Ports :
         /\ port[q].activated \in BOOLEAN
         /\ port[q].NB_MESSAGE \in 0..Config(q).MAX_NB_MESSAGE
         /\ port[q].circ_buf.buffer \in [0..(BufferLen(q) - 1) -> Bytes]
         /\ {port[q].circ_buf.head, port[q].circ_buf.tail} \subseteq 0..(BufferLen(q) - 1)
    /\ delivered \in [Ports -> Message \cup {<<>>}]
    /\ RETURN_CODE \in {"NO_ERROR", "NO_ACTION", "INVALID_PARAM"}
    /\ undefined \in BOOLEAN

(* NB_MESSAGE, which GET_QUEUING_PORT_STATUS reports, is the number of     *)
(* messages in the ring, which holds whole messages only                   *)
(* (queuing_port.c:125, 160).                                              *)
CountIsMessages ==
    \A q \in Ports : /\ port[q].NB_MESSAGE = Len(Waiting(q))
                     /\ ~Contains(Waiting(q), Torn)

Fifo(q) == INSTANCE MessageFifo
             WITH queue <- Waiting(q), delivered <- delivered[q],
                  MaxNbMessage <- Config(q).MAX_NB_MESSAGE,
                  Copies <- {Places(ch, q) : ch \in Channels}

(* Every port is a fifo of messages, whatever the bytes of its ring: what  *)
(* is received is what was accepted, whole, in order and once for each     *)
(* time it was put, and a send or a receive that fails changes nothing     *)
(* (circular_buffer.c:56-102).                                             *)
(* This is \A q \in Ports : Fifo(q)!Spec with the quantifier inside.       *)
ImplementsFifo ==
    /\ \A q \in Ports : Fifo(q)!Init
    /\ [][\A q \in Ports : UNCHANGED Fifo(q)!fifo \/ Fifo(q)!Next]_vars

(* A message goes round the ports of a channel.  (That the code is not the *)
(* third follows, and spares TLC the rest for most steps.)                 *)
Sends(chan, m) ==
    /\ ~undefined
    /\ RETURN_CODE' # "INVALID_PARAM"
    /\ send_over(chan, m)

Got(q) == port[q].NB_MESSAGE' > port[q].NB_MESSAGE

(* A sender is told NO_ERROR if and only if the message is now the last of *)
(* those waiting in some port that has more than before                    *)
(* (queuing_port.c:93, "If the message is never recieved by at least one,  *)
(* 'message_sent' will stay false").                                       *)
ReportsDelivery ==
    [][\A chan \in Channels, m \in Message :
         Sends(chan, m) =>
           (RETURN_CODE' = "NO_ERROR" <=>
              \E q \in Ports : /\ Len(Waiting(q)') > Len(Waiting(q))
                               /\ Last(Waiting(q)') = m)]_vars

(* The bytes that messages need, each with its header. *)
Needed[messages \in Seq(Seq(Nat))] ==
    IF messages = <<>> THEN 0
    ELSE HeaderSize + Len(Head(messages)) + Needed[Tail(messages)]

(* Room for a message: fewer than MAX_NB_MESSAGE wait, and the ring has     *)
(* the bytes for it, its header and the one that always stays free.        *)
HasRoom(q, m) ==
    /\ Len(Waiting(q)) < Config(q).MAX_NB_MESSAGE
    /\ Needed[Waiting(q)] + HeaderSize + Len(m) < BufferLen(q)

TakesAll(Room(_, _)) ==
    \A chan \in Channels, m \in Message :
      Sends(chan, m) =>
        \A i \in DOMAIN port_list(chan) :
          LET q == port_list(chan)[i] IN
          /\ Config(q).PORT_DIRECTION = "DESTINATION"
          /\ port[q].activated
          /\ Len(m) <= Config(q).MAX_MESSAGE_SIZE
          /\ Room(q, m)
          => Got(q)

(* A port that is activated takes every message that there is room for,    *)
(* whatever it has taken and refused before and wherever the indices of    *)
(* its ring stand (queuing_port.c:101-125, circular_buffer.c:13-20).       *)
TakesWhatFits == [][TakesAll(HasRoom)]_vars

(* A port that is activated takes messages up to its MAX_MESSAGE_SIZE      *)
(* until it has MAX_NB_MESSAGE of them (types.h:13, "the maximum message   *)
(* size, maximum message number and the buffer to hold them").             *)
TakesWhileRoom ==
    [][TakesAll(LAMBDA q, m : Len(Waiting(q)) < Config(q).MAX_NB_MESSAGE)]_vars

(* A message does not wait for ever: a port with messages waiting is       *)
(* received from, again and again, until none is, unless a NULL pointer    *)
(* has been followed (stdio_sys.c:42-52).                                  *)
Served ==
    []~undefined =>
        \A q \in Ports :
            <>[](Waiting(q) # <<>>) =>
                []<><<recieve_queuing_message(q[1], q[2])
                        /\ RETURN_CODE' = "NO_ERROR">>_vars
=============================================================================
