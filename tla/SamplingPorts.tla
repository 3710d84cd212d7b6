--------------------------- MODULE SamplingPorts ---------------------------
(***************************************************************************)
(* The sampling ports of the partitions (kernel/sampling_port.c).  The     *)
(* kernel builds them in but no system call reaches them yet; each call is *)
(* one step, as the calls of QueuingPorts are.                             *)
(*                                                                         *)
(* A call names a sampling port, or no port at all: the fields of a        *)
(* queuing port mean something else (the union of ports.h:27).             *)
(***************************************************************************)
EXTENDS PortTables

CONSTANT Byte

VARIABLES
    port,               \* port: activated, MAX_MESSAGE_SIZE and buffer
    got,                \* port: the message last read from it
    RETURN_CODE,        \* of the last call
    undefined           \* a channel_link that is NULL has been followed

vars == <<port, got, RETURN_CODE, undefined>>

Sampling == {q \in Ports : ~Config(q).is_queuing_port}
Size(q) == Config(q).MAX_MESSAGE_SIZE       \* the bytes of its buffer

ASSUME MessageAssumption ==
    /\ 0 \in Byte
    /\ Message \subseteq Seq(Byte)

(* What a port holds: the first MAX_MESSAGE_SIZE bytes of its buffer. *)
Value(q) == [i \in 1..port[q].MAX_MESSAGE_SIZE |-> port[q].buffer[i]]

(* After init_sampling_ports. *)
Init ==
    /\ port = [q \in Sampling |->
                 [activated |-> FALSE, MAX_MESSAGE_SIZE |-> Size(q),
                  buffer |-> [i \in 1..Size(q) |-> 0]]]
    /\ got = [q \in Sampling |-> <<>>]
    /\ RETURN_CODE = "NO_ERROR"
    /\ undefined = FALSE

-----------------------------------------------------------------------------
(* The calls of a process of partition p.                                  *)

MatchingAnySize(p, asked) ==    \* mutant: the size is not compared
    {n \in DOMAIN partitions[p] :
       /\ <<p, n>> \in Sampling
       /\ partitions[p][n].portname = asked.portname
       /\ partitions[p][n].REFRESH_PERIOD = asked.REFRESH_PERIOD
       /\ partitions[p][n].PORT_DIRECTION = asked.PORT_DIRECTION}

(* Those of p's ports that have what is asked for, the size as it now is.  *)
Matching(p, asked) ==
    {n \in DOMAIN partitions[p] :
       /\ <<p, n>> \in Sampling
       /\ partitions[p][n].portname = asked.portname
       /\ port[<<p, n>>].MAX_MESSAGE_SIZE = asked.MAX_MESSAGE_SIZE
       /\ partitions[p][n].REFRESH_PERIOD = asked.REFRESH_PERIOD
       /\ partitions[p][n].PORT_DIRECTION = asked.PORT_DIRECTION}

create_sampling_port(p, asked) ==
    /\ ~undefined
    /\ IF Matching(p, asked) = {}
         THEN /\ RETURN_CODE' = "INVALID_PARAM"
              /\ UNCHANGED port
         ELSE /\ RETURN_CODE' = "NO_ERROR"
              /\ port' = [port EXCEPT ![<<p, Min(Matching(p, asked))>>].activated = TRUE]
    /\ UNCHANGED <<got, undefined>>

TakesAnyLength(q, m) ==         \* mutant: the length is not looked at
    /\ port[q].activated
    /\ Config(q).PORT_DIRECTION = "DESTINATION"

Takes(q, m) ==
    /\ port[q].activated
    /\ Config(q).PORT_DIRECTION = "DESTINATION"
    /\ Len(m) <= port[q].MAX_MESSAGE_SIZE

FilledOnly(q, m) ==             \* mutant: the length is not kept
    [port[q] EXCEPT !.buffer = [i \in DOMAIN @ |->
                                  IF i <= Len(m) THEN m[i] ELSE @[i]]]

(* The length of the message becomes the size of the port. *)
Filled(q, m) ==
    [port[q] EXCEPT !.MAX_MESSAGE_SIZE = Len(m),
                    !.buffer = [i \in DOMAIN @ |->
                                  IF i <= Len(m) THEN m[i] ELSE @[i]]]

TakersLast(chan, m) ==          \* mutant: each port decides anew
    {q \in Sampling : q = Last(port_list(chan)) /\ Takes(q, m)}

(* The ports of a channel that take a message, for message_sent. *)
Takers(chan, m) ==
    {q \in Sampling : Contains(port_list(chan), q) /\ Takes(q, m)}

write_sampling_message(p, n, m) ==
    LET chan == channel_link(<<p, n>>) IN
    /\ ~undefined
    /\ IF n > Len(partitions[p])
         THEN /\ RETURN_CODE' = "INVALID_PARAM"
              /\ UNCHANGED <<port, undefined>>
       ELSE IF chan = NULL
         THEN /\ undefined' = TRUE
              /\ UNCHANGED <<port, RETURN_CODE>>
       ELSE /\ port' = [q \in Sampling |->
                          IF Contains(port_list(chan), q) /\ Takes(q, m)
                            THEN Filled(q, m) ELSE port[q]]
            /\ RETURN_CODE' = IF Takers(chan, m) # {} THEN "NO_ERROR"
                                                      ELSE "NO_ACTION"
            /\ UNCHANGED undefined
    /\ UNCHANGED got

(* Neither the direction of the port nor its activation is looked at. *)
read_sampling_message(p, n) ==
    /\ ~undefined
    /\ IF n > Len(partitions[p])
         THEN /\ RETURN_CODE' = "INVALID_PARAM"
              /\ UNCHANGED got
         ELSE /\ RETURN_CODE' = "NO_ERROR"
              /\ got' = [got EXCEPT ![<<p, n>>] = Value(<<p, n>>)]
    /\ UNCHANGED <<port, undefined>>

(* The port ids a process passes: of a sampling port, or of none. *)
Ids(p) == {n \in 1..(Len(partitions[p]) + 1) :
             n \in DOMAIN partitions[p] => <<p, n>> \in Sampling}

Next ==
    \E p \in DOMAIN partitions :
        \/ \E asked \in Range(partitions[p]) : create_sampling_port(p, asked)
        \/ \E n \in Ids(p) : \/ \E m \in Message : write_sampling_message(p, n, m)
                             \/ read_sampling_message(p, n)

Spec == Init /\ [][Next]_vars

-----------------------------------------------------------------------------
(* Properties                                                              *)

(* Every variable keeps its type; a port's size never passes its buffer,   *)
(* so neither the copy in nor the copy out leaves it                       *)
(* (sampling_port.c:93, 127).                                              *)
TypeOK ==
    /\ DOMAIN port = Sampling
    /\ \A q \in Sampling :
         port[q] \in [activated : BOOLEAN, MAX_MESSAGE_SIZE : 0..Size(q),
                     buffer : [1..Size(q) -> Byte]]
    /\ got \in [Sampling -> Seq(Byte)]
    /\ RETURN_CODE \in {"NO_ERROR", "NO_ACTION", "INVALID_PARAM"}
    /\ undefined \in BOOLEAN

Register(q) == INSTANCE MessageRegister
                 WITH held <- Value(q), read <- got[q]

(* Every port is a register of messages: a read returns the last message   *)
(* the port took, whole and of its length, whatever was there before       *)
(* (sampling_port.c:92-95, 126-129).                                       *)
ImplementsRegister ==
    /\ \A q \in Sampling : Register(q)!Init(Size(q))
    /\ [][\A q \in Sampling : UNCHANGED Register(q)!register
                                \/ Register(q)!Next]_vars

(* A sender is told NO_ERROR if and only if a destination in its channel's *)
(* list that a process created, and that had room, now holds its message   *)
(* (sampling_port.c:71, "If the message is never recieved by at least one, *)
(* 'message_sent' will stay false").                                       *)
ReportsDelivery ==
    [][\A s \in Senders \cap Sampling, m \in Message :
         write_sampling_message(s[1], s[2], m) /\ ~undefined' =>
           (RETURN_CODE' = "NO_ERROR" <=>
              \E q \in Sampling : /\ Contains(port_list(channel_link(s)), q)
                                  /\ port[q].activated
                                  /\ Config(q).PORT_DIRECTION = "DESTINATION"
                                  /\ Len(m) <= Len(Value(q))
                                  /\ Value(q)' = m)]_vars

(* A port is found by the attributes of its table again, by a partition    *)
(* that starts over, as long as no message shorter than its size has come  *)
(* (sampling_port.c:39, 92).                                               *)
FoundUntilShrunk ==
    [][\A q \in Sampling :
         create_sampling_port(q[1], Config(q)) =>
           (RETURN_CODE' = "NO_ERROR" <=> Len(Value(q)) = Size(q))]_vars
=============================================================================
