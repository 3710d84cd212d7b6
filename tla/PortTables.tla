---------------------------- MODULE PortTables ----------------------------
(***************************************************************************)
(* The tables of ports and channels that createCStructs.py generates from  *)
(* the system's XML, and the links between them that the kernel makes.     *)
(* A port is named <<partition, n>>, with n one more than its id.          *)
(***************************************************************************)
EXTENDS Naturals, FiniteSetsExt, SequencesExt

CONSTANTS
    partitions,         \* partition: the ports the XML gives it, in order
    ConnectionTable,    \* the channels of the XML: the ports each one names
    Message             \* the messages the applications send

Ports == UNION {{p} \X (1..Len(partitions[p])) : p \in DOMAIN partitions}
Config(q) == partitions[q[1]][q[2]]
Channels == DOMAIN ConnectionTable
NULL == 0
Directions == {"SOURCE", "DESTINATION"}
Senders == {q \in Ports : Config(q).PORT_DIRECTION = "SOURCE"}

(* A channel may name a partition as often as it likes, with names that    *)
(* are no port's: the generator asks only that it has a port.              *)
PortsAssumption ==
    /\ \A p \in DOMAIN partitions : partitions[p] \in Seq(Range(partitions[p]))
    /\ ConnectionTable \in Seq(Range(ConnectionTable))
    /\ \A ch \in Channels : ConnectionTable[ch] \in Seq(Range(ConnectionTable[ch]))
    /\ \A q \in Ports : Config(q).PORT_DIRECTION \in Directions
    /\ \A q \in Ports : Config(q).MAX_MESSAGE_SIZE \in Nat \ {0}
    /\ \A ch \in Channels : \A i \in DOMAIN ConnectionTable[ch] :
         \E q \in Ports : q[1] = ConnectionTable[ch][i][1]
ASSUME PortsAssumption

(* The port list generated for a channel: of each partition that the XML   *)
(* names in it, the first port.                                            *)
port_list(ch) ==
    [i \in DOMAIN ConnectionTable[ch] |-> <<ConnectionTable[ch][i][1], 1>>]

(* The channel a port is linked to: the last whose list it is in. *)
channel_link(q) ==
    Max({NULL} \cup {ch \in Channels : Contains(port_list(ch), q)})

(* The number of places that a port has in a channel's list. *)
Places(ch, q) == Cardinality({i \in DOMAIN port_list(ch) : port_list(ch)[i] = q})
=============================================================================
