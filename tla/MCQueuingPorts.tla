-------------------------- MODULE MCQueuingPorts --------------------------
(***************************************************************************)
(* A system of ports for model checking QueuingPorts: bytes have four       *)
(* values, headers one byte (the loops with longer ones are RingLoops).     *)
(***************************************************************************)
EXTENDS QueuingPorts

MCPort(name, size, nb, direction) ==
    [portname |-> name, MAX_MESSAGE_SIZE |-> size, MAX_NB_MESSAGE |-> nb,
     PORT_DIRECTION |-> direction]

(* A source and two destinations: a large one that takes all it is made    *)
(* for, and one that is deeper than it is large, so that, as with the      *)
(* shipped channel (32 by 32), its ring fills up before its count.  The    *)
(* channel names a second port of the partition of the large one, too: its *)
(* list has the first of them twice and the second not at all, which is in *)
(* no channel then, as main_schema.xml's temp is.                          *)
MCPartitions ==
    [a |-> <<MCPort("out", 2, 1, "SOURCE")>>,
     b |-> <<MCPort("deep", 1, 3, "DESTINATION")>>,
     c |-> <<MCPort("large", 3, 2, "DESTINATION"), MCPort("log", 1, 1, "DESTINATION")>>]
MCTable == <<<<<<"a", "out">>, <<"c", "large">>, <<"b", "deep">>, <<"c", "log">>>>>>
MCMessages == {<<1>>, <<0, 1>>}
=============================================================================
