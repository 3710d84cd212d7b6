-------------------------- MODULE MCSamplingPorts --------------------------
(***************************************************************************)
(* A system of ports for model checking SamplingPorts: a source, two       *)
(* destinations of different sizes, a queuing port in the same channel     *)
(* and a sampling port beside it.                                          *)
(***************************************************************************)
EXTENDS SamplingPorts

MCPort(name, queuing, size, direction) ==
    [portname |-> name, is_queuing_port |-> queuing, MAX_MESSAGE_SIZE |-> size,
     REFRESH_PERIOD |-> 100, PORT_DIRECTION |-> direction]

MCPartitions ==
    [sensor |-> <<MCPort("Sens_1Ss", FALSE, 3, "SOURCE")>>,
     flight |-> <<MCPort("Sens_1Ds", FALSE, 3, "DESTINATION")>>,
     log |-> <<MCPort("Log_1Dq", TRUE, 3, "DESTINATION")>>,
     display |-> <<MCPort("Sens_2Ds", FALSE, 2, "DESTINATION")>>]
MCTable == <<<<<<"flight", "Sens_1Ds">>, <<"sensor", "Sens_1Ss">>,
               <<"log", "Log_1Dq">>, <<"display", "Sens_2Ds">>>>>>
MCMessages == {<<1>>, <<0, 1>>, <<1, 0, 1>>}
=============================================================================
