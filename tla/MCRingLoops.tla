---------------------------- MODULE MCRingLoops ----------------------------
(* Messages of up to three bytes for model checking RingLoops.             *)
EXTENDS RingLoops
ShortMessages == {<<>>, <<1>>, <<0, 1>>, <<1, 1, 0>>}
=============================================================================
