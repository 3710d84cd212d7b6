-------------------------- MODULE MessageRegister --------------------------
(***************************************************************************)
(* What a sampling port turns out to be (kernel/sampling_port.c): a        *)
(* register that a message overwrites and a read leaves alone, and that    *)
(* takes no message longer than the one it holds.  Before the first it     *)
(* holds zeros.                                                            *)
(***************************************************************************)
EXTENDS Naturals, Sequences

CONSTANT Message        \* the messages that can be written

VARIABLES held,         \* the message in the port
          read          \* the message last read

register == <<held, read>>

Init(size) == held = [i \in 1..size |-> 0] /\ read = <<>>

Write(m) ==
    /\ Len(m) <= Len(held)
    /\ held' = m
    /\ UNCHANGED read

Read ==
    /\ read' = held
    /\ UNCHANGED held

Next == Read \/ \E m \in Message : Write(m)
=============================================================================
