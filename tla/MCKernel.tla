----------------------------- MODULE MCKernel -----------------------------
(* Tables on which TLC runs Kernel: every table of up to three windows     *)
(* that tiles the frame, any but the last of them of a partition the       *)
(* kernel does not know.                                                   *)
EXTENDS Kernel

Entry(p, a, b) == [partition |-> p, start |-> a, duration |-> b - a]

Cuts == {c \in SUBSET (0..MajorFrame) :
            {0, MajorFrame} \subseteq c /\ Cardinality(c) \in 2..4}

TableOf(c, p) ==
    LET at == SetToSortSeq(c, <) IN
    [i \in 1..(Cardinality(c) - 1) |-> Entry(p[i], at[i], at[i + 1])]

Partitions(n) ==
    {p \in [1..n -> {1, NoPartition}] : p[n] # NoPartition}

TilingTables ==
    UNION {{TableOf(c, p) : p \in Partitions(Cardinality(c) - 1)} : c \in Cuts}

(* Every integer of a register of one bit; INFINITE_TIME_VALUE, and a     *)
(* time-out that fits it.                                                  *)
AllIntegers == {-1, 0}
SomeTimeOuts == {-1, 1}

ASSUME \A s \in TilingTables : TilesFrame(s)
=============================================================================
