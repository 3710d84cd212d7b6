-------------------------- MODULE MCScheduleBuild --------------------------
(* Configurations on which TLC runs ScheduleBuild. *)
EXTENDS ScheduleBuild, SequencesExt

MCWord == 4096

W(i, s, d) == [id |-> i, start |-> s, duration |-> d]

-----------------------------------------------------------------------------
(* Small: up to three windows in a frame of six, in every listing order.   *)
(* The third partition id is one the kernel does not know.                 *)
SmallFrame == 6

Slots == {<<s, d>> \in (0..SmallFrame) \X (1..3) : s + d <= SmallFrame}

Disjoint(sl) ==
    \A a, b \in sl : a # b => a[1] + a[2] <= b[1] \/ b[1] + b[2] <= a[1]

Packings == {sl \in UNION {kSubset(n, Slots) : n \in 1..3} : Disjoint(sl)}

Listing(sl) ==
    {[i \in DOMAIN q |-> W(<<1, 2, 9>>[i], q[i][1], q[i][2])] :
        q \in SetToSeqs(sl)}

SmallConfigurations == UNION {Listing(sl) : sl \in Packings}

(* The ones the search copes with. *)
OrderlySmall == {c \in SmallConfigurations : Orderly(c)}

-----------------------------------------------------------------------------
(* src/main_schema.xml in seconds, the partitions in every listing order   *)
(* that keeps the configuration orderly (12 of 24).                        *)
ShippedPartitions ==
    <<  <<W(1, 0, 2), W(1, 10, 2)>>,        \* yellow_toggler
        <<W(2, 3, 1), W(2, 13, 1)>>,        \* red_toggler
        <<W(3, 4, 3), W(3, 14, 3)>>,        \* stdio_sys
        <<W(4, 18, 2)>>  >>                 \* evil

ShippedListings ==
    {FlattenSeq([i \in 1..4 |-> ShippedPartitions[p[i]]]) :
        p \in SetToSeqs(1..4)}

OrderlyShipped == {c \in ShippedListings : Orderly(c)}

-----------------------------------------------------------------------------
(* Tables of twelve entries, one more than the run has room for: twelve    *)
(* windows on end, and six with a gap in front of each.                    *)
TooMany == {[i \in 1..12 |-> W(1, i - 1, 1)],
            [i \in 1..6 |-> W(1, 2 * i - 1, 1)]}

OrderlyConfigurations == OrderlySmall \cup OrderlyShipped \cup TooMany

-----------------------------------------------------------------------------
(* src/resources/default_schema.xml in tens of milliseconds, as listed.    *)
DefaultSchema ==
    {<<W(1, 0, 2), W(1, 10, 2), W(2, 3, 1), W(2, 13, 1), W(3, 4, 3),
       W(3, 14, 3), W(4, 2, 1), W(4, 7, 1), W(4, 12, 1), W(4, 17, 1),
       W(5, 18, 2)>>}
=============================================================================
