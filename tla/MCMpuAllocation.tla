-------------------------- MODULE MCMpuAllocation --------------------------
(***************************************************************************)
(* Requests for model checking MpuAllocation: those of mpuTest.c, and for  *)
(* all of its five partitions (mpuTest.c:5) sizes that leave none, one,    *)
(* two or three sections free in regions of 32 to 256 bytes, and sizes on  *)
(* both sides of what one, two or three sections of 32 bytes hold.         *)
(***************************************************************************)
EXTENDS MpuAllocation

Sizes == {17, 24, 33, 64, 81, 97, 190}
SectionSizes == {32, 33, 64, 65, 96, 129, 161}
Shipped == <<20, 65, 120, 80, 40>>
MCRequests == [1..5 -> Sizes] \cup [1..5 -> SectionSizes] \cup {Shipped}
MCBase == 2097152       \* 0x0200000

ASSUME DoublingAssumption == \A k \in 1..MaxExponent : PowerOf2[k] = 2^k
ASSUME TablesFit == SizesKept /\ BaseFits
=============================================================================
