--------------------------- MODULE MpuAllocation ---------------------------
(***************************************************************************)
(* The prototype that gives each partition a block of memory the MPU can   *)
(* protect (mpu_test/mpuTest.c).  The other copy of it, mpu.c, which keeps *)
(* region and address in a byte and sets the MPU by them, is not modelled. *)
(*                                                                         *)
(* A region has a power of two as its size and eight sub-sections.  The    *)
(* largest request without a block gets a region of its own and as many    *)
(* of its first sections as it needs; smaller requests get those that are  *)
(* left.  One step is one round of sortMem's loop.  A request needs five   *)
(* bytes at least, or its region would have sections of size 0.            *)
(***************************************************************************)
EXTENDS Sequences, FiniteSetsExt

CONSTANTS
    Requests,       \* the sizes that the partitions may ask for, in order
    Base,           \* where the first region starts
    AddressWord,    \* 2^32 (adress and pointer are uint32_t's)
    PercWord        \* 2^8: sizes are compared as uint8_t's

VARIABLES
    memory,         \* the sizes asked for
    block,          \* partition: located, adress and info
    nr_located,
    nr_region,
    pointer,        \* where the next region starts
    memory_arr      \* size and address, written when all have a block

vars == <<memory, block, nr_located, nr_region, pointer, memory_arr>>

(* 2, 2^2, 2^3, ...: what doubling from 1 comes to. *)
PowerOf2 == <<2, 4, 8, 16, 32, 64, 128, 256, 512, 1024, 2048, 4096, 8192, 16384,
              32768, 65536, 131072, 262144, 524288, 1048576>>

MaxExponent == 20       \* bound: regions are no larger than 2^20

ASSUME AllocationAssumption ==
    /\ {Base, AddressWord, PercWord} \subseteq Nat \ {0}
    /\ Requests \subseteq Seq(Nat)
    /\ \A r \in Requests : \A i \in DOMAIN r : r[i] \in 5..PowerOf2[MaxExponent]

Partition == DOMAIN memory      \* one more than the code's index
None == [located |-> 0, adress |-> 0,
         region |-> 0, nr_sec |-> 0, first |-> 0, nr_region |-> 0]

Init ==
    /\ memory \in Requests
    /\ block = [i \in Partition |-> None]
    /\ nr_located = 0
    /\ nr_region = 0
    /\ pointer = Base
    /\ memory_arr = [i \in Partition |-> [size |-> memory[i], address |-> 0]]

-----------------------------------------------------------------------------
Located(b) == {i \in Partition : b[i].located # 0}

(* The smallest power of two that m fits in. *)
RegionSize(m) ==
    CHOOSE r \in {PowerOf2[k] : k \in 1..MaxExponent} : m <= r /\ r < 2 * m

(* A section of that region, and how many m leaves free. *)
Sub(m) == RegionSize(m) \div 8
NumFree(m) == (RegionSize(m) - m) \div Sub(m)

LargestListed ==                \* mutant: the requests are not compared
    Min(Partition \ Located(block))

(* The first of the largest requests without a block. *)
Largest ==
    CHOOSE j \in Partition \ Located(block) :
        \A i \in Partition \ Located(block) :
            memory[i] < memory[j] \/ (memory[i] = memory[j] /\ j <= i)

(* vec and perc, the best first, when i is considered: what is kept of a   *)
(* size is its last byte.                                                  *)
Inserted(best, i) ==
    [k \in DOMAIN best |->
        IF \E l \in 1..(k - 1) : best[l].perc < memory[i] THEN best[k - 1]
        ELSE IF best[k].perc < memory[i]
          THEN [vec |-> i, perc |-> memory[i] % PercWord]
          ELSE best[k]]

BestOfAll(b, n, low, high) ==   \* mutant: those with a block are taken too
    LET best[i \in 0..Len(memory)] ==
          IF i = 0 THEN [k \in 1..n |-> [vec |-> 0, perc |-> 0]]
          ELSE IF low < memory[i] /\ memory[i] <= high THEN Inserted(best[i - 1], i)
          ELSE best[i - 1]
    IN  best[Len(memory)]

(* Partition i has no block and asks for more than low, no more than high. *)
Candidate(b, low, high, i) ==
    b[i].located = 0 /\ low < memory[i] /\ memory[i] <= high

(* The best n of the candidates. *)
Best(b, n, low, high) ==
    LET best[i \in 0..Len(memory)] ==
          IF i = 0 THEN [k \in 1..n |-> [vec |-> 0, perc |-> 0]]
          ELSE IF Candidate(b, low, high, i) THEN Inserted(best[i - 1], i)
          ELSE best[i - 1]
    IN  best[Len(memory)]

Nobody == [vec |-> 0, after |-> 0, nr_sec |-> 0, first |-> 0]

(* A candidate c, if it is one, is given nr_sec sections, which are placed *)
(* after those of partition p.                                             *)
Give(c, p, nr_sec, first) ==
    IF c.perc = 0 THEN Nobody
    ELSE [vec |-> c.vec, after |-> p, nr_sec |-> nr_sec, first |-> first]

(* insertMem: who is given the free sections of partition j's region.      *)
OneFree(b, j, sub) == <<Give(Best(b, 1, 0, sub)[1], j, 1, 8), Nobody, Nobody>>

(* The second of two is placed whether the first has been or not. *)
TwoFree(b, j, sub) ==
    LET both == Best(b, 1, 0, 2 * sub)[1]
        one == Best(b, 2, 0, sub)
    IN  << IF both.perc # 0 /\ both.perc >= one[1].perc + one[2].perc
             THEN Give(both, j, 2, 7)
             ELSE Give(one[1], j, 1, 7),
           Give(one[2], one[1].vec, 1, 8),
           Nobody >>

(* A single one is given the first section, and then all three. *)
ThreeFree(b, j, sub) ==
    LET all == Best(b, 1, 0, 3 * sub)[1]
        single == Best(b, 1, 0, sub)[1]
        double == Best(b, 1, sub, 2 * sub)[1]
        one == Best(b, 3, 0, sub)
        ones == one[1].perc + one[2].perc + one[3].perc
    IN  IF all.perc # 0 /\ all.perc >= single.perc + double.perc /\ all.perc >= ones
          THEN <<Give(all, j, 3, 6), Nobody, Nobody>>
        ELSE IF single.perc + double.perc < ones
          THEN <<Give(one[1], j, 1, 6), Give(one[2], one[1].vec, 1, 7),
                 Give(one[3], one[2].vec, 1, 8)>>
        ELSE IF single.perc # 0 /\ double.perc # 0
          THEN <<Give(single, j, 1, 6), Give(double, single.vec, 2, 7), Nobody>>
        ELSE IF single.perc # 0
          THEN <<Give(single, j, 3, 6), Nobody, Nobody>>
          ELSE <<Give(double, j, 3, 6), Nobody, Nobody>>

insertMem(num_free, b, j, sub) ==
    CASE num_free = 1 -> OneFree(b, j, sub)
      [] num_free = 2 -> TwoFree(b, j, sub)
      [] num_free = 3 -> ThreeFree(b, j, sub)
      [] OTHER -> <<Nobody, Nobody, Nobody>>

(* updateMem *)
Block(adr, sub, region, nr_sec, first, nr) ==
    [located |-> sub * nr_sec, adress |-> adr % AddressWord,
     region |-> region, nr_sec |-> nr_sec, first |-> first, nr_region |-> nr]

(* The blocks after g has been given sections of j's region: next to j's   *)
(* own, or to the one section of another.                                  *)
Placed(b, g, j, sub, region, nr) ==
    LET end == b[g.after].adress + (IF g.after = j THEN b[j].located ELSE sub)
    IN  IF g = Nobody THEN b
        ELSE [b EXCEPT ![g.vec] = Block(end, sub, region, g.nr_sec, g.first, nr)]

Given(b, given, j, sub, region, nr) ==
    LET b1 == Placed(b, given[1], j, sub, region, nr)
        b2 == Placed(b1, given[2], j, sub, region, nr)
    IN  Placed(b2, given[3], j, sub, region, nr)

NextPointerBySections(region, sub, num_free) ==     \* mutant: free sections are not skipped
    pointer + sub * (8 - num_free)

NextPointer(region, sub, num_free) == pointer + region

(* A round of sortMem's loop. *)
Round ==
    /\ nr_located # Len(memory)
    /\ LET j == Largest
           region == RegionSize(memory[j])
           sub == Sub(memory[j])
           num_free == NumFree(memory[j])
           own == [block EXCEPT ![j] =
                     Block(pointer, sub, region, 8 - num_free, 1, nr_region + 1)]
           given == insertMem(num_free, own, j, sub)
       IN  /\ block' = Given(own, given, j, sub, region, nr_region + 1)
           /\ nr_located' = nr_located + 1 + Cardinality({k \in 1..3 : given[k] # Nobody})
           /\ pointer' = NextPointer(region, sub, num_free)
    /\ nr_region' = nr_region + 1
    /\ UNCHANGED <<memory, memory_arr>>

(* All have a block: sizes and addresses are written back. *)
WriteBack ==
    /\ nr_located = Len(memory)
    /\ memory_arr' = [i \in Partition |-> [size |-> block[i].located,
                                           address |-> block[i].adress]]
    /\ UNCHANGED <<memory, block, nr_located, nr_region, pointer>>

Next == Round \/ WriteBack

Spec == Init /\ [][Next]_vars

-----------------------------------------------------------------------------
(* What the program does not ask of its tables and needs for the           *)
(* properties below: assumed by the theorems that say so.                  *)

(* A size that fits in another's free sections is not cut to its last byte. *)
SizesKept ==
  \A r \in Requests : \A i \in DOMAIN r : \A j \in DOMAIN r :
     i # j /\ r[i] <= NumFree(r[j]) * Sub(r[j]) => r[i] < PercWord

(* Where two sections are free, no one asks for both of them and for at    *)
(* least as much as two together that ask for one each.                    *)
PairsUndivided ==
  \A r \in Requests : \A j \in DOMAIN r : NumFree(r[j]) = 2 =>
     \A a, p, q \in DOMAIN r \ {j} :
        /\ a # p /\ a # q /\ p # q
        /\ Sub(r[j]) < r[a] /\ r[a] <= 2 * Sub(r[j])
        /\ r[p] <= Sub(r[j]) /\ r[q] <= Sub(r[j])
        => r[a] < r[p] + r[q]

(* The memory starts at a multiple of every region, and regions do not     *)
(* reach the end of the address space.                                     *)
BaseFits ==
  \A r \in Requests :
     /\ Base + Len(r) * PowerOf2[MaxExponent] < AddressWord
     /\ \A i \in DOMAIN r : Base % RegionSize(r[i]) = 0

-----------------------------------------------------------------------------
(* Properties                                                              *)

(* Every variable keeps its type; the count is that of the blocks, so that *)
(* it meets the number of partitions exactly and the loop ends, with       *)
(* everyone's size and address written back (mpuTest.c:300, 325-337).      *)
TypeOK ==
    /\ memory \in Requests
    /\ \A i \in Partition : block[i] = None \/ block[i].located \in 1..block[i].region
    /\ nr_located = Cardinality(Located(block))
    /\ nr_region \in 0..nr_located
    /\ \A i \in Partition : memory_arr[i] \in [size : Nat, address : Nat]
    /\ pointer \in Nat

Bytes(i) == block[i].adress..(block[i].adress + block[i].located - 1)

(* No two partitions share a byte, in whatever order their sizes come and  *)
(* whoever has been given the sections another left (mpuTest.c:141-279).   *)
BlocksDisjoint ==
    \A i, k \in Located(block) : i # k => Bytes(i) \cap Bytes(k) = {}

RegionStart(i) ==
    block[i].adress - (block[i].first - 1) * (block[i].region \div 8)

(* A block is large enough for its request and, unless it is below all     *)
(* regions, lies where its info says in a region that starts, as the MPU   *)
(* wants it, at a multiple of its size (mpuTest.c:302-322).                *)
InAlignedRegion ==
    \A i \in Located(block) :
        /\ memory[i] <= block[i].located
        /\ block[i].adress >= Base =>
             /\ RegionStart(i) % block[i].region = 0
             /\ Bytes(i) \subseteq RegionStart(i)..(RegionStart(i) + block[i].region - 1)
=============================================================================
