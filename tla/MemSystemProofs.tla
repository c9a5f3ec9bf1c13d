-------------------------- MODULE MemSystemProofs --------------------------
(***************************************************************************)
(* Proofs about the physical block allocator alone, for every memory size, *)
(* every word width and every set of request sizes, and about everything   *)
(* that takes physical memory together: the kernel heap, the starting of   *)
(* user tasks and the scheduler, for every number of virtual pages, slots, *)
(* tasks and pids.                                                         *)
(*                                                                         *)
(* The bitmap, the holders and the count are exact as long as no run was   *)
(* taken across a full word; the reserved region is safe even then.        *)
(* SlotInv (which slot a live task owns) does not depend on the allocator  *)
(* and holds always.  MemInv (who uses which frame) holds as long as no    *)
(* run was taken across a full word and no NULL was mapped.                *)
(***************************************************************************)
EXTENDS MemSystem, FiniteSetTheorems, WellFoundedInduction, TLAPS

PMInv == PMTypeOK /\ KernelReserved /\ Exact /\ FailsOnlyWhenFull

----------------------------------------------------------------------------
(* Arithmetic of the memory layout *)

LEMMA Layout ==
    /\ WordBits \in Nat /\ NBlocks \in Nat /\ Limit \in Nat
    /\ RsvWords * WordBits \in Nat
    /\ Limit <= NBlocks
    /\ RsvWords * WordBits <= Limit
    /\ Rsv \subseteq Scannable
    /\ Scannable \subseteq Blocks
  <1>1. /\ WordBits \in Nat /\ WordBits > 0 /\ NWords \in Nat /\ NBlocks \in Nat
        /\ RsvWords \in Nat /\ RsvWords <= NWords
    BY PhysMemAssumption
  <1>2. RsvWords * WordBits \in Nat /\ NWords * WordBits \in Nat
    BY <1>1
  <1>3. RsvWords * WordBits <= NWords * WordBits
    BY <1>1
  <1>4. NWords * WordBits <= NBlocks
    BY PhysMemAssumption
  <1> QED
    BY <1>1, <1>2, <1>3, <1>4 DEF Limit, Rsv, Scannable, Blocks

LEMMA FiniteBlocks ==
    ASSUME NEW S \in SUBSET Blocks
    PROVE  IsFiniteSet(S) /\ Cardinality(S) \in Nat /\ Cardinality(S) <= NBlocks
  <1>1. NBlocks - 1 \in Int /\ NBlocks \in Nat
    BY Layout
  <1>2. /\ IsFiniteSet(0 .. NBlocks - 1)
        /\ Cardinality(0 .. NBlocks - 1) =
             IF 0 > NBlocks - 1 THEN 0 ELSE (NBlocks - 1) - 0 + 1
    BY <1>1, FS_Interval
  <1>3. IsFiniteSet(Blocks) /\ Cardinality(Blocks) = NBlocks
    BY <1>1, <1>2 DEF Blocks
  <1> QED
    BY <1>3, FS_Subset, FS_CardinalityType

----------------------------------------------------------------------------
(* The scan *)

\* What mmap_get_free_consecutives returns: the n blocks from f end at or before
\* the last block tested, f itself is free, and if no full word was skipped on
\* the way all n of them are free.
LEMMA ScanResult ==
    ASSUME NEW n \in Nat \ {0}, NEW f, NEW l, Consecutives(n, f, l),
           pmap \subseteq Blocks
    PROVE  /\ f \in Scannable \ pmap /\ l \in Scannable
           /\ f <= l /\ f + n - 1 <= l
           /\ f .. f + n - 1 \subseteq Scannable
           /\ (\A b \in f .. l : b \in Scanned) =>
                 (f .. f + n - 1) \cap pmap = {}
  <1> DEFINE seg == {b \in Scanned : f <= b /\ b <= l}
  <1>1. /\ f \in Scanned /\ l \in Scanned
        /\ seg \cap pmap = {} /\ Cardinality(seg) = n
    BY DEF Consecutives, FreeRun
  <1>2. f \in Scannable /\ l \in Scannable /\ f \in Nat /\ l \in Nat
    BY <1>1, Layout DEF Scanned, Scannable
  <1>3. IsFiniteSet(f .. l) /\ Cardinality(f .. l) = IF f > l THEN 0 ELSE l - f + 1
    BY <1>2, FS_Interval
  <1>4. seg \in SUBSET (f .. l)
    BY <1>2, Layout DEF Scanned, Scannable
  <1>5. n <= Cardinality(f .. l)
    BY <1>1, <1>3, <1>4, FS_Subset
  <1>6. f <= l /\ n <= l - f + 1
    BY <1>2, <1>3, <1>5
  <1>7. f \in seg
    BY <1>1, <1>2, <1>6
  <1>8. f .. f + n - 1 \subseteq Scannable
    BY <1>2, <1>6, Layout DEF Scannable
  <1>9. ASSUME \A b \in f .. l : b \in Scanned
        PROVE  (f .. f + n - 1) \cap pmap = {}
    <2>1. f .. f + n - 1 \subseteq seg
      BY <1>2, <1>6, <1>9
    <2> QED
      BY <1>1, <2>1
  <1> QED
    BY <1>1, <1>2, <1>6, <1>7, <1>8, <1>9

\* If no run is found there is none: a run of consecutive free blocks lies in
\* words that are not full, so the scan tests each of its blocks in turn.
LEMMA ScanComplete ==
    ASSUME NEW n \in Nat \ {0}, NoConsecutives(n),
           NEW f \in Scannable, f + n - 1 \in Scannable
    PROVE  (f .. f + n - 1) \cap pmap # {}
  <1> SUFFICES ASSUME (f .. f + n - 1) \cap pmap = {} PROVE FALSE
    OBVIOUS
  <1> DEFINE l == f + n - 1
             seg == {b \in Scanned : f <= b /\ b <= l}
  <1>1. f \in Nat /\ l \in Nat /\ f <= l
    BY Layout DEF Scannable
  <1>2. f .. l \subseteq Scannable
    BY <1>1, Layout DEF Scannable
  <1>3. f .. l \subseteq Scanned
    BY <1>2 DEF Scanned, FullWord
  <1>4. seg = f .. l
    BY <1>1, <1>3, Layout DEF Scanned, Scannable
  <1>5. Cardinality(seg) = n
    <2>1. Cardinality(f .. l) = IF f > l THEN 0 ELSE l - f + 1
      BY <1>1, FS_Interval
    <2>2. l - f + 1 = n
      BY <1>1
    <2>3. Cardinality(f .. l) = n
      BY <1>1, <2>1, <2>2
    <2> HIDE DEF seg, l
    <2> QED
      BY <1>4, <2>3
  <1>6. f \in Scanned /\ l \in Scanned
    BY <1>1, <1>3
  <1>7. FreeRun(Scanned, n, f, l)
    BY <1>4, <1>5, <1>6 DEF FreeRun
  <1> QED
    BY <1>6, <1>7 DEF NoConsecutives

\* When pm_free_count is below n there cannot be n free blocks.
LEMMA CountComplete ==
    ASSUME NEW n \in Nat \ {0}, FreeCountBelow(n),
           pmap \subseteq Blocks, used = Cardinality(pmap),
           NEW f \in Scannable, f + n - 1 \in Scannable
    PROVE  (f .. f + n - 1) \cap pmap # {}
  <1> SUFFICES ASSUME (f .. f + n - 1) \cap pmap = {} PROVE FALSE
    OBVIOUS
  <1> DEFINE R == f .. f + n - 1
  <1>1. f \in Nat /\ R \subseteq Blocks
    BY Layout DEF Scannable, Blocks
  <1>2. IsFiniteSet(R) /\ Cardinality(R) = n
    BY <1>1, FS_Interval
  <1>3. IsFiniteSet(pmap) /\ Cardinality(pmap) \in Nat
    BY FiniteBlocks
  <1>4. Cardinality(pmap \cup R) = Cardinality(pmap) + n - Cardinality(pmap \cap R)
    BY <1>2, <1>3, FS_Union
  <1>5. pmap \cap R = {} /\ Cardinality(pmap \cap R) = 0
    BY FS_EmptySet
  <1>6. Cardinality(pmap \cup R) <= NBlocks
    BY <1>1, FiniteBlocks
  <1>7. NBlocks - used < n
    BY DEF FreeCountBelow
  <1> QED
    BY <1>3, <1>4, <1>5, <1>6, <1>7, Layout

----------------------------------------------------------------------------
(* The invariant *)

LEMMA PMInitInv == PMInit => PMInv
  <1> SUFFICES ASSUME PMInit PROVE PMInv
    OBVIOUS
  <1> USE DEF PMInit
  <1>1. PMTypeOK
    <2>1. Rsv \subseteq Blocks /\ RsvWords * WordBits \in Int
      BY Layout
    <2> QED
      BY <2>1 DEF PMTypeOK
  <1>2. KernelReserved
    BY Layout DEF KernelReserved
  <1>3. Cardinality(Rsv) = RsvWords * WordBits
    BY Layout, FS_Interval DEF Rsv
  <1>4. Exact
    BY <1>3, Layout DEF Exact
  <1>5. FailsOnlyWhenFull
    BY DEF FailsOnlyWhenFull
  <1> QED
    BY <1>1, <1>2, <1>4, <1>5 DEF PMInv

\* Granting the free blocks of S, n of them, keeps the bookkeeping exact;
\* granting any run above the reserved blocks keeps those reserved.
LEMMA GrantInv ==
    ASSUME PMInv, NEW n \in Nat \ {0}, NEW S \in SUBSET Scannable,
           S \cap Rsv = {}, Grant(S, n), straddled' \in BOOLEAN,
           ~straddled' => ~straddled /\ S \cap pmap = {} /\ Cardinality(S) = n
    PROVE  PMInv'
  <1> USE DEF Grant
  <1>0. S \subseteq Blocks /\ pmap \subseteq Blocks
    BY Layout DEF PMInv, PMTypeOK
  <1>1. PMTypeOK'
    BY <1>0 DEF PMInv, PMTypeOK
  <1>2. KernelReserved'
    BY <1>0, Layout DEF PMInv, KernelReserved
  <1>3. Exact'
    <2> SUFFICES ASSUME ~straddled' PROVE /\ \A b \in Blocks : held'[b] <= 1
                                          /\ pmap' = Rsv \cup {b \in Blocks : held'[b] = 1}
                                          /\ used' = Cardinality(pmap')
      BY DEF Exact
    <2>1. /\ S \cap pmap = {} /\ Cardinality(S) = n
          /\ \A b \in Blocks : held[b] <= 1
          /\ pmap = Rsv \cup {b \in Blocks : held[b] = 1}
          /\ used = Cardinality(pmap)
      BY DEF PMInv, Exact
    <2>2. \A b \in S : held[b] = 0
      BY <1>0, <2>1 DEF PMInv, PMTypeOK
    <2>3. \A b \in Blocks : held'[b] = IF b \in S THEN 1 ELSE held[b]
      BY <2>2
    <2>4. pmap' = Rsv \cup {b \in Blocks : held'[b] = 1}
      BY <1>0, <2>1, <2>3
    <2>5. IsFiniteSet(S) /\ IsFiniteSet(pmap) /\ Cardinality(pmap) \in Nat
      BY <1>0, FiniteBlocks
    <2>6. Cardinality(pmap \cap S) = 0
      BY <2>1, FS_EmptySet
    <2>7. Cardinality(pmap \cup S) =
            Cardinality(pmap) + Cardinality(S) - Cardinality(pmap \cap S)
      BY <2>5, FS_Union
    <2>8. Cardinality(pmap') = Cardinality(pmap) + n
      BY <2>1, <2>5, <2>6, <2>7
    <2> QED
      BY <2>1, <2>3, <2>4, <2>8
  <1>4. FailsOnlyWhenFull'
    BY DEF FailsOnlyWhenFull
  <1> QED
    BY <1>1, <1>2, <1>3, <1>4 DEF PMInv

LEMMA AllocInv ==
    ASSUME PMInv, NEW f \in Scannable, Alloc(f)
    PROVE  PMInv'
  <1>1. f \notin pmap /\ Grant({f}, 1) /\ straddled' = straddled
    BY DEF Alloc, FirstFree
  <1>2. {f} \cap Rsv = {} /\ {f} \cap pmap = {}
    BY <1>1 DEF PMInv, KernelReserved
  <1>3. Cardinality({f}) = 1
    BY FS_Singleton
  <1>4. straddled' \in BOOLEAN
    BY <1>1 DEF PMInv, PMTypeOK
  <1> QED
    BY <1>1, <1>2, <1>3, <1>4, GrantInv

LEMMA AllocBlocksInv ==
    ASSUME PMInv, NEW n \in Sizes, NEW f \in Scannable, AllocBlocks(n, f)
    PROVE  PMInv'
  <1>0. n \in Nat \ {0} /\ pmap \subseteq Blocks
    BY PhysMemAssumption DEF PMInv, PMTypeOK
  <1>1. PICK l \in Scanned :
           /\ Consecutives(n, f, l)
           /\ straddled' = (straddled \/ \E b \in f .. l : b \notin Scanned)
    BY DEF AllocBlocks
  <1>2. /\ f \in Scannable \ pmap
        /\ f .. f + n - 1 \subseteq Scannable
        /\ (\A b \in f .. l : b \in Scanned) => (f .. f + n - 1) \cap pmap = {}
    BY <1>0, <1>1, ScanResult
  <1>3. (f .. f + n - 1) \cap Rsv = {}
    <2>1. f \notin Rsv /\ f \in Nat
      BY <1>2, Layout DEF PMInv, KernelReserved, Scannable
    <2> QED
      BY <1>0, <2>1, Layout DEF Rsv
  <1>4. Cardinality(f .. f + n - 1) = n
    <2>1. f \in Nat
      BY Layout DEF Scannable
    <2> QED
      BY <1>0, <2>1, FS_Interval
  <1>5. straddled' \in BOOLEAN
    BY <1>1
  <1>6. ~straddled' => ~straddled /\ (f .. f + n - 1) \cap pmap = {}
    BY <1>1, <1>2
  <1>7. Grant(f .. f + n - 1, n)
    BY DEF AllocBlocks
  <1> QED
    BY <1>0, <1>2, <1>3, <1>4, <1>5, <1>6, <1>7, GrantInv

\* A refusal changes nothing, and is justified.
LEMMA RefuseInv ==
    ASSUME PMInv, NEW n \in Nat \ {0}, n \in Sizes \cup {1}, Refuse(n),
           FreeCountBelow(n) \/ NoConsecutives(n)
    PROVE  PMInv'
  <1> USE DEF Refuse
  <1>1. PMTypeOK' /\ KernelReserved' /\ Exact'
    BY DEF PMInv, PMTypeOK, KernelReserved, Exact
  <1>2. ASSUME ~straddled, NEW f \in Scannable, f + n - 1 \in Scannable
        PROVE  (f .. f + n - 1) \cap pmap # {}
    <2>1. pmap \subseteq Blocks /\ used = Cardinality(pmap)
      BY <1>2 DEF PMInv, PMTypeOK, Exact
    <2> QED
      BY <1>2, <2>1, ScanComplete, CountComplete
  <1>3. FailsOnlyWhenFull'
    BY <1>2 DEF FailsOnlyWhenFull
  <1> QED
    BY <1>1, <1>3 DEF PMInv

LEMMA AllocFailsInv == PMInv /\ AllocFails => PMInv'
  <1> SUFFICES ASSUME PMInv, AllocFails PROVE PMInv'
    OBVIOUS
  <1>1. ASSUME Scannable \subseteq pmap PROVE NoConsecutives(1)
    <2>1. Scanned = {}
      BY <1>1 DEF Scanned, FullWord
    <2> QED
      BY <2>1 DEF NoConsecutives
  <1> QED
    BY <1>1, RefuseInv DEF AllocFails

\* Giving back blocks that are not reserved, each of them held, keeps the
\* bookkeeping exact.
LEMMA ReleaseInv ==
    ASSUME PMInv, NEW S \in SUBSET Blocks, S \cap Rsv = {}, Release(S),
           ~straddled => \A b \in S : held[b] = 1
    PROVE  PMInv'
  <1> USE DEF Release
  <1>0. held \in [Blocks -> Nat] /\ pmap \subseteq Blocks
    BY DEF PMInv, PMTypeOK
  <1>1. PMTypeOK'
    <2>1. Cardinality(S) \in Int
      BY FiniteBlocks
    <2> QED
      BY <1>0, <2>1 DEF PMInv, PMTypeOK
  <1>2. KernelReserved'
    BY <1>0, Layout DEF PMInv, KernelReserved
  <1>3. Exact'
    <2> SUFFICES ASSUME ~straddled
                 PROVE  /\ \A c \in Blocks : held'[c] <= 1
                        /\ pmap' = Rsv \cup {c \in Blocks : held'[c] = 1}
                        /\ used' = Cardinality(pmap')
      BY DEF Exact
    <2>1. /\ \A c \in Blocks : held[c] <= 1
          /\ pmap = Rsv \cup {c \in Blocks : held[c] = 1}
          /\ used = Cardinality(pmap)
      BY DEF PMInv, Exact
    <2>2. S \subseteq pmap
      BY <2>1
    <2>3. \A c \in Blocks : held'[c] = IF c \in S THEN 0 ELSE held[c]
      BY <1>0
    <2>4. pmap' = Rsv \cup {c \in Blocks : held'[c] = 1}
      BY <1>0, <2>1, <2>3
    <2>5. /\ IsFiniteSet(pmap) /\ IsFiniteSet(S) /\ IsFiniteSet(pmap \ S)
          /\ Cardinality(S) \in Nat /\ Cardinality(pmap \ S) \in Nat
      BY <1>0, FiniteBlocks
    <2>6. Cardinality(pmap) = Cardinality(pmap \ S) + Cardinality(S)
      <3> DEFINE T == pmap \ S
      <3>1. T \cup S = pmap /\ T \cap S = {}
        BY <2>2
      <3>2. IsFiniteSet(T) /\ Cardinality(T) \in Nat
        BY <2>5
      <3> HIDE DEF T
      <3>3. Cardinality(T \cup S) = Cardinality(T) + Cardinality(S) - Cardinality(T \cap S)
        BY <2>5, <3>2, FS_Union
      <3>4. Cardinality(T \cup S) = Cardinality(pmap) /\ Cardinality(T \cap S) = 0
        BY <3>1, FS_EmptySet, Zenon
      <3>5. Cardinality(pmap) = Cardinality(T) + Cardinality(S)
        BY <2>5, <3>2, <3>3, <3>4
      <3> QED
        BY <3>5 DEF T
    <2> QED
      BY <2>1, <2>3, <2>4, <2>5, <2>6
  <1>4. FailsOnlyWhenFull'
    BY DEF FailsOnlyWhenFull
  <1> QED
    BY <1>1, <1>2, <1>3, <1>4 DEF PMInv

LEMMA FreeInv ==
    ASSUME PMInv, NEW b \in Blocks, Free(b)
    PROVE  PMInv'
  <1>1. held[b] \in Nat /\ held[b] > 0
    BY DEF Free, PMInv, PMTypeOK
  <1>2. b \notin Rsv
    BY <1>1 DEF PMInv, KernelReserved
  <1>3. ~straddled => held[b] = 1
    BY <1>1 DEF PMInv, Exact
  <1> QED
    BY <1>2, <1>3, ReleaseInv DEF Free

LEMMA PMNextInv == PMInv /\ [PMNext]_pvars => PMInv'
  <1> SUFFICES ASSUME PMInv, [PMNext]_pvars PROVE PMInv'
    OBVIOUS
  <1>1. ASSUME NEW n \in Sizes, AllocBlocksFails(n) PROVE PMInv'
    BY <1>1, RefuseInv, PhysMemAssumption DEF AllocBlocksFails
  <1>2. CASE UNCHANGED pvars
    BY <1>2 DEF PMInv, PMTypeOK, KernelReserved, Exact, FailsOnlyWhenFull, pvars
  <1> QED
    BY <1>1, <1>2, AllocInv, AllocFailsInv, AllocBlocksInv, FreeInv DEF PMNext

----------------------------------------------------------------------------
(* Loops.  What a loop computes for every length is proved by looking at the  *)
(* first turn that would break the loop's invariant.                          *)

\* A set of numbers that is not empty has a least element.
LEMMA SmallestOf ==
    ASSUME NEW T, T \subseteq Nat, T # {}
    PROVE  \E x \in T : \A y \in T : x <= y
  <1> DEFINE R == OpToRel(<, Nat)
  <1>1. IsWellFoundedOn(R, Nat)
    BY NatLessThanWellFounded
  <1>2. \A x, y \in Nat : y < x => <<y, x>> \in R
    BY DEF OpToRel
  <1> HIDE DEF R
  <1>3. PICK x \in T : \A y \in T : ~(<<y, x>> \in R)
    BY <1>1, WFMin
  <1>4. ASSUME NEW y \in T
        PROVE  x <= y
    <2>1. x \in Nat /\ y \in Nat /\ ~(<<y, x>> \in R)
      BY <1>3
    <2>2. ~(y < x)
      BY <1>2, <2>1
    <2> QED
      BY <2>1, <2>2
  <1> QED
    BY <1>4

\* Induction up to n, for the set of the numbers that have the property.
LEMMA UpTo ==
    ASSUME NEW n \in Nat, NEW Good, 0 \in Good,
           \A k \in 1 .. n : k - 1 \in Good => k \in Good
    PROVE  0 .. n \subseteq Good
  <1> DEFINE Bad == {k \in 0 .. n : k \notin Good}
  <1> SUFFICES ASSUME Bad # {}
               PROVE  FALSE
    OBVIOUS
  <1>1. Bad \subseteq Nat
    OBVIOUS
  <1>2. PICK k \in Bad : \A j \in Bad : k <= j
    <2> HIDE DEF Bad
    <2> QED
      BY <1>1, SmallestOf
  <1>3. k \in 1 .. n /\ k - 1 \in 0 .. n /\ ~(k <= k - 1)
    OBVIOUS
  <1>4. k - 1 \in Good
    BY <1>2, <1>3
  <1> QED
    BY <1>3, <1>4

\* A loop that goes from state to state is a function of the number of its turns.
IsLoop(n, S, a, step) == n \in Nat /\ a \in S /\ step \in [1 .. n -> [S -> S]]

Turns(g, n, S, a, step) ==
    /\ g \in [0 .. n -> S] /\ g[0] = a
    /\ \A b \in 1 .. n : g[b] = step[b][g[b - 1]]

LEMMA LoopExists ==
    ASSUME NEW n, NEW S, NEW a, NEW step, IsLoop(n, S, a, step)
    PROVE  \E g : Turns(g, n, S, a, step)
  <1> USE DEF IsLoop
  <1> DEFINE Run(g, k) == g[0] = a /\ \A b \in 1 .. k : g[b] = step[b][g[b - 1]]
             Good == {k \in 0 .. n : \E g \in [0 .. k -> S] : Run(g, k)}
  <1>1. 0 \in Good
    <2> DEFINE g == [b \in 0 .. 0 |-> a]
    <2>1. g \in [0 .. 0 -> S] /\ Run(g, 0)
      OBVIOUS
    <2> HIDE DEF g, Run
    <2>2. \E f \in [0 .. 0 -> S] : Run(f, 0)
      BY <2>1
    <2> QED
      BY <2>2
  <1>2. ASSUME NEW k \in 1 .. n, k - 1 \in Good
        PROVE  k \in Good
    <2>1. PICK g \in [0 .. k - 1 -> S] : Run(g, k - 1)
      BY <1>2
    <2> DEFINE h == [b \in 0 .. k |-> IF b < k THEN g[b] ELSE step[k][g[k - 1]]]
    <2>2. g[k - 1] \in S /\ step[k][g[k - 1]] \in S
      BY <2>1
    <2>3. h \in [0 .. k -> S]
      BY <2>1, <2>2
    <2>4. h[0] = a
      BY <2>1
    <2>5. ASSUME NEW b \in 1 .. k
          PROVE  h[b] = step[b][h[b - 1]]
      <3>1. h[b - 1] = g[b - 1]
        OBVIOUS
      <3>2. CASE b = k
        BY <3>1, <3>2
      <3>3. CASE b # k
        <4>1. b \in 1 .. k - 1 /\ h[b] = g[b]
          BY <3>3
        <4> QED
          BY <2>1, <3>1, <4>1
      <3> QED
        BY <3>2, <3>3
    <2>6. h \in [0 .. k -> S] /\ Run(h, k)
      BY <2>3, <2>4, <2>5
    <2> HIDE DEF h, Run
    <2>7. \E f \in [0 .. k -> S] : Run(f, k)
      BY <2>6
    <2> QED
      BY <2>7
  <1> HIDE DEF Good
  <1>3. n \in Good
    <2>1. 0 .. n \subseteq Good
      BY <1>1, <1>2, UpTo
    <2> QED
      BY <2>1
  <1> QED
    BY <1>3 DEF Good, Turns

----------------------------------------------------------------------------
(* The loop of mmap_get_free_consecutives *)

ScanStates == [c : Nat, first : Nat, found : Int]

ScanStart == [c |-> 0, first |-> 0, found |-> -1]

\* One more turn of the loop, for block b - 1.
ScanStep(n, b, s) ==
    IF s.found # -1 \/ FullWord(b - 1)
      THEN s
      ELSE IF b - 1 \in pmap
        THEN [s EXCEPT !.c = 0, !.first = 0]
        ELSE LET f == IF s.first = 0 THEN b - 1 ELSE s.first
             IN  [c |-> s.c + 1, first |-> f, found |-> IF s.c + 1 = n THEN f ELSE -1]

\* The loop computes: each of its states follows from the one before.
LEMMA LoopTurns ==
    ASSUME NEW n \in Nat \ {0}
    PROVE  \E g :
             /\ g[0] = ScanStart
             /\ \A b \in 1 .. Limit : g[b] = ScanStep(n, b, g[b - 1])
             /\ Loop(n) = g[Limit].found
  <1> DEFINE step == [b \in 1 .. Limit |-> [s \in ScanStates |-> ScanStep(n, b, s)]]
             P(g) == g = [b \in 0 .. Limit |->
                            IF b = 0 THEN ScanStart ELSE ScanStep(n, b, g[b - 1])]
  <1>1. Limit \in Nat
    BY Layout
  <1>2. ScanStart \in ScanStates
    BY DEF ScanStart, ScanStates
  <1>3. ASSUME NEW b \in 1 .. Limit, NEW s \in ScanStates
        PROVE  ScanStep(n, b, s) \in ScanStates
    <2>1. b - 1 \in Nat
      BY <1>1
    <2>2. /\ s.c + 1 \in Nat /\ 0 \in Nat
          /\ (IF s.first = 0 THEN b - 1 ELSE s.first) \in Nat
      BY <2>1 DEF ScanStates
    <2>3. CASE s.found # -1 \/ FullWord(b - 1)
      BY <2>3 DEF ScanStep
    <2>4. CASE ~(s.found # -1 \/ FullWord(b - 1)) /\ b - 1 \in pmap
      BY <2>4 DEF ScanStep, ScanStates
    <2>5. CASE ~(s.found # -1 \/ FullWord(b - 1)) /\ b - 1 \notin pmap
      <3> DEFINE f == IF s.first = 0 THEN b - 1 ELSE s.first
                 e == IF s.c + 1 = n THEN f ELSE -1
      <3>1. ScanStep(n, b, s) = [c |-> s.c + 1, first |-> f, found |-> e]
        BY <2>5 DEF ScanStep
      <3>2. f \in Nat /\ e \in Int
        BY <2>2
      <3> HIDE DEF f, e
      <3> QED
        BY <2>2, <3>1, <3>2 DEF ScanStates
    <2> QED
      BY <2>3, <2>4, <2>5
  <1>4. step \in [1 .. Limit -> [ScanStates -> ScanStates]]
    BY <1>3
  <1>a. IsLoop(Limit, ScanStates, ScanStart, step)
    BY <1>1, <1>2, <1>4 DEF IsLoop
  <1>b. PICK g : Turns(g, Limit, ScanStates, ScanStart, step)
    <2> HIDE DEF step
    <2> QED
      BY <1>a, LoopExists
  <1>5. /\ g \in [0 .. Limit -> ScanStates] /\ g[0] = ScanStart
        /\ \A b \in 1 .. Limit : g[b] = step[b][g[b - 1]]
    BY <1>b DEF Turns
  <1>6. ASSUME NEW b \in 1 .. Limit
        PROVE  g[b] = ScanStep(n, b, g[b - 1])
    <2>1. g[b - 1] \in ScanStates
      BY <1>1, <1>5
    <2> QED
      BY <1>5, <2>1
  <1>7. P(g)
    <2>1. \A b \in 0 .. Limit : b = 0 \/ b \in 1 .. Limit
      BY <1>1
    <2>2. \A b \in 0 .. Limit :
            g[b] = IF b = 0 THEN ScanStart ELSE ScanStep(n, b, g[b - 1])
      BY <1>5, <1>6, <2>1
    <2> QED
      BY <1>5, <2>2
  <1> DEFINE G == CHOOSE f : P(f)
  <1>8. P(G)
    BY <1>7, Zenon
  <1>9. Loop(n) = G[Limit].found
    BY DEF Loop, ScanStep, ScanStart
  <1> HIDE DEF G
  <1>10. G[0] = ScanStart /\ \A b \in 1 .. Limit : G[b] = ScanStep(n, b, G[b - 1])
    BY <1>1, <1>8
  <1> QED
    BY <1>9, <1>10

\* Where the run begins that the loop is counting, and the blocks it has counted.
RunFrom(b, s) == IF s.c = 0 THEN b ELSE s.first
Counted(f, b) == {x \in Scanned : f <= x /\ x < b}

\* What the loop knows before it tests block b: what it counts is the run of free
\* blocks that ends there, and no run that was long enough has ended before.
ScanInv(n, b, s) ==
    /\ s \in ScanStates
    /\ s.found = -1 =>
         /\ s.c < n /\ (s.first = 0 <=> s.c = 0)
         /\ s.c > 0 => s.first \in Scanned /\ s.first < b
         /\ Counted(RunFrom(b, s), b) \cap pmap = {}
         /\ Cardinality(Counted(RunFrom(b, s), b)) = s.c
         /\ \A x \in Scanned : x < RunFrom(b, s) =>
              \E y \in Scanned \cap pmap : x <= y /\ y < RunFrom(b, s)
         /\ \A m \in Scanned : m < b => \A g \in Scanned : ~FreeRun(Scanned, n, g, m)
    /\ s.found # -1 => \E l \in Scanned : Consecutives(n, s.found, l)

LEMMA CountedFacts ==
    ASSUME NEW f \in Nat, NEW b \in 1 .. Limit
    PROVE  /\ IsFiniteSet(Counted(f, b)) /\ Cardinality(Counted(f, b)) \in Nat
           /\ b - 1 \notin Scanned => Counted(f, b) = Counted(f, b - 1)
           /\ b - 1 \in Scanned /\ f <= b - 1 =>
                /\ Counted(f, b) = Counted(f, b - 1) \cup {b - 1}
                /\ Cardinality(Counted(f, b)) = Cardinality(Counted(f, b - 1)) + 1
           /\ \A g \in Scanned : f <= g => Cardinality(Counted(g, b)) <= Cardinality(Counted(f, b))
           /\ \A g : {x \in Scanned : g <= x /\ x <= b - 1} = Counted(g, b)
  <1>0. /\ Limit \in Nat /\ b \in Nat /\ \A x \in Scanned : x \in Nat /\ x \in Blocks
    BY Layout DEF Scanned, Scannable
  <1>1. \A g, e : Counted(g, e) \in SUBSET Blocks
    BY <1>0 DEF Counted
  <1>2. \A g, e : IsFiniteSet(Counted(g, e)) /\ Cardinality(Counted(g, e)) \in Nat
    BY <1>1, FiniteBlocks
  <1>3. b - 1 \notin Scanned => Counted(f, b) = Counted(f, b - 1)
    BY <1>0 DEF Counted
  <1>4. ASSUME b - 1 \in Scanned, f <= b - 1
        PROVE  /\ Counted(f, b) = Counted(f, b - 1) \cup {b - 1}
               /\ Cardinality(Counted(f, b)) = Cardinality(Counted(f, b - 1)) + 1
    <2>1. Counted(f, b) = Counted(f, b - 1) \cup {b - 1} /\ b - 1 \notin Counted(f, b - 1)
      BY <1>0, <1>4 DEF Counted
    <2>2. Cardinality(Counted(f, b - 1) \cup {b - 1}) = Cardinality(Counted(f, b - 1)) + 1
      BY <1>2, <2>1, FS_AddElement
    <2> QED
      BY <2>1, <2>2
  <1>5. ASSUME NEW g \in Scanned, f <= g
        PROVE  Cardinality(Counted(g, b)) <= Cardinality(Counted(f, b))
    <2>1. Counted(g, b) \subseteq Counted(f, b)
      BY <1>0, <1>5 DEF Counted
    <2> QED
      BY <1>2, <2>1, FS_Subset
  <1>6. \A g : {x \in Scanned : g <= x /\ x <= b - 1} = Counted(g, b)
    BY <1>0 DEF Counted
  <1> QED
    BY <1>2, <1>3, <1>4, <1>5, <1>6

\* One turn of the loop.
LEMMA ScanKept ==
    ASSUME NEW n \in Nat \ {0}, 0 \in pmap, NEW b \in 1 .. Limit, NEW s,
           ScanInv(n, b - 1, s)
    PROVE  ScanInv(n, b, ScanStep(n, b, s))
  <1>0. /\ Limit \in Nat /\ b \in Nat /\ b - 1 \in Nat /\ b - 1 \in Scannable
        /\ \A x \in Scanned : x \in Nat
        /\ b - 1 \in Scanned <=> ~FullWord(b - 1)
        /\ s \in ScanStates /\ s.c \in Nat /\ s.first \in Nat
    BY Layout DEF Scanned, Scannable, ScanInv, ScanStates
  <1>1. CASE s.found # -1
    BY <1>1 DEF ScanStep, ScanInv
  <1> DEFINE f == RunFrom(b - 1, s)
  <1>2. s.found = -1 =>
          /\ s.c < n /\ (s.first = 0 <=> s.c = 0)
          /\ s.c > 0 => s.first \in Scanned /\ s.first < b - 1
          /\ Counted(f, b - 1) \cap pmap = {}
          /\ Cardinality(Counted(f, b - 1)) = s.c
          /\ \A x \in Scanned : x < f => \E y \in Scanned \cap pmap : x <= y /\ y < f
          /\ \A m \in Scanned : m < b - 1 => \A g \in Scanned : ~FreeRun(Scanned, n, g, m)
          /\ f \in Nat /\ f <= b - 1
    <2>1. s.found = -1 => f \in Nat /\ f <= b - 1
      BY <1>0 DEF RunFrom, ScanInv
    <2> QED
      BY <2>1 DEF ScanInv
  <1>3. CASE s.found = -1 /\ FullWord(b - 1)
    <2>1. ScanStep(n, b, s) = s
      BY <1>3 DEF ScanStep
    <2>2. RunFrom(b, s) = IF s.c = 0 THEN b ELSE f
      BY DEF RunFrom
    <2>3. s.c = 0 => f = b - 1
      BY DEF RunFrom
    <2>4. Counted(RunFrom(b, s), b) = Counted(f, b - 1)
      <3>1. CASE s.c = 0
        BY <1>0, <2>2, <2>3, <3>1 DEF Counted
      <3>2. CASE s.c # 0
        BY <1>0, <1>2, <1>3, <2>2, <3>2, CountedFacts
      <3> QED
        BY <3>1, <3>2
    <2>5. \A x \in Scanned : x < b => x < b - 1
      BY <1>0, <1>3
    <2>6. \A x \in Scanned : x < RunFrom(b, s) =>
             \E y \in Scanned \cap pmap : x <= y /\ y < RunFrom(b, s)
      BY <1>0, <1>2, <1>3, <2>2, <2>3, <2>5
    <2>7. s.c > 0 => s.first < b
      BY <1>0, <1>2, <1>3
    <2> HIDE DEF f
    <2>8. Cardinality(Counted(RunFrom(b, s), b)) = s.c /\ Counted(RunFrom(b, s), b) \cap pmap = {}
      BY <1>2, <1>3, <2>4
    <2> QED
      BY <1>0, <1>2, <1>3, <2>1, <2>5, <2>6, <2>7, <2>8 DEF ScanInv
  <1>4. CASE s.found = -1 /\ ~FullWord(b - 1) /\ b - 1 \in pmap
    <2> DEFINE t == [s EXCEPT !.c = 0, !.first = 0]
    <2>1. /\ ScanStep(n, b, s) = t /\ t \in ScanStates
          /\ t.c = 0 /\ t.first = 0 /\ t.found = -1 /\ RunFrom(b, t) = b
      BY <1>0, <1>4 DEF ScanStep, ScanStates, RunFrom
    <2> HIDE DEF t
    <2>2. Counted(b, b) = {}
      BY <1>0 DEF Counted
    <2>3. \A x \in Scanned : x < b => \E y \in Scanned \cap pmap : x <= y /\ y < b
      <3>1. b - 1 \in Scanned \cap pmap /\ b - 1 < b
        BY <1>0, <1>4
      <3>2. \A x \in Scanned : x < b => x <= b - 1
        BY <1>0
      <3> QED
        BY <3>1, <3>2
    <2>4. ASSUME NEW m \in Scanned, m < b, NEW g \in Scanned, FreeRun(Scanned, n, g, m)
          PROVE  FALSE
      <3>1. m = b - 1
        BY <1>0, <1>2, <1>4, <2>4
      <3>2. b - 1 \notin {x \in Scanned : g <= x /\ x <= m}
        BY <1>4, <2>4, <3>1 DEF FreeRun
      <3>3. g \in {x \in Scanned : g <= x /\ x <= m}
        <4> DEFINE seg == {x \in Scanned : g <= x /\ x <= m}
        <4>1. Cardinality(seg) = n /\ n # 0
          BY <2>4 DEF FreeRun
        <4>2. seg # {}
          BY <4>1, FS_EmptySet
        <4>3. PICK x \in seg : TRUE
          BY <4>2
        <4>4. g <= m
          BY <1>0, <4>3
        <4> QED
          BY <1>0, <4>4
      <3> QED
        BY <1>0, <1>4, <3>1, <3>2, <3>3
    <2>5. Cardinality(Counted(b, b)) = 0
      BY <2>2, FS_EmptySet
    <2> QED
      BY <1>0, <2>1, <2>2, <2>3, <2>4, <2>5 DEF ScanInv
  <1>5. CASE s.found = -1 /\ ~FullWord(b - 1) /\ b - 1 \notin pmap
    <2> DEFINE t == [c |-> s.c + 1, first |-> f, found |-> IF s.c + 1 = n THEN f ELSE -1]
    <2>1. ScanStep(n, b, s) = t
      <3>1. (IF s.first = 0 THEN b - 1 ELSE s.first) = f
        BY <1>2, <1>5 DEF RunFrom
      <3> QED
        BY <1>5, <3>1 DEF ScanStep
    <2>2. f \in Nat /\ f <= b - 1 /\ f \in Scanned /\ f # 0 /\ b - 1 \in Scanned
      <3>1. b - 1 \in Scanned /\ b - 1 # 0
        BY <1>0, <1>5
      <3> QED
        BY <1>0, <1>2, <1>5, <3>1 DEF RunFrom
    <2> HIDE DEF f
    <2>3. /\ Counted(f, b) = Counted(f, b - 1) \cup {b - 1}
          /\ Cardinality(Counted(f, b)) = Cardinality(Counted(f, b - 1)) + 1
      BY <2>2, CountedFacts
    <2>4. Counted(f, b) \cap pmap = {}
      BY <1>2, <1>5, <2>3
    <2>5. Cardinality(Counted(f, b)) = s.c + 1
      BY <1>2, <1>5, <2>3
    <2>6. /\ t \in ScanStates /\ t.c = s.c + 1 /\ t.first = f
          /\ t.found = IF s.c + 1 = n THEN f ELSE -1
      BY <1>0, <2>2 DEF ScanStates
    <2> HIDE DEF t
    <2>7. RunFrom(b, t) = f
      BY <1>0, <2>6 DEF RunFrom
    <2>8. CASE s.c + 1 = n
      <3>1. FreeRun(Scanned, n, f, b - 1)
        <4>1. {x \in Scanned : f <= x /\ x <= b - 1} = Counted(f, b)
          BY <2>2, CountedFacts
        <4> HIDE DEF Counted
        <4> QED
          BY <2>2, <2>4, <2>5, <2>8, <4>1 DEF FreeRun
      <3>2. Consecutives(n, f, b - 1)
        BY <1>2, <1>5, <3>1 DEF Consecutives
      <3>3. t.found = f /\ f # -1
        BY <2>2, <2>6, <2>8
      <3> QED
        BY <2>1, <2>2, <2>6, <3>2, <3>3 DEF ScanInv
    <2>9. CASE s.c + 1 # n
      <3>1. t.c < n /\ t.c > 0 /\ t.found = -1
        BY <1>0, <1>2, <1>5, <2>6, <2>9
      <3>2. ASSUME NEW m \in Scanned, m < b, NEW g \in Scanned, FreeRun(Scanned, n, g, m)
            PROVE  FALSE
        <4>1. m = b - 1
          BY <1>0, <1>2, <1>5, <3>2
        <4>2. {x \in Scanned : g <= x /\ x <= b - 1} = Counted(g, b)
          BY <2>2, CountedFacts
        <4>3. Counted(g, b) \cap pmap = {} /\ Cardinality(Counted(g, b)) = n
          BY <3>2, <4>1, <4>2 DEF FreeRun
        <4>4. CASE g < f
          <5>1. PICK y \in Scanned \cap pmap : g <= y /\ y < f
            BY <1>2, <1>5, <4>4
          <5>2. y \in Counted(g, b)
            BY <1>0, <2>2, <5>1 DEF Counted
          <5> QED
            BY <4>3, <5>1, <5>2
        <4>5. CASE f <= g
          <5>1. Cardinality(Counted(g, b)) <= s.c + 1
            BY <2>2, <2>5, <4>5, CountedFacts
          <5> QED
            BY <1>0, <2>6, <3>1, <4>3, <5>1
        <4> QED
          BY <1>0, <2>2, <4>4, <4>5
      <3>3. \A x \in Scanned : x < f => \E y \in Scanned \cap pmap : x <= y /\ y < f
        BY <1>2, <1>5
      <3>4. f < b /\ (t.first = 0 <=> t.c = 0)
        BY <1>0, <2>2, <2>6, <3>1
      <3> QED
        BY <2>1, <2>2, <2>4, <2>5, <2>6, <2>7, <3>1, <3>2, <3>3, <3>4 DEF ScanInv
    <2> QED
      BY <2>8, <2>9
  <1> QED
    BY <1>1, <1>3, <1>4, <1>5

\* The loop of the code finds what the closed form says.
LEMMA LoopFinds ==
    ASSUME NEW n \in Nat \ {0}, 0 \in pmap
    PROVE  IF Loop(n) = -1
             THEN NoConsecutives(n)
             ELSE \E l \in Scanned : Consecutives(n, Loop(n), l)
  <1>0. Limit \in Nat /\ \A x \in Scanned : x \in Nat /\ x < Limit
    BY Layout DEF Scanned, Scannable
  <1>1. PICK g : /\ g[0] = ScanStart
                 /\ \A b \in 1 .. Limit : g[b] = ScanStep(n, b, g[b - 1])
                 /\ Loop(n) = g[Limit].found
    BY LoopTurns
  <1> DEFINE Good == {b \in 0 .. Limit : ScanInv(n, b, g[b])}
  <1>2. 0 \in Good
    <2>1. Counted(0, 0) = {}
      BY <1>0 DEF Counted
    <2>2. Cardinality(Counted(0, 0)) = 0
      BY <2>1, FS_EmptySet
    <2>3. \A x \in Scanned : ~(x < 0)
      BY <1>0
    <2>4. /\ ScanStart \in ScanStates /\ ScanStart.c = 0 /\ ScanStart.first = 0
          /\ ScanStart.found = -1 /\ RunFrom(0, ScanStart) = 0
      BY DEF ScanStart, ScanStates, RunFrom
    <2>5. ScanInv(n, 0, ScanStart)
      BY <2>1, <2>2, <2>3, <2>4 DEF ScanInv
    <2> QED
      BY <1>0, <1>1, <2>5
  <1>3. ASSUME NEW b \in 1 .. Limit, b - 1 \in Good
        PROVE  b \in Good
    <2>1. ScanInv(n, b, ScanStep(n, b, g[b - 1]))
      BY <1>3, ScanKept
    <2> QED
      BY <1>0, <1>1, <2>1
  <1> HIDE DEF Good
  <1>4. Limit \in Good
    <2>1. 0 .. Limit \subseteq Good
      BY <1>0, <1>2, <1>3, UpTo
    <2> QED
      BY <1>0, <2>1
  <1>5. ScanInv(n, Limit, g[Limit])
    BY <1>4 DEF Good
  <1>6. CASE Loop(n) = -1
    BY <1>0, <1>1, <1>5, <1>6 DEF ScanInv, NoConsecutives
  <1>7. CASE Loop(n) # -1
    BY <1>1, <1>5, <1>7 DEF ScanInv
  <1> QED
    BY <1>6, <1>7

\* Block 0 is reserved, so the 0 that the loop uses for "no run yet" is never the
\* first block of a run.
LEMMA LoopAgrees ==
    ASSUME KernelReserved
    PROVE  ScanIsLoop
  <1>1. 0 \in Rsv
    <2>1. RsvWords \in Nat \ {0} /\ WordBits \in Nat \ {0}
      BY PhysMemAssumption
    <2>2. RsvWords * WordBits > 0
      BY <2>1
    <2>3. RsvWords * WordBits \in Nat
      BY <2>1
    <2> QED
      BY <2>2, <2>3 DEF Rsv
  <1>2. 0 \in pmap
    BY <1>1 DEF KernelReserved
  <1>3. \A n \in Sizes : n \in Nat \ {0}
    BY PhysMemAssumption
  <1> QED
    BY <1>2, <1>3, LoopFinds DEF ScanIsLoop


\* The allocator's bookkeeping, for every memory size and every request.
THEOREM PMInvariance == PMSpec => []PMInv
  BY PMInitInv, PMNextInv, PTL DEF PMSpec

\* The kernel's own memory is never handed out, not even by a run that was
\* taken across a full word.
THEOREM ReservedSafe == PMSpec => []KernelReserved
  <1>1. PMInv => KernelReserved
    BY DEF PMInv
  <1> QED
    BY <1>1, PMInvariance, PTL

\* Skipping full words inside a run is the only way to share a block or to
\* lose count.
THEOREM ExactUnlessStraddled == PMSpec => []Exact
  <1>1. PMInv => Exact
    BY DEF PMInv
  <1> QED
    BY <1>1, PMInvariance, PTL

\* No request is refused while a long enough run of free blocks exists.
THEOREM RefusalsJustified == PMSpec => []FailsOnlyWhenFull
  <1>1. PMInv => FailsOnlyWhenFull
    BY DEF PMInv
  <1> QED
    BY <1>1, PMInvariance, PTL

\* The scan as the model states it is the loop of the code, on every bitmap the
\* allocator can reach, those included where a run was taken across a full word.
THEOREM ScanIsTheLoop == PMSpec => []ScanIsLoop
  <1>1. PMInv => ScanIsLoop
    BY LoopAgrees DEF PMInv
  <1> QED
    BY <1>1, PMInvariance, PTL

----------------------------------------------------------------------------
(* The heap, the tasks and the scheduler over the allocator *)

Positions ==
    {"idle", "scan", "code", "stack", "unmap", "map", "add", "undo", "record"}

UserTasks == LiveTasks \ {Shell, None}

PidsOK ==
    /\ issued \in 0 .. PMax
    /\ ready \subseteq 0 .. issued
    /\ running \in {None} \cup (0 .. issued)

SlotTypeOK ==
    /\ upc \in Positions
    /\ uslot \in Nat \ {0}
    /\ upc \notin {"idle", "scan"} => uslot \in USlots
    /\ uslots \in [USlots -> 0 .. issued]
    /\ home \in [UPids -> 0 .. UMax]

\* The slot that utask_spawn chose belongs to no live task, to the end of the
\* call; the table of pids has room until sched_add has issued the new one.
SlotChosen ==
    /\ upc \notin {"idle", "scan"} => SlotFree(uslot)
    /\ upc \notin {"idle", "record"} => issued < PMax
    /\ upc = "record" =>
         /\ issued >= 1 /\ home[issued] = uslot
         /\ uslots[uslot] < issued

\* g_user_slots names the task of each slot, but for the one that has been added
\* and not yet recorded.
SlotOwned ==
    \A p \in UserTasks :
        /\ home[p] \in USlots
        /\ \/ uslots[home[p]] = p
           \/ upc = "record" /\ p = issued

SlotInv == PidsOK /\ SlotTypeOK /\ SlotChosen /\ SlotOwned

----------------------------------------------------------------------------
(* The frames *)

Pages(a) == a[1] .. a[1] + a[2] - 1

\* The pages vmalloc has mapped so far.
VmPages == vm.v .. vm.v + vm.i - 1

HeapTypeOK ==
    /\ present \subseteq VPages
    /\ vframe \in [VPages -> Blocks]
    /\ hdr \in [Blocks -> Nat]
    /\ allocs \subseteq VPages \X Requests
    /\ \A a \in allocs : a[1] + a[2] - 1 \in VPages
    /\ nullmap \in BOOLEAN

UserTypeOK ==
    /\ ustack \in [USlots -> Blocks]
    /\ ucode \in Blocks
    /\ uphys \in Blocks

\* vmalloc in progress: its pages up to vm.i are mapped, the others still free.
VmOK ==
    \/ vm = NoVm
    \/ /\ vm \in [v : VPages, i : Nat, n : Requests]
       /\ vm.i < vm.n /\ vm.v + vm.n - 1 \in VPages
       /\ (vm.v + vm.i .. vm.v + vm.n - 1) \cap present = {}
       /\ \A a \in allocs : Pages(a) \cap (vm.v .. vm.v + vm.n - 1) = {}

\* A present page belongs to an allocation or to the vmalloc in progress.
PagesOwned ==
    /\ \A a \in allocs : Pages(a) \subseteq present
    /\ VmPages \subseteq present
    /\ \A p \in present : p \in VmPages \/ \E a \in allocs : p \in Pages(a)
    /\ \A a, b \in allocs : a # b => Pages(a) \cap Pages(b) = {}

HeadersOK == \A a \in allocs : hdr[vframe[a[1]]] = a[2]

\* A frame in use is held, and has one use only.
HeapFrames ==
    \A p \in present :
        /\ held[vframe[p]] = 1
        /\ \A q \in present : vframe[p] = vframe[q] => p = q
StackFrames ==
    \A i \in USlots : ustack[i] # 0 =>
        /\ held[ustack[i]] = 1
        /\ \A j \in USlots : ustack[i] = ustack[j] => i = j
        /\ \A p \in present : vframe[p] # ustack[i]
CodeFrame ==
    ucode # 0 =>
        /\ held[ucode] = 1
        /\ \A p \in present : vframe[p] # ucode
        /\ \A i \in USlots : ustack[i] # ucode
PhysFrame ==
    uphys # 0 =>
        /\ held[uphys] = 1
        /\ uphys # ucode
        /\ \A p \in present : vframe[p] # uphys
        /\ \A i \in USlots : ustack[i] # uphys

\* A held block is in use.
NoLeak ==
    \A b \in Blocks : held[b] = 1 =>
        \/ \E p \in present : vframe[p] = b
        \/ \E i \in USlots : ustack[i] = b
        \/ b = ucode
        \/ b = uphys

\* Where utask_spawn is tells whether the slot's stack page is present.
SpawnPages ==
    /\ uphys # 0 <=> upc \in {"unmap", "map"}
    /\ upc = "code" => ucode = 0
    /\ upc = "map" => ustack[uslot] = 0
    /\ upc = "add" => ustack[uslot] # 0
    /\ \A i \in USlots : uslots[i] = 0 =>
         ustack[i] = 0 \/ (i = uslot /\ upc \in {"add", "undo", "record"})
    /\ \A p \in UserTasks : ustack[home[p]] # 0

FramesInv == HeapFrames /\ StackFrames /\ CodeFrame /\ PhysFrame /\ NoLeak

MemInv ==
    /\ PMInv /\ HeapTypeOK /\ UserTypeOK
    /\ VmOK /\ PagesOwned /\ HeadersOK
    /\ FramesInv /\ SpawnPages

MSInv == SlotInv /\ (Sane => MemInv)

----------------------------------------------------------------------------
(* Slots *)

LEMMA SlotInit == MSInit => SlotInv
  BY UserTaskAssumption
  DEF MSInit, UserInit, TSInit, SlotInv, PidsOK, SlotTypeOK, SlotChosen,
      SlotOwned, SlotFree, UserTasks, LiveTasks, Positions, USlots, UPids,
      Shell, None

\* The live tasks only shrink when the scheduler takes a step: a chosen slot
\* stays free.
LEMMA SlotTaskStep == SlotInv /\ TaskStep => SlotInv'
  <1> SUFFICES ASSUME SlotInv, TaskStep PROVE SlotInv'
    OBVIOUS
  <1>1. UNCHANGED <<uslots, upc, uslot, home, issued>>
    BY DEF TaskStep, uvars, Dispatch, End, Stop
  <1>2. LiveTasks' \subseteq LiveTasks \cup {None}
    BY DEF TaskStep, Dispatch, End, Stop, LiveTasks
  <1>3. PidsOK'
    BY DEF SlotInv, PidsOK, TaskStep, Dispatch, End, Stop
  <1>4. SlotTypeOK'
    BY <1>1 DEF SlotInv, SlotTypeOK, USlots, UPids
  <1>5. SlotChosen'
    <2>1. ASSUME SlotFree(uslot), uslot \in USlots PROVE SlotFree(uslot)'
      <3>1. uslots[uslot] # None
        BY <2>1 DEF SlotInv, SlotTypeOK, PidsOK, None
      <3> QED
        BY <1>1, <1>2, <2>1, <3>1 DEF SlotFree
    <2> QED
      BY <1>1, <2>1 DEF SlotInv, SlotTypeOK, SlotChosen
  <1>6. SlotOwned'
    BY <1>1, <1>2 DEF SlotInv, SlotOwned, UserTasks, USlots
  <1> QED
    BY <1>3, <1>4, <1>5, <1>6 DEF SlotInv

\* Steps of utask_spawn that touch neither the tasks nor g_user_slots.
LEMMA SlotGoto ==
    ASSUME SlotInv, UNCHANGED <<tvars, uslots, home>>,
           upc' \in Positions \ {"record"}, upc # "record",
           uslot' \in Nat \ {0},
           upc' \notin {"idle", "scan"} =>
              uslot' \in USlots /\ SlotFree(uslot'),
           upc' # "idle" => issued < PMax
    PROVE  SlotInv'
  <1> USE DEF SlotInv, tvars
  <1>1. PidsOK'
    BY DEF PidsOK
  <1>2. SlotTypeOK'
    BY DEF SlotTypeOK, USlots, UPids
  <1>3. SlotChosen'
    BY DEF SlotChosen, SlotFree, LiveTasks
  <1>4. SlotOwned'
    BY DEF SlotOwned, UserTasks, LiveTasks, USlots
  <1> QED
    BY <1>1, <1>2, <1>3, <1>4

LEMMA SlotUserNext == SlotInv /\ UserNext => SlotInv'
  <1> SUFFICES ASSUME SlotInv, UserNext PROVE SlotInv'
    OBVIOUS
  <1> USE DEF At, UGoto, uvars
  <1>a. PidsOK /\ SlotTypeOK /\ SlotChosen /\ SlotOwned
    BY DEF SlotInv
  <1>1. CASE SpawnCall
    BY <1>1, <1>a, SlotGoto DEF SpawnCall, Positions
  <1>2. CASE SpawnScan
    BY <1>2, <1>a, SlotGoto, UserTaskAssumption
    DEF SpawnScan, Positions, SlotTypeOK, SlotChosen, USlots
  <1>3. CASE SpawnCode \/ SpawnStack \/ SpawnUnmap \/ SpawnMap \/ SpawnUndo
    <2>1. /\ UNCHANGED <<tvars, uslots, home, uslot>>
          /\ upc \notin {"idle", "scan", "record"}
          /\ upc' \in Positions \ {"record"}
      BY <1>3 DEF SpawnCode, SpawnStack, SpawnUnmap, SpawnMap, SpawnUndo, Positions
    <2> QED
      BY <1>a, <2>1, SlotGoto DEF SlotTypeOK, SlotChosen
  <1>4. CASE SpawnAdd
    <2>1. CASE Spawn /\ home' = [home EXCEPT ![issued'] = uslot] /\ upc' = "record"
      <3>1. /\ uslot \in USlots /\ SlotFree(uslot) /\ issued < PMax
            /\ UNCHANGED <<uslots, uslot>> /\ upc = "add"
        BY <1>4, <1>a DEF SpawnAdd, SlotTypeOK, SlotChosen
      <3>2. /\ issued \in Nat /\ issued' = issued + 1 /\ issued' \in UPids
            /\ issued' # Shell
        BY <1>a, <2>1, <3>1, UserTaskAssumption DEF Spawn, PidsOK, UPids, Shell
      <3>3. LiveTasks' = LiveTasks \cup {issued'} /\ running' = running
        BY <2>1 DEF Spawn, LiveTasks
      <3>4. LiveTasks \subseteq {None} \cup (0 .. issued)
        BY <1>a DEF PidsOK, LiveTasks
      <3>5. PidsOK'
        BY <1>a, <2>1, <3>1, <3>2, UserTaskAssumption DEF PidsOK, Spawn
      <3>6. SlotTypeOK'
        BY <1>a, <2>1, <3>1, <3>2 DEF SlotTypeOK, Positions, USlots, UPids
      <3>7. SlotChosen'
        <4>1. uslots[uslot] \in 0 .. issued
          BY <1>a, <3>1 DEF SlotTypeOK
        <4>2. SlotFree(uslot)'
          BY <3>1, <3>2, <3>3, <4>1 DEF SlotFree
        <4>3. home'[issued'] = uslot
          BY <1>a, <2>1, <3>2 DEF SlotTypeOK
        <4> QED
          BY <2>1, <3>1, <3>2, <4>1, <4>2, <4>3 DEF SlotChosen
      <3>8. SlotOwned'
        <4> SUFFICES ASSUME NEW p \in UserTasks'
                     PROVE  /\ home'[p] \in USlots
                            /\ uslots'[home'[p]] = p \/ p = issued'
          BY <2>1 DEF SlotOwned, USlots
        <4>1. CASE p = issued'
          BY <4>1, <1>a, <2>1, <3>1, <3>2 DEF SlotTypeOK
        <4>2. CASE p # issued'
          <5>1. p \in UserTasks
            BY <4>2, <3>3 DEF UserTasks
          <5>2. p \in UPids /\ home'[p] = home[p]
            BY <4>2, <5>1, <3>2, <3>4, <1>a, <2>1, UserTaskAssumption
            DEF UserTasks, UPids, SlotTypeOK, PidsOK, Shell, None
          <5> QED
            BY <5>1, <5>2, <3>1, <1>a DEF SlotOwned
        <4> QED
          BY <4>1, <4>2
      <3> QED
        BY <3>5, <3>6, <3>7, <3>8 DEF SlotInv
    <2>2. CASE upc' = "undo" /\ UNCHANGED <<tvars, home>>
      <3>1. UNCHANGED <<uslots, uslot>> /\ upc = "add"
        BY <1>4 DEF SpawnAdd
      <3> QED
        BY <1>a, <2>2, <3>1, SlotGoto DEF SlotTypeOK, SlotChosen, Positions
    <2> QED
      BY <1>4, <2>1, <2>2 DEF SpawnAdd
  <1>5. CASE SpawnRecord
    <2>1. /\ uslot \in USlots /\ SlotFree(uslot) /\ issued >= 1
          /\ home[issued] = uslot
          /\ uslots' = [uslots EXCEPT ![uslot] = issued] /\ upc' = "idle"
          /\ UNCHANGED <<tvars, uslot, home>>
      BY <1>5, <1>a DEF SpawnRecord, SlotTypeOK, SlotChosen
    <2>2. PidsOK' /\ SlotTypeOK' /\ SlotChosen'
      BY <1>a, <2>1 DEF PidsOK, SlotTypeOK, SlotChosen, tvars, Positions, USlots, UPids
    <2>3. SlotOwned'
      <3> SUFFICES ASSUME NEW p \in UserTasks
                   PROVE  home[p] \in USlots /\ uslots'[home[p]] = p
        BY <2>1 DEF SlotOwned, tvars, UserTasks, LiveTasks, USlots
      <3>1. home[p] \in USlots /\ (uslots[home[p]] = p \/ p = issued)
        BY <1>a DEF SlotOwned
      <3>2. p # issued => home[p] # uslot
        BY <2>1, <3>1 DEF SlotFree, UserTasks, Shell
      <3> QED
        BY <1>a, <2>1, <3>1, <3>2 DEF SlotTypeOK
    <2> QED
      BY <2>2, <2>3 DEF SlotInv
  <1> QED
    BY <1>1, <1>2, <1>3, <1>4, <1>5 DEF UserNext

LEMMA SlotNext == SlotInv /\ [MSNext]_mvars => SlotInv'
  <1> SUFFICES ASSUME SlotInv, [MSNext]_mvars PROVE SlotInv'
    OBVIOUS
  <1>1. CASE UNCHANGED <<uvars, tvars>>
    BY <1>1 DEF SlotInv, PidsOK, SlotTypeOK, SlotChosen, SlotOwned, SlotFree,
       UserTasks, LiveTasks, USlots, UPids, uvars, tvars
  <1> QED
    BY <1>1, SlotTaskStep, SlotUserNext DEF MSNext, mvars

----------------------------------------------------------------------------
(* What the allocator gives and takes *)

LEMMA ZeroReserved == 0 \in Rsv /\ 0 \in Blocks
  <1>1. WordBits \in Nat /\ WordBits > 0 /\ RsvWords \in Nat /\ RsvWords > 0
    BY PhysMemAssumption
  <1>2. RsvWords * WordBits > 0
    BY <1>1
  <1> QED
    BY <1>2, Layout DEF Rsv, Scannable, Blocks

\* A held block is never block 0, which is how the code can use 0 for "none".
LEMMA HeldFacts ==
    ASSUME PMInv, ~straddled
    PROVE  /\ held \in [Blocks -> Nat]
           /\ held[0] = 0
           /\ \A b \in Rsv : held[b] = 0
           /\ \A b \in Blocks : b \notin pmap => held[b] = 0
  <1>1. held \in [Blocks -> Nat]
    BY DEF PMInv, PMTypeOK
  <1>2. \A b \in Blocks : b \notin pmap => held[b] = 0
    BY <1>1 DEF PMInv, Exact
  <1> QED
    BY <1>1, <1>2, ZeroReserved DEF PMInv, KernelReserved

\* The run of n blocks from f that a request gets: none of them had a holder.
NewRun(f, n) ==
    /\ f .. f + n - 1 \subseteq Blocks \ {0}
    /\ \A b \in f .. f + n - 1 : held[b] = 0
    /\ held' = [b \in Blocks |-> IF b \in f .. f + n - 1 THEN 1 ELSE held[b]]

LEMMA GrantedRun ==
    ASSUME PMInv, ~straddled, NEW f \in Nat, NEW n \in Nat \ {0},
           f .. f + n - 1 \subseteq Blocks,
           (f .. f + n - 1) \cap pmap = {},
           held' = [b \in Blocks |-> IF b \in f .. f + n - 1
                                       THEN held[b] + 1 ELSE held[b]]
    PROVE  NewRun(f, n)
  <1>1. \A b \in f .. f + n - 1 : held[b] = 0
    BY HeldFacts
  <1>2. 0 \notin f .. f + n - 1
    BY ZeroReserved DEF PMInv, KernelReserved
  <1> QED
    BY <1>1, <1>2 DEF NewRun

LEMMA AllocRun ==
    ASSUME PMInv, ~straddled, NEW f \in Scannable, Alloc(f)
    PROVE  /\ PMInv' /\ straddled' = straddled
           /\ f \in Blocks \ {0} /\ held[f] = 0
           /\ held' = [b \in Blocks |-> IF b = f THEN 1 ELSE held[b]]
  <1>1. f \in Blocks /\ f \notin pmap /\ straddled' = straddled
    BY Layout DEF Alloc, FirstFree
  <1>2. f # 0 /\ held[f] = 0
    BY <1>1, HeldFacts, ZeroReserved DEF PMInv, KernelReserved
  <1>3. held' = [b \in Blocks |-> IF b \in {f} THEN held[b] + 1 ELSE held[b]]
    BY DEF Alloc, Grant
  <1> QED
    BY <1>1, <1>2, <1>3, AllocInv

LEMMA AllocBlocksRun ==
    ASSUME PMInv, NEW n \in Sizes, NEW f \in Scannable, AllocBlocks(n, f),
           ~straddled'
    PROVE  PMInv' /\ ~straddled /\ NewRun(f, n)
  <1>0. n \in Nat \ {0} /\ pmap \subseteq Blocks /\ f \in Nat
    BY PhysMemAssumption, Layout DEF PMInv, PMTypeOK, Scannable
  <1>1. PICK l \in Scanned :
           /\ Consecutives(n, f, l)
           /\ straddled' = (straddled \/ \E b \in f .. l : b \notin Scanned)
    BY DEF AllocBlocks
  <1>2. /\ f .. f + n - 1 \subseteq Scannable
        /\ (\A b \in f .. l : b \in Scanned) => (f .. f + n - 1) \cap pmap = {}
    BY <1>0, <1>1, ScanResult
  <1>3. ~straddled /\ (f .. f + n - 1) \cap pmap = {}
    BY <1>1, <1>2
  <1>4. f .. f + n - 1 \subseteq Blocks
    BY <1>2, Layout
  <1>5. held' = [b \in Blocks |-> IF b \in f .. f + n - 1
                                    THEN held[b] + 1 ELSE held[b]]
    BY DEF AllocBlocks, Grant
  <1> QED
    BY <1>0, <1>3, <1>4, <1>5, GrantedRun, AllocBlocksInv

\* Held blocks given back: they are the only ones whose holder changes.
LEMMA ReleaseRun ==
    ASSUME PMInv, ~straddled, NEW S \in SUBSET Blocks, Release(S),
           \A b \in S : held[b] = 1
    PROVE  /\ PMInv' /\ straddled' = straddled
           /\ held' = [b \in Blocks |-> IF b \in S THEN 0 ELSE held[b]]
  <1>1. S \cap Rsv = {}
    BY HeldFacts
  <1>2. PMInv'
    BY <1>1, ReleaseInv
  <1>3. held' = [b \in Blocks |->
                  IF b \in S /\ held[b] > 0 THEN held[b] - 1 ELSE held[b]]
    BY DEF Release
  <1> QED
    BY <1>2, <1>3 DEF Release

LEMMA UnchangedPM == PMInv /\ UNCHANGED pvars => PMInv'
  BY DEF PMInv, PMTypeOK, KernelReserved, Exact, FailsOnlyWhenFull, pvars

----------------------------------------------------------------------------
(* Frames *)

\* The pages of N, not present before, are mapped on the blocks of S, one each;
\* nobody held those blocks.
MappedOn(N, S) ==
    /\ N \cap present = {} /\ present' = present \cup N
    /\ S \subseteq Blocks \ {0} /\ \A b \in S : held[b] = 0
    /\ held' = [b \in Blocks |-> IF b \in S THEN 1 ELSE held[b]]
    /\ \A p \in present : vframe'[p] = vframe[p]
    /\ \A p \in N : vframe'[p] \in S
    /\ \A p, q \in N : vframe'[p] = vframe'[q] => p = q
    /\ \A b \in S : \E p \in N : vframe'[p] = b

LEMMA FramesMap ==
    ASSUME HeapTypeOK, UserTypeOK, FramesInv, NEW N, NEW S, MappedOn(N, S),
           UNCHANGED <<ustack, ucode, uphys>>
    PROVE  FramesInv'
  <1> USE DEF MappedOn
  <1> USE DEF FramesInv
  <1>1. /\ \A p \in present : vframe[p] \in Blocks /\ held[vframe[p]] = 1
        /\ \A i \in USlots : ustack[i] \in Blocks
        /\ ucode \in Blocks /\ uphys \in Blocks
    BY DEF HeapFrames, HeapTypeOK, UserTypeOK
  <1>2. HeapFrames'
    BY <1>1 DEF HeapFrames
  <1>3. StackFrames'
    BY <1>1 DEF StackFrames, USlots
  <1>4. CodeFrame'
    BY <1>1 DEF CodeFrame, USlots
  <1>5. PhysFrame'
    BY <1>1 DEF PhysFrame, USlots
  <1>6. NoLeak'
    <2> SUFFICES ASSUME NEW b \in Blocks, held'[b] = 1
                 PROVE  \/ \E p \in present' : vframe'[p] = b
                        \/ \E i \in USlots : ustack[i] = b
                        \/ b = ucode
                        \/ b = uphys
      BY DEF NoLeak, USlots
    <2>1. CASE b \in S
      BY <2>1
    <2>2. CASE b \notin S
      BY <2>2 DEF NoLeak
    <2> QED
      BY <2>1, <2>2
  <1> QED
    BY <1>2, <1>3, <1>4, <1>5, <1>6

\* The pages of N are unmapped and their frames given back.
LEMMA FramesUnmap ==
    ASSUME PMInv, ~straddled, HeapTypeOK, UserTypeOK, FramesInv,
           NEW N \in SUBSET present,
           held' = [b \in Blocks |->
                      IF b \in {vframe[p] : p \in N} THEN 0 ELSE held[b]],
           present' = present \ N,
           \A p \in present \ N : vframe'[p] = vframe[p],
           UNCHANGED <<ustack, ucode, uphys>>
    PROVE  FramesInv'
  <1> USE DEF FramesInv
  <1>1. /\ \A p \in present : vframe[p] \in Blocks /\ held[vframe[p]] = 1
        /\ \A i \in USlots : ustack[i] \in Blocks
        /\ ucode \in Blocks /\ uphys \in Blocks
    BY DEF HeapFrames, HeapTypeOK, UserTypeOK
  <1>2. HeapFrames'
    <2> SUFFICES ASSUME NEW p \in present \ N
                 PROVE  /\ held'[vframe[p]] = 1
                        /\ \A q \in present \ N : vframe[p] = vframe[q] => p = q
      BY DEF HeapFrames
    <2>1. vframe[p] \notin {vframe[q] : q \in N}
      BY DEF HeapFrames
    <2> QED
      BY <1>1, <2>1 DEF HeapFrames
  <1>3. StackFrames'
    BY <1>1 DEF StackFrames, USlots
  <1>4. CodeFrame'
    BY <1>1 DEF CodeFrame, USlots
  <1>5. PhysFrame'
    BY <1>1 DEF PhysFrame, USlots
  <1>6. NoLeak'
    <2> SUFFICES ASSUME NEW b \in Blocks, held'[b] = 1
                 PROVE  \/ \E p \in present' : vframe'[p] = b
                        \/ \E i \in USlots : ustack[i] = b
                        \/ b = ucode
                        \/ b = uphys
      BY DEF NoLeak, USlots
    <2>1. held[b] = 1 /\ b \notin {vframe[p] : p \in N}
      OBVIOUS
    <2>2. CASE \E p \in present : vframe[p] = b
      BY <2>1, <2>2
    <2> QED
      BY <2>1, <2>2 DEF NoLeak
  <1> QED
    BY <1>2, <1>3, <1>4, <1>5, <1>6

----------------------------------------------------------------------------
(* The kernel heap *)

LEMMA RequestSize ==
    ASSUME NEW n \in Requests
    PROVE  n \in Sizes /\ n \in Nat \ {0}
  BY HeapAssumption, PhysMemAssumption

LEMMA AllocPages ==
    ASSUME HeapTypeOK, NEW a \in allocs
    PROVE  /\ a = <<a[1], a[2]>> /\ a[1] \in VPages /\ a[2] \in Requests
           /\ a[1] \in Nat /\ a[2] \in Nat \ {0}
           /\ Pages(a) \subseteq VPages /\ a[1] \in Pages(a)
  <1>1. a \in VPages \X Requests /\ a[1] + a[2] - 1 \in VPages
    BY DEF HeapTypeOK
  <1>2. /\ a = <<a[1], a[2]>> /\ a[1] \in VPages /\ a[2] \in Requests
        /\ a[2] \in Nat \ {0}
    BY <1>1, RequestSize
  <1> QED
    BY <1>1, <1>2, HeapAssumption DEF VPages, Pages

\* What a heap step does not touch.
LEMMA HeapStepUser ==
    ASSUME MemInv, UNCHANGED <<uvars, tvars>>
    PROVE  UserTypeOK' /\ SpawnPages'
  BY DEF MemInv, UserTypeOK, SpawnPages, UserTasks, LiveTasks, USlots, uvars, tvars

LEMMA KmallocInv ==
    ASSUME MemInv, Sane, Sane', NEW n \in Requests, Kmalloc(n),
           UNCHANGED <<uvars, tvars>>
    PROVE  MemInv'
  <1>0. /\ PMInv /\ HeapTypeOK /\ UserTypeOK /\ VmOK /\ PagesOwned
        /\ HeadersOK /\ FramesInv /\ SpawnPages
        /\ ~straddled /\ ~nullmap /\ ~straddled' /\ ~nullmap'
    BY DEF MemInv, Sane
  <1>a. n \in Sizes /\ n \in Nat \ {0}
    BY RequestSize
  <1>1. PICK v \in VPages, f \in Scannable :
           /\ FindFree(n, v) /\ AllocBlocks(n, f) /\ MapRun(v, n, f)
           /\ hdr' = [hdr EXCEPT ![f] = n] /\ UNCHANGED nullmap
           /\ allocs' = allocs \cup {<<v, n>>}
    BY <1>0 DEF Kmalloc
  <1>2. vm = NoVm /\ vm' = NoVm
    BY DEF Kmalloc, HeapIdle
  <1>3. PMInv' /\ NewRun(f, n)
    BY <1>0, <1>1, <1>a, AllocBlocksRun
  <1> DEFINE N == v .. v + n - 1
             S == f .. f + n - 1
  <1>4. /\ v \in Nat /\ f \in Nat /\ v + n - 1 \in VPages
        /\ N \subseteq VPages /\ N \cap present = {} /\ v \in N
    BY <1>1, <1>a, HeapAssumption, Layout DEF FindFree, Fits, VPages, Scannable
  <1>5. /\ present' = present \cup N
        /\ vframe' = [p \in VPages |-> IF p \in N THEN f + (p - v) ELSE vframe[p]]
    BY <1>1 DEF MapRun
  <1>6. /\ S \subseteq Blocks \ {0} /\ \A b \in S : held[b] = 0
        /\ held' = [b \in Blocks |-> IF b \in S THEN 1 ELSE held[b]]
    BY <1>3 DEF NewRun
  <1>7. /\ \A p \in N : p \in Int /\ vframe'[p] = f + (p - v) /\ vframe'[p] \in S
        /\ \A p \in VPages \ N : vframe'[p] = vframe[p]
    BY <1>4, <1>5, <1>a
  <1>8. \A b \in S : \E p \in N : vframe'[p] = b
    <2> SUFFICES ASSUME NEW b \in S PROVE \E p \in N : vframe'[p] = b
      OBVIOUS
    <2>1. v + (b - f) \in N
      BY <1>4, <1>a
    <2>2. vframe'[v + (b - f)] = b
      BY <1>4, <1>7, <2>1
    <2> QED
      BY <2>1, <2>2
  <1>9. \A p, q \in N : vframe'[p] = vframe'[q] => p = q
    BY <1>4, <1>7
  <1>10. present \subseteq VPages
    BY <1>0 DEF HeapTypeOK
  <1>11. \A p \in present : vframe'[p] = vframe[p]
    BY <1>4, <1>7, <1>10
  <1>12. FramesInv'
    <2>1. \A p \in N : vframe'[p] \in S
      BY <1>7
    <2>2. UNCHANGED <<ustack, ucode, uphys>>
      BY DEF uvars
    <2> HIDE DEF N, S
    <2>3. MappedOn(N, S)
      BY <1>4, <1>5, <1>6, <1>8, <1>9, <1>11, <2>1 DEF MappedOn
    <2> QED
      BY <1>0, <2>2, <2>3, FramesMap
  <1>13. Pages(<<v, n>>) = N
    BY DEF Pages
  <1>14. HeapTypeOK'
    <2>1. vframe' \in [VPages -> Blocks]
      BY <1>0, <1>5, <1>6, <1>7 DEF HeapTypeOK
    <2>2. hdr' \in [Blocks -> Nat]
      BY <1>0, <1>1, <1>a DEF HeapTypeOK
    <2>3. allocs' \subseteq VPages \X Requests
      BY <1>0, <1>1 DEF HeapTypeOK
    <2>4. \A a \in allocs' : a[1] + a[2] - 1 \in VPages
      BY <1>0, <1>1, <1>4 DEF HeapTypeOK
    <2> QED
      BY <1>0, <1>1, <1>4, <1>5, <2>1, <2>2, <2>3, <2>4 DEF HeapTypeOK, VPages, Blocks
  <1>15. VmOK'
    BY <1>2 DEF VmOK, NoVm
  <1>16. PagesOwned'
    <2>1. VmPages = {} /\ VmPages' = {}
      BY <1>2 DEF VmPages, NoVm
    <2>2. \A a \in allocs : Pages(a) \subseteq present
      BY <1>0 DEF PagesOwned
    <2>3. \A a \in allocs' : a \in allocs \/ Pages(a) = N
      BY <1>1, <1>13
    <2>4. \A a, b \in allocs' : a # b => Pages(a) \cap Pages(b) = {}
      <3> HIDE DEF N
      <3> QED
        BY <1>0, <1>1, <1>4, <1>13, <2>2 DEF PagesOwned
    <2>5. \A p \in present' : \E a \in allocs' : p \in Pages(a)
      <3> HIDE DEF N
      <3> QED
        BY <1>0, <1>1, <1>5, <1>13, <2>1 DEF PagesOwned
    <2>6. \A a \in allocs' : Pages(a) \subseteq present'
      <3> HIDE DEF N
      <3> QED
        BY <1>5, <2>2, <2>3
    <2>7. \A a : Pages(a)' = Pages(a)
      BY DEF Pages
    <2> QED
      BY <2>1, <2>4, <2>5, <2>6, <2>7 DEF PagesOwned
  <1>17. HeadersOK'
    <2> SUFFICES ASSUME NEW a \in allocs' PROVE hdr'[vframe'[a[1]]] = a[2]
      BY DEF HeadersOK
    <2>1. CASE a = <<v, n>>
      <3>1. vframe'[v] = f /\ f \in Blocks
        BY <1>4, <1>6, <1>7, <1>a
      <3> QED
        BY <1>0, <1>1, <2>1, <3>1 DEF HeapTypeOK
    <2>2. CASE a \in allocs
      <3>1. a[1] \in present /\ a[1] \in VPages
        BY <1>0, <2>2, AllocPages DEF PagesOwned
      <3>2. vframe'[a[1]] = vframe[a[1]] /\ held[vframe[a[1]]] = 1
        BY <1>0, <1>11, <3>1 DEF FramesInv, HeapFrames
      <3>3. f \in S
        BY <1>4, <1>a
      <3>4. vframe[a[1]] # f
        BY <1>6, <3>2, <3>3
      <3>5. vframe[a[1]] \in Blocks
        BY <1>0, <3>1 DEF HeapTypeOK
      <3> QED
        BY <1>0, <1>1, <2>2, <3>2, <3>4, <3>5 DEF HeadersOK, HeapTypeOK
    <2> QED
      BY <1>1, <2>1, <2>2
  <1> QED
    BY <1>3, <1>12, <1>14, <1>15, <1>16, <1>17, HeapStepUser DEF MemInv

LEMMA VmallocCallInv ==
    ASSUME MemInv, NEW n \in Requests, VmallocCall(n), UNCHANGED <<uvars, tvars>>
    PROVE  MemInv'
  <1>0. /\ PMInv /\ HeapTypeOK /\ VmOK /\ PagesOwned /\ HeadersOK /\ FramesInv
        /\ UNCHANGED <<pvars, present, vframe, hdr, allocs, nullmap>>
    BY DEF MemInv, VmallocCall
  <1>a. n \in Nat \ {0}
    BY RequestSize
  <1>1. PICK v \in VPages : FindFree(n, v) /\ vm' = [v |-> v, i |-> 0, n |-> n]
    BY DEF VmallocCall
  <1>2. vm = NoVm
    BY DEF VmallocCall, HeapIdle
  <1>3. /\ v \in Nat /\ v + n - 1 \in VPages
        /\ (v .. v + n - 1) \cap present = {}
    BY <1>1, HeapAssumption DEF FindFree, Fits, VPages
  <1>4. VmPages = {} /\ VmPages' = {}
    BY <1>1, <1>2, <1>3 DEF VmPages, NoVm
  <1>5. HeapTypeOK' /\ HeadersOK' /\ FramesInv'
    BY <1>0 DEF HeapTypeOK, HeadersOK, FramesInv, HeapFrames, StackFrames, CodeFrame,
       PhysFrame, NoLeak, VPages, USlots, Blocks, uvars, pvars
  <1>6. \A a : Pages(a)' = Pages(a)
    BY DEF Pages
  <1>7. PagesOwned'
    BY <1>0, <1>4, <1>6 DEF PagesOwned
  <1>8. VmOK'
    <2>1. \A a \in allocs : Pages(a) \cap (v .. v + n - 1) = {}
      BY <1>0, <1>3 DEF PagesOwned
    <2>2. (v + 0 .. v + n - 1) \cap present' = {}
      BY <1>0, <1>3
    <2> QED
      BY <1>0, <1>1, <1>3, <1>6, <1>a, <2>1, <2>2 DEF VmOK, VPages
  <1> QED
    BY <1>0, <1>5, <1>7, <1>8, UnchangedPM, HeapStepUser DEF MemInv

LEMMA VmallocPageInv ==
    ASSUME MemInv, Sane, Sane', VmallocPage, UNCHANGED <<uvars, tvars>>
    PROVE  MemInv'
  <1>0. /\ PMInv /\ HeapTypeOK /\ UserTypeOK /\ VmOK /\ PagesOwned
        /\ HeadersOK /\ FramesInv /\ SpawnPages
        /\ ~straddled /\ ~nullmap /\ ~nullmap'
    BY DEF MemInv, Sane
  <1>1. PICK f \in Scannable : Alloc(f) /\ VmallocMap(f) /\ UNCHANGED nullmap
    BY <1>0 DEF VmallocPage
  <1>2. /\ PMInv' /\ f \in Blocks \ {0} /\ held[f] = 0
        /\ held' = [b \in Blocks |-> IF b = f THEN 1 ELSE held[b]]
    BY <1>0, <1>1, AllocRun
  <1> DEFINE q == vm.v + vm.i
             R == vm.v .. vm.v + vm.n - 1
  <1>3. /\ vm \in [v : VPages, i : Nat, n : Requests]
        /\ vm.v \in VPages /\ vm.i \in Nat /\ vm.n \in Requests
        /\ vm.i < vm.n /\ vm.v + vm.n - 1 \in VPages
        /\ (q .. vm.v + vm.n - 1) \cap present = {}
        /\ \A a \in allocs : Pages(a) \cap R = {}
    BY <1>0 DEF VmOK, VmallocPage, HeapIdle
  <1>4. /\ vm.v \in Nat /\ vm.n \in Nat \ {0} /\ q \in VPages /\ q \notin present
        /\ q \in R /\ q \in Nat
    BY <1>3, RequestSize, HeapAssumption DEF VPages
  <1>5. /\ present' = present \cup {q}
        /\ vframe' = [vframe EXCEPT ![q] = f]
    BY <1>1 DEF VmallocMap
  <1>6. /\ present \subseteq VPages /\ vframe \in [VPages -> Blocks]
        /\ vframe' \in [VPages -> Blocks] /\ vframe'[q] = f
        /\ \A p \in VPages : p # q => vframe'[p] = vframe[p]
    BY <1>0, <1>2, <1>4, <1>5 DEF HeapTypeOK
  <1>7. FramesInv'
    <2>1. UNCHANGED <<ustack, ucode, uphys>>
      BY DEF uvars
    <2>2. \A p \in present : vframe'[p] = vframe[p]
      BY <1>4, <1>6
    <2>3. MappedOn({q}, {f})
      BY <1>2, <1>4, <1>5, <1>6, <2>2 DEF MappedOn
    <2> QED
      BY <1>0, <2>1, <2>3, FramesMap
  <1>8. \A a \in allocs : a[1] \in present /\ vframe'[a[1]] = vframe[a[1]]
    BY <1>0, <1>4, <1>6, AllocPages DEF PagesOwned
  <1>9. \A a : Pages(a)' = Pages(a)
    BY DEF Pages
  <1>10. CASE vm.i + 1 < vm.n
    <2>1. vm' = [vm EXCEPT !.i = @ + 1] /\ UNCHANGED <<hdr, allocs>>
      BY <1>1, <1>10 DEF VmallocMap
    <2>2. vm' = [v |-> vm.v, i |-> vm.i + 1, n |-> vm.n]
      BY <1>3, <2>1
    <2>3. VmPages' = VmPages \cup {q}
      BY <1>3, <1>4, <2>2 DEF VmPages
    <2>4. HeapTypeOK'
      BY <1>0, <1>1, <1>4, <1>5, <1>6, <2>1 DEF HeapTypeOK, VPages, Blocks
    <2>5. VmOK'
      <3>1. (vm.v + (vm.i + 1) .. vm.v + vm.n - 1) \cap present' = {}
        BY <1>3, <1>4, <1>5
      <3> QED
        BY <1>3, <1>4, <1>9, <1>10, <2>1, <2>2, <3>1 DEF VmOK, VPages
    <2>6. PagesOwned'
      <3> HIDE DEF q
      <3> QED
        BY <1>0, <1>5, <1>9, <2>1, <2>3 DEF PagesOwned
    <2>7. HeadersOK'
      BY <1>0, <1>8, <2>1 DEF HeadersOK
    <2> QED
      BY <1>2, <1>7, <2>4, <2>5, <2>6, <2>7, HeapStepUser DEF MemInv
  <1>11. CASE ~(vm.i + 1 < vm.n)
    <2>1. /\ hdr' = [hdr EXCEPT ![vframe'[vm.v]] = vm.n]
          /\ allocs' = allocs \cup {<<vm.v, vm.n>>}
          /\ vm' = NoVm
      BY <1>1, <1>11 DEF VmallocMap
    <2>2. vm.n = vm.i + 1
      BY <1>3, <1>4, <1>11
    <2>3. Pages(<<vm.v, vm.n>>) = R /\ VmPages \cup {q} = R /\ VmPages' = {}
      BY <1>3, <1>4, <2>1, <2>2 DEF VmPages, Pages, NoVm
    <2>4. vframe'[vm.v] \in Blocks /\ vm.v \in VPages /\ vm.v \in R
      BY <1>3, <1>4, <1>6
    <2>5. HeapTypeOK'
      <3>1. hdr' \in [Blocks -> Nat]
        BY <1>0, <1>4, <2>1, <2>4 DEF HeapTypeOK
      <3>2. allocs' \subseteq VPages \X Requests
        BY <1>0, <1>3, <2>1 DEF HeapTypeOK
      <3>3. \A a \in allocs' : a[1] + a[2] - 1 \in VPages
        BY <1>0, <1>3, <2>1 DEF HeapTypeOK
      <3> QED
        BY <1>0, <1>1, <1>4, <1>5, <1>6, <3>1, <3>2, <3>3 DEF HeapTypeOK, VPages, Blocks
    <2>6. VmOK'
      BY <2>1 DEF VmOK, NoVm
    <2>7. PagesOwned'
      <3> HIDE DEF q, R
      <3>1. R \subseteq present'
        BY <1>0, <1>5, <2>3 DEF PagesOwned
      <3>2. \A a \in allocs' : Pages(a) \subseteq present'
        BY <1>0, <1>5, <2>1, <2>3, <3>1 DEF PagesOwned
      <3>3. \A p \in present' : \E a \in allocs' : p \in Pages(a)
        BY <1>0, <1>5, <2>1, <2>3 DEF PagesOwned
      <3>4. \A a, b \in allocs' : a # b => Pages(a) \cap Pages(b) = {}
        BY <1>0, <1>3, <2>1, <2>3 DEF PagesOwned
      <3> QED
        BY <1>9, <2>3, <3>2, <3>3, <3>4 DEF PagesOwned
    <2>8. HeadersOK'
      <3> SUFFICES ASSUME NEW a \in allocs' PROVE hdr'[vframe'[a[1]]] = a[2]
        BY DEF HeadersOK
      <3>1. CASE a = <<vm.v, vm.n>>
        BY <1>0, <2>1, <2>4, <3>1 DEF HeapTypeOK
      <3>2. CASE a \in allocs
        <4>1. a[1] \notin R /\ a[1] \in present /\ a[1] \in VPages
          BY <1>0, <1>3, <1>8, <3>2, AllocPages
        <4>2. vm.v \in present' /\ a[1] \in present' /\ a[1] # vm.v
          <5> HIDE DEF q, R
          <5> QED
            BY <1>0, <1>5, <2>3, <2>4, <4>1 DEF PagesOwned
        <4>3. vframe'[a[1]] # vframe'[vm.v]
          BY <1>7, <4>2 DEF FramesInv, HeapFrames
        <4> QED
          BY <1>0, <1>6, <1>8, <2>1, <3>2, <4>1, <4>3 DEF HeadersOK, HeapTypeOK
      <3> QED
        BY <2>1, <3>1, <3>2
    <2> QED
      BY <1>2, <1>7, <2>5, <2>6, <2>7, <2>8, HeapStepUser DEF MemInv
  <1> QED
    BY <1>10, <1>11

LEMMA KfreeInv ==
    ASSUME MemInv, Sane, NEW v \in VPages, Kfree(v), UNCHANGED <<uvars, tvars>>
    PROVE  MemInv'
  <1>0. /\ PMInv /\ HeapTypeOK /\ UserTypeOK /\ VmOK /\ PagesOwned
        /\ HeadersOK /\ FramesInv /\ SpawnPages
        /\ ~straddled /\ ~nullmap
    BY DEF MemInv, Sane
  <1> DEFINE P == {p \in VPages : v <= p /\ p < v + hdr[vframe[v]]}
             F == {vframe[p] : p \in P}
  <1>1. PICK n \in Requests : <<v, n>> \in allocs /\ allocs' = allocs \ {<<v, n>>}
    BY DEF Kfree
  <1>2. /\ Release(F \ {0})
        /\ present' = (present \ P) \cup (P \ present)
        /\ vframe' = [p \in VPages |-> IF p \in P THEN 0 ELSE vframe[p]]
        /\ hdr' = [b \in Blocks |-> IF b \in F THEN 0 ELSE hdr[b]]
        /\ vm = NoVm /\ vm' = NoVm /\ UNCHANGED nullmap
    BY DEF Kfree, Forget, HeapIdle
  <1>3. hdr[vframe[v]] = n
    BY <1>0, <1>1 DEF HeadersOK
  <1>4. v \in Nat /\ n \in Nat \ {0} /\ v + n - 1 \in VPages
    BY <1>0, <1>1, RequestSize, HeapAssumption DEF HeapTypeOK, VPages
  <1>5. P = Pages(<<v, n>>)
    BY <1>3, <1>4, HeapAssumption DEF Pages, VPages
  <1>6. P \subseteq present /\ present \subseteq VPages
    BY <1>0, <1>1, <1>5 DEF PagesOwned, HeapTypeOK
  <1>7. /\ \A p \in present : vframe[p] \in Blocks /\ held[vframe[p]] = 1
        /\ \A p \in present : vframe[p] # 0
    BY <1>0, <1>6, HeldFacts DEF FramesInv, HeapFrames, HeapTypeOK
  <1> HIDE DEF P
  <1>8. F \ {0} = F /\ F \subseteq Blocks /\ \A b \in F : held[b] = 1
    BY <1>6, <1>7
  <1>9. PMInv' /\ held' = [b \in Blocks |-> IF b \in F THEN 0 ELSE held[b]]
    <2>1. Release(F)
      BY <1>2, <1>8
    <2> HIDE DEF F
    <2> QED
      BY <1>0, <1>8, <2>1, ReleaseRun
  <1>10. present' = present \ P /\ \A p \in present \ P : vframe'[p] = vframe[p]
    BY <1>2, <1>6
  <1>11. FramesInv'
    <2>1. UNCHANGED <<ustack, ucode, uphys>>
      BY DEF uvars
    <2> QED
      BY <1>0, <1>6, <1>9, <1>10, <2>1, FramesUnmap
  <1>12. HeapTypeOK'
    <2>1. vframe' \in [VPages -> Blocks] /\ hdr' \in [Blocks -> Nat]
      BY <1>0, <1>2, ZeroReserved DEF HeapTypeOK
    <2> QED
      BY <1>0, <1>1, <1>2, <1>10, <2>1 DEF HeapTypeOK, VPages, Blocks
  <1>13. VmOK'
    BY <1>2 DEF VmOK, NoVm
  <1>14. \A a \in allocs' : a \in allocs /\ Pages(a) \cap P = {}
    BY <1>0, <1>1, <1>5 DEF PagesOwned
  <1>15. PagesOwned'
    <2>1. VmPages = {} /\ VmPages' = {}
      BY <1>2 DEF VmPages, NoVm
    <2>2. \A p \in present' : \E a \in allocs' : p \in Pages(a)
      BY <1>0, <1>1, <1>5, <1>10, <2>1 DEF PagesOwned
    <2>3. \A a \in allocs' : Pages(a) \subseteq present'
      BY <1>0, <1>10, <1>14 DEF PagesOwned
    <2>4. \A a : Pages(a)' = Pages(a)
      BY DEF Pages
    <2> QED
      BY <1>0, <1>14, <2>1, <2>2, <2>3, <2>4 DEF PagesOwned
  <1>16. HeadersOK'
    <2> SUFFICES ASSUME NEW a \in allocs' PROVE hdr'[vframe'[a[1]]] = a[2]
      BY DEF HeadersOK
    <2>1. a \in allocs /\ a[1] \in present \ P
      BY <1>0, <1>14, AllocPages DEF PagesOwned
    <2>2. vframe[a[1]] \notin F
      BY <1>0, <1>6, <2>1 DEF FramesInv, HeapFrames
    <2>3. vframe[a[1]] \in Blocks /\ vframe'[a[1]] = vframe[a[1]]
      BY <1>7, <1>10, <2>1
    <2> HIDE DEF F
    <2> QED
      BY <1>0, <1>2, <2>1, <2>2, <2>3 DEF HeadersOK
  <1> QED
    BY <1>9, <1>11, <1>12, <1>13, <1>15, <1>16, HeapStepUser DEF MemInv

LEMMA HeapStepInv ==
    ASSUME MemInv, Sane, Sane', HeapNext, UNCHANGED <<uvars, tvars>>
    PROVE  MemInv'
  <1>1. ASSUME NEW n \in Requests, NoRoom(n) PROVE MemInv'
    BY <1>1, UnchangedPM, HeapStepUser
    DEF NoRoom, MemInv, HeapTypeOK, VmOK, PagesOwned, HeadersOK, FramesInv,
        HeapFrames, StackFrames, CodeFrame, PhysFrame, NoLeak, VPages, VmPages,
        Pages, USlots, Blocks, uvars, pvars, hvars
  <1> QED
    BY <1>1, KmallocInv, VmallocCallInv, VmallocPageInv, KfreeInv DEF HeapNext

----------------------------------------------------------------------------
(* Starting user tasks *)

\* What a step of utask_spawn or of the scheduler does not touch.
LEMMA UserStepHeap ==
    ASSUME MemInv, UNCHANGED hvars
    PROVE  HeapTypeOK' /\ VmOK' /\ PagesOwned' /\ HeadersOK'
  BY DEF MemInv, HeapTypeOK, VmOK, PagesOwned, HeadersOK, VPages, VmPages, Pages,
     Blocks, hvars

\* No live task is at home in a slot that is free.
LEMMA FreeSlotEmpty ==
    ASSUME SlotInv, upc \notin {"idle", "scan", "record"}
    PROVE  uslot \in USlots /\ \A p \in UserTasks : home[p] \in USlots /\ home[p] # uslot
  <1>1. uslot \in USlots /\ SlotFree(uslot)
    BY DEF SlotInv, SlotTypeOK, SlotChosen
  <1>2. \A p \in UserTasks : home[p] \in USlots /\ uslots[home[p]] = p
    BY DEF SlotInv, SlotOwned
  <1> QED
    BY <1>1, <1>2 DEF SlotFree, UserTasks, Shell

\* Steps that only move utask_spawn along.
LEMMA GotoInv ==
    ASSUME MemInv, UNCHANGED <<pvars, hvars, uslots, ustack, ucode, uphys, home>>,
           UserTypeOK', SpawnPages'
    PROVE  MemInv'
  <1>1. FramesInv'
    BY DEF MemInv, FramesInv, HeapFrames, StackFrames, CodeFrame, PhysFrame, NoLeak,
       USlots, Blocks, hvars, pvars
  <1> QED
    BY <1>1, UserStepHeap, UnchangedPM DEF MemInv

LEMMA SpawnCodeInv ==
    ASSUME SlotInv, MemInv, Sane, SpawnCode, UNCHANGED hvars
    PROVE  MemInv'
  <1>0. /\ PMInv /\ HeapTypeOK /\ UserTypeOK /\ FramesInv /\ SpawnPages /\ ~straddled
        /\ upc = "code" /\ uphys = 0 /\ ucode = 0
        /\ UNCHANGED <<tvars, uslots, ustack, uslot, uphys, home>>
    BY DEF MemInv, Sane, SpawnCode, At, SpawnPages
  <1>1. SpawnPages'
    BY <1>0 DEF SpawnPages, SpawnCode, At, UGoto, UserTasks, LiveTasks, USlots, tvars
  <1>2. ASSUME NEW f \in Scannable, Alloc(f), ucode' = f PROVE MemInv'
    <2>1. /\ PMInv' /\ f \in Blocks \ {0} /\ held[f] = 0
          /\ held' = [b \in Blocks |-> IF b = f THEN 1 ELSE held[b]]
      BY <1>0, <1>2, AllocRun
    <2>2. UserTypeOK'
      BY <1>0, <1>2, <2>1 DEF UserTypeOK, USlots, Blocks
    <2>3. FramesInv'
      BY <1>0, <1>2, <2>1 DEF hvars, FramesInv, HeapFrames, StackFrames, CodeFrame,
         PhysFrame, NoLeak, HeapTypeOK, UserTypeOK, USlots, Blocks
    <2> QED
      BY <1>1, <2>1, <2>2, <2>3, UserStepHeap DEF MemInv
  <1>3. ASSUME AllocFails, UNCHANGED ucode PROVE MemInv'
    <2>1. PMInv' /\ held' = held
      BY <1>0, <1>3, AllocFailsInv DEF AllocFails, Refuse
    <2>2. UserTypeOK'
      BY <1>0, <1>3 DEF UserTypeOK, USlots, Blocks
    <2>3. FramesInv'
      BY <1>0, <1>3, <2>1 DEF hvars, FramesInv, HeapFrames, StackFrames, CodeFrame,
         PhysFrame, NoLeak, USlots, Blocks
    <2> QED
      BY <1>1, <2>1, <2>2, <2>3, UserStepHeap DEF MemInv
  <1> QED
    BY <1>2, <1>3 DEF SpawnCode

LEMMA SpawnStackInv ==
    ASSUME SlotInv, MemInv, Sane, SpawnStack, UNCHANGED hvars
    PROVE  MemInv'
  <1>0. /\ PMInv /\ HeapTypeOK /\ UserTypeOK /\ FramesInv /\ SpawnPages /\ ~straddled
        /\ upc = "stack" /\ uphys = 0 /\ uslot \in USlots
        /\ UNCHANGED <<tvars, uslots, ustack, ucode, uslot, home>>
    BY FreeSlotEmpty DEF MemInv, Sane, SpawnStack, At, SpawnPages
  <1>1. ASSUME NEW f \in Scannable, Alloc(f), uphys' = f,
               upc' = IF uslots[uslot] # 0 THEN "unmap" ELSE "map"
        PROVE  MemInv'
    <2>1. /\ PMInv' /\ f \in Blocks \ {0} /\ held[f] = 0
          /\ held' = [b \in Blocks |-> IF b = f THEN 1 ELSE held[b]]
      BY <1>0, <1>1, AllocRun
    <2>2. UserTypeOK'
      BY <1>0, <1>1, <2>1 DEF UserTypeOK, USlots, Blocks
    <2>3. FramesInv'
      <3>1. HeapFrames' /\ StackFrames' /\ CodeFrame'
        BY <1>0, <1>1, <2>1 DEF hvars, FramesInv, HeapFrames, StackFrames, CodeFrame,
           HeapTypeOK, UserTypeOK, USlots
      <3>2. PhysFrame'
        <4>1. f # ucode /\ \A p \in present : vframe[p] # f
          BY <1>0, <2>1 DEF FramesInv, HeapFrames, CodeFrame
        <4>2. \A i \in USlots : ustack[i] # f
          BY <1>0, <2>1 DEF FramesInv, StackFrames
        <4>3. held'[f] = 1
          BY <2>1
        <4> QED
          BY <1>0, <1>1, <4>1, <4>2, <4>3 DEF hvars, PhysFrame, USlots
      <3>3. NoLeak'
        <4> SUFFICES ASSUME NEW b \in Blocks, held'[b] = 1
                     PROVE  \/ \E p \in present : vframe[p] = b
                            \/ \E i \in USlots : ustack[i] = b
                            \/ b = ucode
                            \/ b = f
          BY <1>0, <1>1 DEF NoLeak, USlots, Blocks, hvars
        <4>1. b # f => held[b] = 1 /\ b # 0
          BY <1>0, <2>1, HeldFacts
        <4> QED
          BY <1>0, <4>1 DEF FramesInv, NoLeak
      <3> QED
        BY <3>1, <3>2, <3>3 DEF FramesInv
    <2>4. SpawnPages'
      BY <1>0, <1>1, <2>1 DEF SpawnPages, UserTasks, LiveTasks, USlots, tvars
    <2> QED
      BY <2>1, <2>2, <2>3, <2>4, UserStepHeap DEF MemInv
  <1>2. ASSUME AllocFails, upc' = "idle", UNCHANGED uphys PROVE MemInv'
    <2>1. PMInv' /\ held' = held
      BY <1>0, <1>2, AllocFailsInv DEF AllocFails, Refuse
    <2>2. UserTypeOK'
      BY <1>0, <1>2 DEF UserTypeOK, USlots, Blocks
    <2>3. FramesInv'
      BY <1>0, <1>2, <2>1 DEF hvars, FramesInv, HeapFrames, StackFrames, CodeFrame,
         PhysFrame, NoLeak, USlots, Blocks
    <2>4. SpawnPages'
      BY <1>0, <1>2 DEF SpawnPages, UserTasks, LiveTasks, USlots, tvars
    <2> QED
      BY <2>1, <2>2, <2>3, <2>4, UserStepHeap DEF MemInv
  <1> QED
    BY <1>1, <1>2 DEF SpawnStack, UGoto

\* unmap_user_page on the slot of no live task.
LEMMA UnmapInv ==
    ASSUME SlotInv, MemInv, Sane, Unmap, upc \in {"unmap", "undo"},
           UNCHANGED <<tvars, hvars, uslots, ucode, uslot, uphys, home>>,
           upc' = IF upc = "unmap" THEN "map" ELSE "idle"
    PROVE  MemInv'
  <1>0. /\ PMInv /\ HeapTypeOK /\ UserTypeOK /\ FramesInv /\ SpawnPages /\ ~straddled
        /\ uslot \in USlots
        /\ \A p \in UserTasks : home[p] \in USlots /\ home[p] # uslot
        /\ ustack' = [ustack EXCEPT ![uslot] = 0]
    BY FreeSlotEmpty DEF MemInv, Sane, Unmap
  <1>1. /\ ustack' \in [USlots -> Blocks] /\ ustack'[uslot] = 0
        /\ \A i \in USlots : i # uslot => ustack'[i] = ustack[i]
    BY <1>0, ZeroReserved DEF UserTypeOK
  <1>2. UserTypeOK'
    BY <1>0, <1>1 DEF UserTypeOK, USlots, Blocks
  <1>3. SpawnPages'
    BY <1>0, <1>1 DEF SpawnPages, UserTasks, LiveTasks, USlots, tvars
  <1>4. /\ PMInv'
        /\ held' = [b \in Blocks |->
                      IF ustack[uslot] # 0 /\ b = ustack[uslot] THEN 0 ELSE held[b]]
    <2>1. CASE ustack[uslot] # 0
      <3>1. ustack[uslot] \in Blocks /\ held[ustack[uslot]] = 1
        BY <1>0, <2>1 DEF FramesInv, StackFrames, UserTypeOK
      <3>2. Release({ustack[uslot]})
        BY <2>1 DEF Unmap
      <3>3. /\ PMInv'
            /\ held' = [b \in Blocks |-> IF b \in {ustack[uslot]} THEN 0 ELSE held[b]]
        BY <1>0, <3>1, <3>2, ReleaseRun
      <3> QED
        BY <2>1, <3>3
    <2>2. CASE ustack[uslot] = 0
      <3>1. UNCHANGED pvars
        BY <2>2 DEF Unmap
      <3> QED
        BY <1>0, <2>2, <3>1, UnchangedPM, HeldFacts DEF pvars
    <2> QED
      BY <2>1, <2>2
  <1>5. /\ \A b \in Blocks : b # ustack[uslot] => held'[b] = held[b]
        /\ ustack[uslot] # 0 => held'[ustack[uslot]] = 0
        /\ held[0] = 0 /\ 0 \in Blocks
        /\ \A i \in USlots : ustack[i] \in Blocks
    BY <1>0, <1>4, HeldFacts, ZeroReserved DEF UserTypeOK
  <1>6. HeapFrames'
    BY <1>0, <1>5, HeldFacts DEF FramesInv, HeapFrames, StackFrames, HeapTypeOK, hvars
  <1>7. StackFrames'
    BY <1>0, <1>1, <1>5 DEF FramesInv, StackFrames, USlots, hvars
  <1>8. CodeFrame'
    BY <1>0, <1>1, <1>5 DEF FramesInv, CodeFrame, UserTypeOK, USlots, hvars
  <1>9. PhysFrame'
    BY <1>0, <1>1, <1>5 DEF FramesInv, PhysFrame, UserTypeOK, USlots, hvars
  <1>10. NoLeak'
    <2> SUFFICES ASSUME NEW b \in Blocks, held'[b] = 1
                 PROVE  \/ \E p \in present : vframe[p] = b
                        \/ \E i \in USlots : ustack'[i] = b
                        \/ b = ucode
                        \/ b = uphys
      BY DEF NoLeak, USlots, Blocks, hvars
    <2>1. held[b] = 1 /\ b # ustack[uslot]
      BY <1>4, <1>5
    <2> QED
      BY <1>0, <1>1, <2>1 DEF FramesInv, NoLeak
  <1> QED
    BY <1>2, <1>3, <1>4, <1>6, <1>7, <1>8, <1>9, <1>10, UserStepHeap
    DEF MemInv, FramesInv

LEMMA SpawnMapInv ==
    ASSUME SlotInv, MemInv, Sane, SpawnMap, UNCHANGED hvars
    PROVE  MemInv'
  <1>0. /\ PMInv /\ HeapTypeOK /\ UserTypeOK /\ FramesInv /\ SpawnPages
        /\ uslot \in USlots /\ uphys # 0 /\ ustack[uslot] = 0 /\ uphys \in Blocks
        /\ ustack' = [ustack EXCEPT ![uslot] = uphys] /\ uphys' = 0
        /\ upc' = "add"
        /\ UNCHANGED <<pvars, tvars, uslots, ucode, uslot, home>>
    BY FreeSlotEmpty DEF MemInv, SpawnMap, At, UGoto, SpawnPages, UserTypeOK
  <1>1. /\ ustack' \in [USlots -> Blocks] /\ ustack'[uslot] = uphys
        /\ \A i \in USlots : i # uslot => ustack'[i] = ustack[i]
    BY <1>0 DEF UserTypeOK
  <1>2. UserTypeOK'
    BY <1>0, <1>1, ZeroReserved DEF UserTypeOK, USlots, Blocks
  <1>3. SpawnPages'
    <2>1. \A p \in UserTasks : home[p] \in USlots
      BY DEF SlotInv, SlotOwned
    <2> QED
      BY <1>0, <1>1, <2>1 DEF SpawnPages, UserTasks, LiveTasks, USlots, tvars
  <1>4. HeapFrames'
    BY <1>0 DEF FramesInv, HeapFrames, hvars, pvars
  <1>5. StackFrames'
    BY <1>0, <1>1 DEF FramesInv, StackFrames, PhysFrame, USlots, hvars, pvars
  <1>6. CodeFrame' /\ PhysFrame'
    BY <1>0, <1>1 DEF FramesInv, CodeFrame, PhysFrame, USlots, hvars, pvars
  <1>7. NoLeak'
    <2> SUFFICES ASSUME NEW b \in Blocks, held[b] = 1
                 PROVE  \/ \E p \in present : vframe[p] = b
                        \/ \E i \in USlots : ustack'[i] = b
                        \/ b = ucode
      BY <1>0 DEF NoLeak, USlots, Blocks, hvars, pvars
    <2>1. CASE \E i \in USlots : ustack[i] = b /\ i # uslot
      BY <1>1, <2>1
    <2>2. CASE b = uphys
      BY <1>0, <1>1, <2>2
    <2>3. b # ustack[uslot]
      <3>1. held[0] = 0
        BY <1>0, ZeroReserved DEF PMInv, KernelReserved
      <3> QED
        BY <1>0, <3>1
    <2> QED
      BY <1>0, <2>1, <2>2, <2>3 DEF FramesInv, NoLeak
  <1> QED
    BY <1>0, <1>2, <1>3, <1>4, <1>5, <1>6, <1>7, UserStepHeap, UnchangedPM
    DEF MemInv, FramesInv

LEMMA SpawnAddInv ==
    ASSUME SlotInv, MemInv, SpawnAdd, UNCHANGED hvars
    PROVE  MemInv'
  <1>0. /\ SpawnPages /\ UserTypeOK /\ uslot \in USlots /\ ustack[uslot] # 0
        /\ upc = "add" /\ uphys = 0
        /\ UNCHANGED <<pvars, uslots, ustack, ucode, uslot, uphys>>
    BY FreeSlotEmpty DEF MemInv, SpawnAdd, At, SpawnPages
  <1>1. UserTypeOK'
    BY <1>0 DEF UserTypeOK, USlots, Blocks
  <1>2. \A p \in UserTasks' : ustack[home'[p]] # 0
    <2>1. CASE UNCHANGED <<tvars, home>>
      BY <1>0, <2>1 DEF SpawnPages, UserTasks, LiveTasks, tvars
    <2>2. CASE Spawn /\ home' = [home EXCEPT ![issued'] = uslot]
      <3>1. /\ issued \in Nat /\ issued' = issued + 1 /\ issued < PMax
            /\ home \in [UPids -> 0 .. UMax]
        BY <1>0, <2>2 DEF Spawn, SlotInv, PidsOK, SlotTypeOK, SlotChosen
      <3>2. issued' \in UPids
        BY <3>1, UserTaskAssumption DEF UPids
      <3>3. \A p \in UserTasks' : p = issued' \/ p \in UserTasks
        BY <2>2 DEF Spawn, UserTasks, LiveTasks
      <3>4. home'[issued'] = uslot /\ \A p \in UPids : p # issued' => home'[p] = home[p]
        BY <2>2, <3>1, <3>2
      <3>5. UserTasks \subseteq UPids
        BY UserTaskAssumption DEF SlotInv, PidsOK, UserTasks, LiveTasks, UPids, Shell, None
      <3> QED
        BY <1>0, <3>3, <3>4, <3>5 DEF SpawnPages
    <2> QED
      BY <2>1, <2>2 DEF SpawnAdd
  <1>3. SpawnPages'
    BY <1>0, <1>2 DEF SpawnPages, SpawnAdd, UGoto, USlots
  <1>4. FramesInv'
    BY <1>0 DEF MemInv, FramesInv, HeapFrames, StackFrames, CodeFrame, PhysFrame,
       NoLeak, USlots, Blocks, hvars, pvars
  <1> QED
    BY <1>0, <1>1, <1>3, <1>4, UserStepHeap, UnchangedPM DEF MemInv

\* Every other step of utask_spawn, and the scheduler's, leave the pages alone.
LEMMA QuietStepInv ==
    ASSUME SlotInv, MemInv, UNCHANGED hvars,
           SpawnCall \/ SpawnScan \/ SpawnRecord \/ TaskStep
    PROVE  MemInv'
  <1>0. /\ SpawnPages /\ UserTypeOK
        /\ UNCHANGED <<pvars, ustack, ucode, uphys, home>>
    BY DEF MemInv, SpawnCall, SpawnScan, SpawnRecord, TaskStep, uvars
  <1>1. UserTypeOK'
    BY <1>0 DEF UserTypeOK, USlots, Blocks
  <1>2. UserTasks' \subseteq UserTasks
    BY DEF SpawnCall, SpawnScan, SpawnRecord, TaskStep, Dispatch, End, Stop, UserTasks,
       LiveTasks, tvars
  <1>3. SpawnPages'
    <2>1. CASE SpawnCall \/ SpawnScan
      BY <1>0, <1>2, <2>1 DEF SpawnPages, SpawnCall, SpawnScan, At, UGoto, USlots
    <2>2. CASE SpawnRecord
      <3>1. uslot \in USlots /\ issued >= 1 /\ uslots \in [USlots -> 0 .. issued]
        BY <2>2 DEF SpawnRecord, At, SlotInv, SlotTypeOK, SlotChosen
      <3> QED
        BY <1>0, <1>2, <2>2, <3>1 DEF SpawnPages, SpawnRecord, At, UGoto, USlots
    <2>3. CASE TaskStep
      BY <1>0, <1>2, <2>3 DEF SpawnPages, TaskStep, USlots, uvars
    <2> QED
      BY <2>1, <2>2, <2>3
  <1>4. FramesInv'
    BY <1>0 DEF MemInv, FramesInv, HeapFrames, StackFrames, CodeFrame, PhysFrame,
       NoLeak, USlots, Blocks, hvars, pvars
  <1> QED
    BY <1>0, <1>1, <1>3, <1>4, UserStepHeap, UnchangedPM DEF MemInv

----------------------------------------------------------------------------
(* The whole *)

LEMMA MSInitInv == MSInit => MSInv
  <1> SUFFICES ASSUME MSInit PROVE MemInv
    BY SlotInit DEF MSInv
  <1> USE DEF MSInit, HeapInit, UserInit, TSInit
  <1>1. PMInv
    BY PMInitInv
  <1>2. HeapTypeOK /\ UserTypeOK
    BY ZeroReserved DEF HeapTypeOK, UserTypeOK
  <1>3. VmOK /\ PagesOwned /\ HeadersOK
    BY DEF VmOK, PagesOwned, HeadersOK, VmPages, NoVm
  <1>4. FramesInv
    BY DEF FramesInv, HeapFrames, StackFrames, CodeFrame, PhysFrame, NoLeak, PMInit
  <1>5. SpawnPages
    BY DEF SpawnPages, UserTasks, LiveTasks, Shell
  <1> QED
    BY <1>1, <1>2, <1>3, <1>4, <1>5 DEF MemInv

\* A corrupted state stays corrupted.
LEMMA SaneBefore ==
    ASSUME MSInv, [MSNext]_mvars, Sane'
    PROVE  Sane
  <1>1. (straddled => straddled') /\ (nullmap => nullmap')
    <2>1. CASE HeapNext
      <3>1. ASSUME NEW n \in Requests, Kmalloc(n) \/ NoRoom(n) \/ VmallocCall(n)
            PROVE  (straddled => straddled') /\ (nullmap => nullmap')
        <4>1. ASSUME NEW f, AllocBlocks(n, f) PROVE straddled => straddled'
          BY <4>1, Zenon DEF AllocBlocks
        <4>2. AllocBlocksFails(n) => straddled' = straddled
          BY DEF AllocBlocksFails, Refuse
        <4>3. Kmalloc(n) => (straddled => straddled')
          BY <4>1, <4>2, Zenon DEF Kmalloc
        <4>4. Kmalloc(n) => (nullmap => nullmap')
          BY Zenon DEF Kmalloc
        <4>5. NoRoom(n) \/ VmallocCall(n) =>
                straddled' = straddled /\ nullmap' = nullmap
          BY DEF NoRoom, VmallocCall, pvars, hvars
        <4> QED
          BY <3>1, <4>3, <4>4, <4>5
      <3>2. ASSUME VmallocPage
            PROVE  (straddled => straddled') /\ (nullmap => nullmap')
        <4>1. straddled' = straddled
          BY <3>2 DEF VmallocPage, Alloc, AllocFails, Refuse
        <4>2. nullmap => nullmap'
          BY <3>2, Zenon DEF VmallocPage
        <4> QED
          BY <4>1, <4>2
      <3>3. ASSUME NEW v \in VPages, Kfree(v)
            PROVE  (straddled => straddled') /\ (nullmap => nullmap')
        BY <3>3 DEF Kfree, Release
      <3> QED
        BY <2>1, <3>1, <3>2, <3>3 DEF HeapNext
    <2>2. CASE UserNext /\ UNCHANGED hvars
      <3>1. straddled' = straddled
        BY <2>2 DEF UserNext, SpawnCall, SpawnScan, SpawnCode, SpawnStack, SpawnUnmap,
           SpawnMap, SpawnAdd, SpawnUndo, SpawnRecord, Unmap, Alloc, AllocFails,
           Release, Refuse, pvars
      <3> QED
        BY <2>2, <3>1 DEF hvars
    <2> QED
      BY <2>1, <2>2 DEF MSNext, mvars, TaskStep, pvars, hvars
  <1> QED
    BY <1>1 DEF Sane

LEMMA MSNextInv == MSInv /\ [MSNext]_mvars => MSInv'
  <1> SUFFICES ASSUME MSInv, [MSNext]_mvars PROVE MSInv'
    OBVIOUS
  <1>1. SlotInv /\ SlotInv'
    BY SlotNext DEF MSInv
  <1> SUFFICES ASSUME Sane' PROVE MemInv'
    BY <1>1 DEF MSInv
  <1>2. Sane /\ MemInv
    BY SaneBefore DEF MSInv
  <1>3. CASE HeapNext /\ UNCHANGED <<uvars, tvars>>
    BY <1>2, <1>3, HeapStepInv
  <1>4. CASE UserNext /\ UNCHANGED hvars
    <2>1. CASE SpawnUnmap \/ SpawnUndo
      BY <1>1, <1>2, <1>4, <2>1, UnmapInv DEF SpawnUnmap, SpawnUndo, At, UGoto
    <2> QED
      BY <1>1, <1>2, <1>4, <2>1, QuietStepInv, SpawnCodeInv, SpawnStackInv, SpawnMapInv,
         SpawnAddInv DEF UserNext
  <1>5. CASE TaskStep /\ UNCHANGED hvars
    BY <1>1, <1>2, <1>5, QuietStepInv
  <1>6. CASE UNCHANGED mvars
    <2>1. UserTypeOK' /\ SpawnPages'
      BY <1>2, <1>6, HeapStepUser DEF mvars
    <2> QED
      BY <1>2, <1>6, <2>1, GotoInv DEF mvars, uvars
  <1> QED
    BY <1>3, <1>4, <1>5, <1>6 DEF MSNext

\* The bookkeeping of memory and of user slots, through every interleaving of the
\* heap, utask_spawn and the scheduler.
THEOREM MSInvariance == MSSpec => []MSInv
  BY MSInitInv, MSNextInv, PTL DEF MSSpec

\* A task that may still run keeps its stack page, and shares it with no other:
\* utask_spawn reuses a slot only when its task is dead, whatever ends between
\* the scan of the slots and the record of the new pid.
THEOREM StackKept == MSSpec => []LiveStackKept
  <1>1. MSInv => LiveStackKept
    <2> SUFFICES ASSUME MSInv, NEW p \in UserTasks
                 PROVE  /\ Sane => ustack[home[p]] # 0
                        /\ \A q \in UserTasks : home[p] = home[q] => p = q
      BY DEF LiveStackKept, UserTasks
    <2>1. Sane => ustack[home[p]] # 0
      BY DEF MSInv, MemInv, SpawnPages
    <2>2. ASSUME NEW q \in UserTasks, home[p] = home[q], p # q PROVE FALSE
      <3>1. PICK r \in UserTasks : /\ r # issued /\ uslots[home[r]] = r
                                   /\ upc = "record" /\ home[r] = home[issued]
        BY <2>2 DEF MSInv, SlotInv, SlotOwned
      <3>2. home[r] = uslot /\ SlotFree(uslot)
        BY <3>1 DEF MSInv, SlotInv, SlotChosen
      <3> QED
        BY <3>1, <3>2 DEF SlotFree, UserTasks, Shell
    <2> QED
      BY <2>1, <2>2
  <1> QED
    BY <1>1, MSInvariance, PTL

\* The claims, one clause per kind of user.
LEMMA ClaimCases ==
    ASSUME NEW c \in Claims
    PROVE  \/ \E p \in present : c = <<"heap", p, vframe[p]>>
           \/ \E i \in USlots : ustack[i] # 0 /\ c = <<"stack", i, ustack[i]>>
           \/ ucode # 0 /\ c = <<"code", 0, ucode>>
           \/ upc \in {"unmap", "map"} /\ c = <<"phys", 0, uphys>>
  BY DEF Claims

\* No leak and no sharing of frames between the heap, the stacks, the code page
\* and a utask_spawn in progress, and page counts that kfree can trust, unless a
\* run was taken across a full word or a NULL was mapped.
THEOREM FramesExact == MSSpec => []FramesAccounted
  <1>1. MSInv => FramesAccounted
    <2> SUFFICES ASSUME MSInv, Sane
                 PROVE  /\ {b \in Blocks : held[b] = 1} = {c[3] : c \in Claims}
                        /\ \A c, d \in Claims : c[3] = d[3] => c = d
                        /\ \A a \in allocs : hdr[vframe[a[1]]] = a[2]
                        /\ \A a, b \in allocs : a # b =>
                             (a[1] .. a[1] + a[2] - 1) \cap (b[1] .. b[1] + b[2] - 1) = {}
                        /\ HeapIdle =>
                             present = UNION {a[1] .. a[1] + a[2] - 1 : a \in allocs}
      BY DEF FramesAccounted
    <2>0. /\ PMInv /\ HeapTypeOK /\ UserTypeOK /\ PagesOwned /\ HeadersOK
          /\ FramesInv /\ SpawnPages /\ ~straddled
      BY DEF MSInv, MemInv, Sane
    <2>1. ASSUME NEW c \in Claims PROVE c[3] \in Blocks /\ held[c[3]] = 1
      BY <2>0, ClaimCases DEF FramesInv, HeapFrames, StackFrames, CodeFrame, PhysFrame,
         SpawnPages, HeapTypeOK, UserTypeOK
    <2>2. ASSUME NEW b \in Blocks, held[b] = 1 PROVE \E c \in Claims : c[3] = b
      <3>0. b # 0
        BY <2>0, <2>2, HeldFacts
      <3>1. CASE \E p \in present : vframe[p] = b
        <4>1. PICK p \in present : vframe[p] = b
          BY <3>1
        <4>2. <<"heap", p, vframe[p]>> \in Claims
          BY DEF Claims
        <4> QED
          BY <4>1, <4>2
      <3>2. CASE \E i \in USlots : ustack[i] = b
        <4>1. PICK i \in USlots : ustack[i] = b
          BY <3>2
        <4>2. <<"stack", i, ustack[i]>> \in Claims
          BY <3>0, <4>1 DEF Claims
        <4> QED
          BY <4>1, <4>2
      <3>3. CASE b = ucode
        <4>1. <<"code", 0, ucode>> \in Claims
          BY <3>0, <3>3 DEF Claims
        <4> QED
          BY <3>3, <4>1
      <3>4. CASE b = uphys
        <4>1. <<"phys", 0, uphys>> \in Claims
          BY <2>0, <3>0, <3>4 DEF Claims, SpawnPages
        <4> QED
          BY <3>4, <4>1
      <3> QED
        BY <2>0, <2>2, <3>1, <3>2, <3>3, <3>4 DEF FramesInv, NoLeak
    <2>3. {b \in Blocks : held[b] = 1} = {c[3] : c \in Claims}
      BY <2>1, <2>2
    <2>4. ASSUME NEW c \in Claims, NEW d \in Claims, c[3] = d[3] PROVE c = d
      <3>1. CASE \E p \in present : c = <<"heap", p, vframe[p]>>
        BY <2>0, <2>4, <3>1, ClaimCases DEF FramesInv, HeapFrames, StackFrames,
           CodeFrame, PhysFrame, SpawnPages
      <3>2. CASE \E i \in USlots : ustack[i] # 0 /\ c = <<"stack", i, ustack[i]>>
        BY <2>0, <2>4, <3>2, ClaimCases DEF FramesInv, HeapFrames, StackFrames,
           CodeFrame, PhysFrame, SpawnPages
      <3>3. CASE ucode # 0 /\ c = <<"code", 0, ucode>>
        BY <2>0, <2>4, <3>3, ClaimCases DEF FramesInv, HeapFrames, StackFrames,
           CodeFrame, PhysFrame, SpawnPages
      <3>4. CASE upc \in {"unmap", "map"} /\ c = <<"phys", 0, uphys>>
        BY <2>0, <2>4, <3>4, ClaimCases DEF FramesInv, HeapFrames, StackFrames,
           CodeFrame, PhysFrame, SpawnPages
      <3> QED
        BY <3>1, <3>2, <3>3, <3>4, ClaimCases
    <2>5. \A a \in allocs : hdr[vframe[a[1]]] = a[2]
      BY <2>0 DEF HeadersOK
    <2>6. \A a, b \in allocs : a # b =>
            (a[1] .. a[1] + a[2] - 1) \cap (b[1] .. b[1] + b[2] - 1) = {}
      BY <2>0 DEF PagesOwned, Pages
    <2>7. ASSUME HeapIdle
          PROVE  present = UNION {a[1] .. a[1] + a[2] - 1 : a \in allocs}
      <3>1. VmPages = {}
        BY <2>7 DEF HeapIdle, VmPages, NoVm
      <3>2. present = UNION {Pages(a) : a \in allocs}
        BY <2>0, <3>1 DEF PagesOwned
      <3> QED
        BY <3>2 DEF Pages
    <2> QED
      BY <2>3, <2>4, <2>5, <2>6, <2>7
  <1> QED
    BY <1>1, MSInvariance, PTL

\* The allocator's own promises survive its real clients: as long as no run was
\* taken across a full word and no NULL was mapped, the bitmap and the count are
\* exact, the kernel's memory is not handed out, a refusal is justified, and the
\* scan is the loop of the code.
THEOREM AllocatorKept ==
    MSSpec => [](Sane => KernelReserved /\ Exact /\ FailsOnlyWhenFull /\ ScanIsLoop)
  <1>1. MSInv => (Sane => KernelReserved /\ Exact /\ FailsOnlyWhenFull /\ ScanIsLoop)
    BY LoopAgrees DEF MSInv, MemInv, PMInv
  <1> QED
    BY <1>1, MSInvariance, PTL
=============================================================================
