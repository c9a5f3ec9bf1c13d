----------------------------- MODULE Ext2Proofs -----------------------------
(***************************************************************************)
(* Proofs about the ext2 driver for every set of names, every number of    *)
(* inodes, blocks and pointers, every block size and every number of       *)
(* power losses.                                                           *)
(***************************************************************************)
EXTENDS Ext2, FiniteSetTheorems, SequenceTheorems, WellFoundedInduction, TLAPS

----------------------------------------------------------------------------
(* Loops *)

\* A set of numbers that is not empty has a least element.
LEMMA SmallestOf ==
    ASSUME NEW T, T \subseteq Nat, T # {}
    PROVE  \E x \in T : \A y \in T : x <= y
  <1> DEFINE R == OpToRel(<, Nat)
  <1>1. IsWellFoundedOn(R, Nat)
    BY NatLessThanWellFounded, Zenon
  <1>2. \A x, y \in Nat : y < x => <<y, x>> \in R
    BY DEF OpToRel
  <1> HIDE DEF R
  <1>3. PICK x \in T : \A y \in T : ~(<<y, x>> \in R)
    BY <1>1, WFMin, Zenon
  <1>4. ASSUME NEW y \in T
        PROVE  x <= y
    <2>1. x \in Nat /\ y \in Nat /\ ~(<<y, x>> \in R)
      BY <1>3
    <2>2. ~(y < x)
      BY <1>2, <2>1
    <2> QED
      BY <2>1, <2>2
  <1> QED
    BY <1>4

\* Induction up to n, for the set of the numbers that have the property.
LEMMA UpTo ==
    ASSUME NEW n \in Nat, NEW Good, 0 \in Good,
           \A k \in 1 .. n : k - 1 \in Good => k \in Good
    PROVE  0 .. n \subseteq Good
  <1> DEFINE Bad == {k \in 0 .. n : k \notin Good}
  <1> SUFFICES ASSUME Bad # {}
               PROVE  FALSE
    OBVIOUS
  <1>1. Bad \subseteq Nat
    OBVIOUS
  <1>2. PICK k \in Bad : \A j \in Bad : k <= j
    <2> HIDE DEF Bad
    <2> QED
      BY <1>1, SmallestOf, Zenon
  <1>3. k \in 1 .. n /\ k - 1 \in 0 .. n /\ ~(k <= k - 1)
    OBVIOUS
  <1>4. k - 1 \in Good
    BY <1>2, <1>3
  <1> QED
    BY <1>3, <1>4

\* A loop that goes from state to state is a function of the number of its turns.
IsLoop(n, S, a, step) == n \in Nat /\ a \in S /\ step \in [1 .. n -> [S -> S]]

Turns(g, n, S, a, step) ==
    /\ g \in [0 .. n -> S] /\ g[0] = a
    /\ \A b \in 1 .. n : g[b] = step[b][g[b - 1]]

LEMMA LoopExists ==
    ASSUME NEW n, NEW S, NEW a, NEW step, IsLoop(n, S, a, step)
    PROVE  \E g : Turns(g, n, S, a, step)
  <1> USE DEF IsLoop
  <1> DEFINE Run(g, k) == g[0] = a /\ \A b \in 1 .. k : g[b] = step[b][g[b - 1]]
             Good == {k \in 0 .. n : \E g \in [0 .. k -> S] : Run(g, k)}
  <1>1. 0 \in Good
    <2> DEFINE g == [b \in 0 .. 0 |-> a]
    <2>1. g \in [0 .. 0 -> S] /\ Run(g, 0)
      OBVIOUS
    <2> HIDE DEF g, Run
    <2>2. \E f \in [0 .. 0 -> S] : Run(f, 0)
      BY <2>1
    <2> QED
      BY <2>2
  <1>2. ASSUME NEW k \in 1 .. n, k - 1 \in Good
        PROVE  k \in Good
    <2>1. PICK g \in [0 .. k - 1 -> S] : Run(g, k - 1)
      BY <1>2
    <2> DEFINE h == [b \in 0 .. k |-> IF b < k THEN g[b] ELSE step[k][g[k - 1]]]
    <2>2. g[k - 1] \in S /\ step[k][g[k - 1]] \in S
      BY <2>1
    <2>3. h \in [0 .. k -> S]
      BY <2>1, <2>2
    <2>4. h[0] = a
      BY <2>1
    <2>5. ASSUME NEW b \in 1 .. k
          PROVE  h[b] = step[b][h[b - 1]]
      <3>1. h[b - 1] = g[b - 1]
        OBVIOUS
      <3>2. CASE b = k
        BY <3>1, <3>2
      <3>3. CASE b # k
        <4>1. b \in 1 .. k - 1 /\ h[b] = g[b]
          BY <3>3
        <4> QED
          BY <2>1, <3>1, <4>1
      <3> QED
        BY <3>2, <3>3
    <2>6. h \in [0 .. k -> S] /\ Run(h, k)
      BY <2>3, <2>4, <2>5, Zenon
    <2> HIDE DEF h, Run
    <2>7. \E f \in [0 .. k -> S] : Run(f, k)
      BY <2>6
    <2> QED
      BY <2>7
  <1> HIDE DEF Good
  <1>3. n \in Good
    <2>1. 0 .. n \subseteq Good
      BY <1>1, <1>2, UpTo, Zenon
    <2> QED
      BY <2>1
  <1> QED
    BY <1>3 DEF Good, Turns

\* The least number of a set, as the walks of the code find it.
LEMMA MinFacts ==
    ASSUME NEW T, T \subseteq Nat, T # {}
    PROVE  Min(T) \in T /\ \A y \in T : Min(T) <= y
  <1>1. \E x \in T : \A y \in T : x <= y
    BY SmallestOf, Zenon
  <1>2. Min(T) = CHOOSE x \in T : \A y \in T : x <= y
    BY DEF Min
  <1> QED
    BY <1>1, <1>2, Zenon

----------------------------------------------------------------------------
(* Types *)

Modes    == {"none", "file", "dir"}
Refs     == 0 .. NBlocks
Offs     == 0 .. BlockUnits - 1
Logicals == 0 .. MaxLen - 1
Slots    == 0 .. MaxLen          \* the logical blocks, then the table
AllNames == Names \cup {".", ".."}

Inodes == [mode : Modes, links : Nat, size : Nat, blocks : Nat,
           block : [0 .. NDirect - 1 -> Refs], ind : Refs]

Entries == [name : AllNames, inode : 0 .. NInodes, type : Modes, len : Nat]

\* The entries of a block do not overlap and end within it.
Tiled(f) ==
    /\ \A o \in DOMAIN f : f[o].len \in 1 .. BlockUnits - o
    /\ \A o, q \in DOMAIN f : q < o => q + f[q].len <= o

EntMaps == {f \in UNION {[S -> Entries] : S \in SUBSET Offs} : Tiled(f)}

Blocks == [ents : EntMaps, ptrs : [0 .. PtrsPerBlock - 1 -> Refs]]
Counts == [blocks : Int, inodes : Int]

Disks == [bbm : SUBSET BlockNos, ibm : SUBSET InodeNos, count : Counts,
          inode : [InodeNos -> Inodes], blk : [BlockNos -> Blocks]]

Sessions == [d : Disks, m : Counts, log : Seq(Disks), ok : BOOLEAN,
             out : Int, marks : SUBSET {"tombstone", "dotdot"}]

LEMMA Numbers ==
    /\ NInodes \in Nat /\ NInodes >= 1 /\ NBlocks \in Nat /\ NBlocks >= 1
    /\ BlockUnits \in Nat /\ BlockUnits >= 3
    /\ NDirect \in Nat /\ NDirect >= 1 /\ PtrsPerBlock \in Nat /\ PtrsPerBlock >= 1
    /\ MaxLen = NDirect + PtrsPerBlock /\ MaxLen \in Nat
    /\ SizeMod \in Nat /\ SizeMod >= 1
    /\ Root \in InodeNos /\ Root = 1
  <1>1. SizeMod >= 1
    <2>1. /\ NDirect \in Nat /\ PtrsPerBlock \in Nat /\ BlockUnits \in Nat
          /\ SizeMod \in Nat /\ SizeMod > (NDirect + PtrsPerBlock) * BlockUnits
      BY Ext2DiskAssumption
    <2>2. \A a, b \in Nat : a * b >= 0
      OBVIOUS
    <2>3. NDirect + PtrsPerBlock \in Nat
      BY <2>1
    <2> DEFINE x == NDirect + PtrsPerBlock
    <2> HIDE DEF x
    <2>4. x \in Nat /\ SizeMod > x * BlockUnits
      BY <2>1, <2>3 DEF x
    <2>5. x * BlockUnits >= 0 /\ x * BlockUnits \in Nat
      BY <2>1, <2>2, <2>4
    <2> QED
      BY <2>1, <2>4, <2>5
  <1> QED
    BY <1>1, Ext2DiskAssumption DEF MaxLen, Root, InodeNos

LEMMA Units1 ==
    ASSUME NEW n \in AllNames
    PROVE  UnitsOf(n) \in Nat /\ UnitsOf(n) >= 1
  BY Ext2DiskAssumption DEF UnitsOf, AllNames

LEMMA MapFacts ==
    /\ \A f \in EntMaps : /\ DOMAIN f \in SUBSET Offs /\ Tiled(f)
                          /\ \A o \in DOMAIN f : f[o] \in Entries /\ o \in Nat
    /\ \A S \in SUBSET Offs : \A f \in [S -> Entries] : Tiled(f) => f \in EntMaps
  <1>1. ASSUME NEW f \in EntMaps
        PROVE  /\ DOMAIN f \in SUBSET Offs /\ Tiled(f)
               /\ \A o \in DOMAIN f : f[o] \in Entries /\ o \in Nat
    <2>1. Tiled(f) /\ f \in UNION {[S -> Entries] : S \in SUBSET Offs}
      BY DEF EntMaps
    <2>2. PICK S \in SUBSET Offs : f \in [S -> Entries]
      BY <2>1
    <2>3. DOMAIN f = S /\ \A o \in S : f[o] \in Entries
      BY <2>2
    <2>4. \A o \in Offs : o \in Nat
      BY Numbers DEF Offs
    <2> QED
      BY <2>1, <2>3, <2>4
  <1>2. ASSUME NEW S \in SUBSET Offs, NEW f \in [S -> Entries], Tiled(f)
        PROVE  f \in EntMaps
    BY <1>2 DEF EntMaps
  <1> QED
    BY <1>1, <1>2

----------------------------------------------------------------------------
(* What an inode refers to *)

\* Pointer k of an inode: a direct one, one of its table, or the table itself.
PtrOf(d, i, k) == IF k = MaxLen THEN i.ind ELSE BlockLookup(d, i, k)
Ptr(d, m, k)   == PtrOf(d, d.inode[m], k)

LEMMA DiskFacts ==
    ASSUME NEW d \in Disks
    PROVE  /\ d.bbm \in SUBSET BlockNos /\ d.ibm \in SUBSET InodeNos
           /\ d.count \in Counts
           /\ d.inode \in [InodeNos -> Inodes] /\ d.blk \in [BlockNos -> Blocks]
           /\ \A m \in InodeNos : d.inode[m] \in Inodes
           /\ \A b \in BlockNos : /\ d.blk[b] \in Blocks /\ d.blk[b].ents \in EntMaps
                                  /\ d.blk[b].ptrs \in [0 .. PtrsPerBlock - 1 -> Refs]
  BY DEF Disks, Blocks

LEMMA PtrFacts ==
    ASSUME NEW d \in Disks, NEW i \in Inodes, NEW k \in Slots
    PROVE  /\ PtrOf(d, i, k) \in Refs
           /\ k < NDirect => PtrOf(d, i, k) = i.block[k]
           /\ k \in NDirect .. MaxLen - 1 =>
                PtrOf(d, i, k) = IF i.ind = 0 THEN 0
                                 ELSE d.blk[i.ind].ptrs[k - NDirect]
           /\ k = MaxLen => PtrOf(d, i, k) = i.ind
           /\ k \in Logicals => PtrOf(d, i, k) = BlockLookup(d, i, k)
           /\ i.ind # 0 => i.ind \in BlockNos
  <1>1. i.ind \in Refs /\ i.block \in [0 .. NDirect - 1 -> Refs]
    BY DEF Inodes
  <1>2. i.ind # 0 => i.ind \in BlockNos
    BY <1>1, Numbers DEF Refs, BlockNos
  <1>3. i.ind # 0 => d.blk[i.ind].ptrs \in [0 .. PtrsPerBlock - 1 -> Refs]
    BY <1>2, DiskFacts
  <1>4. 0 \in Refs
    BY Numbers DEF Refs
  <1>5. CASE k < NDirect
    <2>1. k \in 0 .. NDirect - 1 /\ k # MaxLen /\ ~(k \in NDirect .. MaxLen - 1)
      BY <1>5, Numbers DEF Slots
    <2>2. PtrOf(d, i, k) = i.block[k]
      BY <1>5, <2>1 DEF PtrOf, BlockLookup
    <2> QED
      BY <1>1, <1>2, <2>1, <2>2, Numbers, Zenon DEF Logicals, Slots, PtrOf
  <1>6. CASE k = MaxLen
    BY <1>1, <1>2, <1>6, Numbers DEF PtrOf, Logicals
  <1>7. CASE k \in NDirect .. MaxLen - 1
    <2>1. k - NDirect \in 0 .. PtrsPerBlock - 1 /\ k # MaxLen /\ ~(k < NDirect)
      BY <1>7, Numbers
    <2>2. PtrOf(d, i, k) = IF i.ind = 0 THEN 0 ELSE d.blk[i.ind].ptrs[k - NDirect]
      BY <1>7, <2>1 DEF PtrOf, BlockLookup
    <2> QED
      BY <1>2, <1>3, <1>4, <2>1, <2>2, Zenon DEF PtrOf
  <1> QED
    BY <1>5, <1>6, <1>7, Numbers DEF Slots

----------------------------------------------------------------------------
(* The invariant of the disk *)

\* A name in entry o of logical block l of directory p, whether the size of the
\* directory reaches it or not; "." and ".." are not names.
Live(d, p, l, o) ==
    /\ d.inode[p].mode = "dir" /\ Ptr(d, p, l) # 0
    /\ o \in DOMAIN d.blk[Ptr(d, p, l)].ents
    /\ d.blk[Ptr(d, p, l)].ents[o].inode # 0
    /\ d.blk[Ptr(d, p, l)].ents[o].name \notin {".", ".."}

To(d, p, l, o)   == d.blk[Ptr(d, p, l)].ents[o].inode
Kind(d, p, l, o) == d.blk[Ptr(d, p, l)].ents[o].type

\* An inode in transit: n is being named, renamed or removed, has names at most
\* in the places of at, and is counted among the subdirectories of home.
Transits == [n : 0 .. NInodes, type : Modes, home : 0 .. NInodes,
             at : SUBSET (InodeNos \X Logicals \X Offs)]

None == [n |-> 0, type |-> "none", home |-> 0, at |-> {}]

\* R holds the inodes in use, the root among them.
Used(d, R) ==
    /\ Root \in R /\ R \subseteq d.ibm /\ d.inode[Root].mode = "dir"
    /\ \A m \in R : d.inode[m].mode \in {"file", "dir"}

\* A block that is referred to is marked used and referred to once.
Own(d, R) ==
    \A m \in R, k \in Slots : Ptr(d, m, k) # 0 =>
        /\ Ptr(d, m, k) \in d.bbm
        /\ \A j \in R, h \in Slots : Ptr(d, j, h) = Ptr(d, m, k) => j = m /\ h = k

\* Every directory has a block, which begins with "." and "..".
Headed(f) ==
    /\ 0 \in DOMAIN f /\ f[0].name = "." /\ f[0].len = 1
    /\ 1 \in DOMAIN f /\ f[1].name = ".."

Heads(d, R) ==
    \A m \in R : d.inode[m].mode = "dir" =>
        /\ d.inode[m].blocks >= 1 /\ Ptr(d, m, 0) # 0
        /\ Headed(d.blk[Ptr(d, m, 0)].ents)

DotDot(d, m) == d.blk[Ptr(d, m, 0)].ents[1].inode

\* A name leads to an inode in use and has its type.
Leads(d, R) ==
    \A p \in R, l \in Logicals, o \in Offs : Live(d, p, l, o) =>
        /\ To(d, p, l, o) \in R /\ To(d, p, l, o) # Root
        /\ Kind(d, p, l, o) = d.inode[To(d, p, l, o)].mode

\* Only the inode in transit may have several names.
OneName(d, R, c) ==
    \A p, q \in R, l, h \in Logicals, o, u \in Offs :
        /\ Live(d, p, l, o) /\ Live(d, q, h, u)
        /\ To(d, p, l, o) = To(d, q, h, u) /\ To(d, p, l, o) # c.n
        => p = q /\ l = h /\ o = u

NamedAt(d, R, c) ==
    \A p \in R, l \in Logicals, o \in Offs :
        Live(d, p, l, o) /\ To(d, p, l, o) = c.n => <<p, l, o>> \in c.at

\* ".." of a directory is where its name is.
Parents(d, R, c) ==
    /\ \A p \in R, l \in Logicals, o \in Offs :
          /\ Live(d, p, l, o) /\ To(d, p, l, o) # c.n /\ Kind(d, p, l, o) = "dir"
          => DotDot(d, To(d, p, l, o)) = p
    /\ c.home # 0 => DotDot(d, c.n) = c.home

\* The subdirectories that the link count of p accounts for.
Kids(d, p) ==
    {m \in InodeNos : \E l \in Logicals, o \in Offs :
        Live(d, p, l, o) /\ To(d, p, l, o) = m /\ Kind(d, p, l, o) = "dir"}

Crowd(d, c, p) == (Kids(d, p) \ {c.n}) \cup (IF p = c.home THEN {c.n} ELSE {})

Linked(d, R, c) ==
    \A m \in R :
        /\ d.inode[m].mode = "file" => d.inode[m].links = 1
        /\ d.inode[m].mode = "dir" => d.inode[m].links >= 2 + Cardinality(Crowd(d, c, m))

Carried(d, R, c) == c.n # 0 => c.n \in R /\ c.n # Root /\ d.inode[c.n].mode = c.type
Typed(c)         == c \in Transits /\ (c.home # 0 => c.n # 0 /\ c.type = "dir")

Good(d, R, c) ==
    /\ d \in Disks /\ R \in SUBSET InodeNos /\ Typed(c)
    /\ Used(d, R) /\ Own(d, R) /\ Heads(d, R) /\ Leads(d, R)
    /\ OneName(d, R, c) /\ NamedAt(d, R, c) /\ Parents(d, R, c) /\ Linked(d, R, c)
    /\ Carried(d, R, c)

OKDisk(d) == \E R \in SUBSET InodeNos : Good(d, R, None)

LEMMA InodeNosFinite ==
    /\ IsFiniteSet(InodeNos) /\ IsFiniteSet(0 .. NInodes)
    /\ \A S \in SUBSET (0 .. NInodes) : IsFiniteSet(S) /\ Cardinality(S) \in Nat
    /\ \A S, T \in SUBSET (0 .. NInodes) : S \subseteq T => Cardinality(S) <= Cardinality(T)
  <1>1. IsFiniteSet(0 .. NInodes) /\ IsFiniteSet(InodeNos)
    BY Numbers, FS_Interval DEF InodeNos
  <1>2. \A S \in SUBSET (0 .. NInodes) : IsFiniteSet(S) /\ Cardinality(S) \in Nat
    BY <1>1, FS_Subset, FS_CardinalityType, Zenon
  <1>3. \A S, T \in SUBSET (0 .. NInodes) : S \subseteq T => Cardinality(S) <= Cardinality(T)
    BY <1>2, FS_Subset, Zenon
  <1> QED
    BY <1>1, <1>2, <1>3

LEMMA CrowdFacts ==
    ASSUME NEW d \in Disks, NEW c, Typed(c), NEW p
    PROVE  /\ Kids(d, p) \in SUBSET InodeNos
           /\ Crowd(d, c, p) \in SUBSET (0 .. NInodes)
           /\ Cardinality(Crowd(d, c, p)) \in Nat
  <1>1. Kids(d, p) \in SUBSET InodeNos /\ c.n \in 0 .. NInodes
    BY DEF Kids, Typed, Transits
  <1>2. Crowd(d, c, p) \in SUBSET (0 .. NInodes)
    BY <1>1 DEF Crowd, InodeNos
  <1> QED
    BY <1>1, <1>2, InodeNosFinite

\* A name of e that d does not have is one of the inode in transit, in its place.
Kept(d, e, p, l, o) ==
    /\ Live(d, p, l, o) /\ To(e, p, l, o) = To(d, p, l, o)
    /\ Kind(e, p, l, o) = Kind(d, p, l, o)

Carries(e, c, p, l, o) ==
    /\ c.n # 0 /\ <<p, l, o>> \in c.at
    /\ To(e, p, l, o) = c.n /\ Kind(e, p, l, o) = c.type

NoNewName(d, e, R, c) ==
    \A p \in R, l \in Logicals, o \in Offs :
        Live(e, p, l, o) => Kept(d, e, p, l, o) \/ Carries(e, c, p, l, o)

SameInodes(d, e, R) ==
    \A m \in R : /\ e.inode[m].mode = d.inode[m].mode
                 /\ e.inode[m].links = d.inode[m].links

\* While the inode in transit has no home, its ".." may change.
SameDots(d, e, R, c) ==
    \A m \in R : d.inode[m].mode = "dir" /\ (m # c.n \/ c.home # 0) =>
                     DotDot(e, m) = DotDot(d, m)

LEMMA FewerKids ==
    ASSUME NEW d \in Disks, NEW e \in Disks, NEW R, NEW c, Typed(c), NoNewName(d, e, R, c),
           NEW p \in R
    PROVE  /\ Crowd(e, c, p) \subseteq Crowd(d, c, p)
           /\ Cardinality(Crowd(e, c, p)) <= Cardinality(Crowd(d, c, p))
  <1>1. Kids(e, p) \ {c.n} \subseteq Kids(d, p)
    BY Zenon DEF Kids, NoNewName, Kept, Carries
  <1>2. Crowd(e, c, p) \subseteq Crowd(d, c, p)
    BY <1>1 DEF Crowd
  <1> QED
    BY <1>1, <1>2, CrowdFacts, InodeNosFinite

\* Whatever adds no other name and leaves modes, links and ".." alone is safe.
LEMMA Less ==
    ASSUME NEW d \in Disks, NEW R, NEW c, Good(d, R, c), NEW e \in Disks,
           Used(e, R), Own(e, R), Heads(e, R), NoNewName(d, e, R, c),
           SameInodes(d, e, R), SameDots(d, e, R, c)
    PROVE  Good(e, R, c)
  <1>0. d \in Disks /\ R \in SUBSET InodeNos /\ Typed(c)
    BY DEF Good
  <1>1. Leads(e, R)
    <2> SUFFICES ASSUME NEW p \in R, NEW l \in Logicals, NEW o \in Offs, Live(e, p, l, o)
                 PROVE  /\ To(e, p, l, o) \in R /\ To(e, p, l, o) # Root
                        /\ Kind(e, p, l, o) = e.inode[To(e, p, l, o)].mode
      BY DEF Leads
    <2>1. CASE Kept(d, e, p, l, o)
      BY <2>1 DEF Kept, Good, Leads, SameInodes
    <2>2. CASE Carries(e, c, p, l, o)
      BY <2>2 DEF Carries, Good, Carried, SameInodes
    <2> QED
      BY <2>1, <2>2 DEF NoNewName
  <1>2. OneName(e, R, c)
    <2> SUFFICES ASSUME NEW p \in R, NEW q \in R, NEW l \in Logicals, NEW h \in Logicals,
                        NEW o \in Offs, NEW u \in Offs, Live(e, p, l, o), Live(e, q, h, u),
                        To(e, p, l, o) = To(e, q, h, u), To(e, p, l, o) # c.n
                 PROVE  p = q /\ l = h /\ o = u
      BY DEF OneName
    <2>1. Kept(d, e, p, l, o) /\ Kept(d, e, q, h, u)
      BY Zenon DEF NoNewName, Carries
    <2> QED
      BY <2>1, Zenon DEF Kept, Good, OneName
  <1>3. NamedAt(e, R, c)
    BY DEF Good, NamedAt, NoNewName, Kept, Carries
  <1>4. Parents(e, R, c)
    <2>1. ASSUME NEW p \in R, NEW l \in Logicals, NEW o \in Offs, Live(e, p, l, o),
                 To(e, p, l, o) # c.n, Kind(e, p, l, o) = "dir"
          PROVE  DotDot(e, To(e, p, l, o)) = p
      <3>1. Kept(d, e, p, l, o)
        BY <2>1, Zenon DEF NoNewName, Carries
      <3>2. DotDot(d, To(d, p, l, o)) = p
        BY <2>1, <3>1 DEF Good, Parents, Kept
      <3>3. To(d, p, l, o) \in R /\ d.inode[To(d, p, l, o)].mode = "dir"
        BY <2>1, <3>1 DEF Good, Leads, Kept
      <3> QED
        BY <2>1, <3>1, <3>2, <3>3 DEF SameDots, Kept
    <2>2. c.home # 0 => DotDot(e, c.n) = c.home
      BY DEF Good, Parents, Typed, Carried, SameDots
    <2> QED
      BY <2>1, <2>2 DEF Parents
  <1>5. Linked(e, R, c)
    <2> SUFFICES ASSUME NEW m \in R
                 PROVE  /\ e.inode[m].mode = "file" => e.inode[m].links = 1
                        /\ e.inode[m].mode = "dir" =>
                             e.inode[m].links >= 2 + Cardinality(Crowd(e, c, m))
      BY DEF Linked
    <2>1. /\ d.inode[m].mode = "file" => d.inode[m].links = 1
          /\ d.inode[m].mode = "dir" => d.inode[m].links >= 2 + Cardinality(Crowd(d, c, m))
      BY DEF Good, Linked
    <2>2. e.inode[m].mode = d.inode[m].mode /\ e.inode[m].links = d.inode[m].links
      BY DEF SameInodes
    <2>3. /\ Cardinality(Crowd(e, c, m)) <= Cardinality(Crowd(d, c, m))
          /\ Cardinality(Crowd(e, c, m)) \in Nat /\ Cardinality(Crowd(d, c, m)) \in Nat
      BY <1>0, FewerKids, CrowdFacts
    <2>4. d.inode[m].links \in Nat
      BY <1>0, DiskFacts DEF Inodes
    <2> QED
      BY <2>1, <2>2, <2>3, <2>4
  <1>6. Carried(e, R, c)
    BY DEF Good, Carried, SameInodes
  <1> QED
    BY <1>0, <1>1, <1>2, <1>3, <1>4, <1>5, <1>6 DEF Good

\* Nothing that belongs to the inodes of R changes.
Untouched(d, e, R) ==
    /\ R \subseteq e.ibm
    /\ \A m \in R : e.inode[m] = d.inode[m]
    /\ \A m \in R, k \in Slots : Ptr(d, m, k) # 0 =>
          Ptr(d, m, k) \in e.bbm /\ e.blk[Ptr(d, m, k)] = d.blk[Ptr(d, m, k)]

LEMMA SamePtrs ==
    ASSUME NEW d \in Disks, NEW e \in Disks, NEW m \in InodeNos, NEW k \in Slots,
           e.inode[m] = d.inode[m],
           d.inode[m].ind # 0 => e.blk[d.inode[m].ind].ptrs = d.blk[d.inode[m].ind].ptrs
    PROVE  Ptr(e, m, k) = Ptr(d, m, k)
  <1>1. d.inode[m] \in Inodes
    BY DiskFacts
  <1>2. k < NDirect \/ k \in NDirect .. MaxLen - 1 \/ k = MaxLen
    BY Numbers DEF Slots
  <1> QED
    BY <1>1, <1>2, PtrFacts DEF Ptr

LEMMA Frame ==
    ASSUME NEW d \in Disks, NEW R, NEW c, Good(d, R, c), NEW e \in Disks, Untouched(d, e, R)
    PROVE  Good(e, R, c)
  <1>0. d \in Disks /\ R \in SUBSET InodeNos /\ Typed(c)
    BY DEF Good
  <1>1. ASSUME NEW m \in R, NEW k \in Slots
        PROVE  Ptr(e, m, k) = Ptr(d, m, k)
    <2>1. m \in InodeNos /\ e.inode[m] = d.inode[m] /\ MaxLen \in Slots
      BY <1>0, Numbers DEF Untouched, Slots
    <2>2. Ptr(d, m, MaxLen) = d.inode[m].ind
      BY DEF Ptr, PtrOf
    <2>3. d.inode[m].ind # 0 => e.blk[d.inode[m].ind].ptrs = d.blk[d.inode[m].ind].ptrs
      BY <2>1, <2>2 DEF Untouched
    <2> QED
      BY <1>0, <2>1, <2>3, SamePtrs
  <1>2. Used(e, R)
    BY DEF Good, Used, Untouched
  <1>3. Own(e, R)
    <2> SUFFICES ASSUME NEW m \in R, NEW k \in Slots, Ptr(e, m, k) # 0
                 PROVE  /\ Ptr(e, m, k) \in e.bbm
                        /\ \A j \in R, h \in Slots :
                             Ptr(e, j, h) = Ptr(e, m, k) => j = m /\ h = k
      BY DEF Own
    <2> QED
      BY <1>1 DEF Good, Own, Untouched
  <1>4. \A m \in R, l \in Slots : Ptr(d, m, l) # 0 =>
           e.blk[Ptr(e, m, l)] = d.blk[Ptr(d, m, l)]
    BY <1>1 DEF Untouched
  <1>5. 0 \in Slots /\ \A l \in Logicals : l \in Slots
    BY Numbers DEF Slots, Logicals
  <1>6. Heads(e, R)
    BY <1>1, <1>4, <1>5 DEF Good, Heads, Untouched
  <1>7. NoNewName(d, e, R, c)
    <2> SUFFICES ASSUME NEW p \in R, NEW l \in Logicals, NEW o \in Offs, Live(e, p, l, o)
                 PROVE  Kept(d, e, p, l, o)
      BY DEF NoNewName
    <2>1. Ptr(e, p, l) = Ptr(d, p, l) /\ e.inode[p] = d.inode[p] /\ l \in Slots
      BY <1>1, <1>5 DEF Untouched
    <2>2. Ptr(d, p, l) # 0 /\ e.blk[Ptr(e, p, l)] = d.blk[Ptr(d, p, l)]
      BY <1>4, <2>1 DEF Live
    <2> QED
      BY <2>1, <2>2 DEF Kept, Live, To, Kind
  <1>8. SameInodes(d, e, R) /\ SameDots(d, e, R, c)
    BY <1>1, <1>4, <1>5 DEF SameInodes, SameDots, DotDot, Untouched, Good, Heads
  <1> QED
    BY <1>2, <1>3, <1>6, <1>7, <1>8, Less

\* Blocks that nothing in R refers to.
Unowned(d, R, b) == \A m \in R, k \in Slots : Ptr(d, m, k) # b

LEMMA FreeUnowned ==
    ASSUME NEW d \in Disks, NEW R, NEW c, Good(d, R, c), NEW b, b \notin d.bbm, b # 0
    PROVE  Unowned(d, R, b)
  BY DEF Good, Own, Unowned

PutInode(d, n, i) == [d EXCEPT !.inode[n] = i]
PutBlk(d, b, x)   == [d EXCEPT !.blk[b] = x]
PutBits(d, B, I)  == [d EXCEPT !.bbm = B, !.ibm = I]
PutCount(d, m)    == [d EXCEPT !.count = m]

LEMMA PutInodeFacts ==
    ASSUME NEW d \in Disks, NEW n \in InodeNos, NEW i \in Inodes
    PROVE  /\ PutInode(d, n, i) \in Disks
           /\ PutInode(d, n, i).bbm = d.bbm /\ PutInode(d, n, i).ibm = d.ibm
           /\ PutInode(d, n, i).blk = d.blk
           /\ \A m \in InodeNos :
                PutInode(d, n, i).inode[m] = IF m = n THEN i ELSE d.inode[m]
  <1> DEFINE e == PutInode(d, n, i)
  <1>1. /\ e \in Disks /\ e.bbm = d.bbm /\ e.ibm = d.ibm /\ e.blk = d.blk
        /\ e.inode = [d.inode EXCEPT ![n] = i]
    BY DEF Disks, PutInode
  <1>2. \A m \in InodeNos : e.inode[m] = IF m = n THEN i ELSE d.inode[m]
    BY <1>1, DiskFacts
  <1> QED
    BY <1>1, <1>2

LEMMA PutInodePtrs ==
    ASSUME NEW d \in Disks, NEW n \in InodeNos, NEW i \in Inodes
    PROVE  /\ \A m \in InodeNos \ {n}, k \in Slots : Ptr(PutInode(d, n, i), m, k) = Ptr(d, m, k)
           /\ \A k \in Slots : Ptr(PutInode(d, n, i), n, k) = PtrOf(d, i, k)
  <1> DEFINE e == PutInode(d, n, i)
  <1>1. /\ e \in Disks /\ e.blk = d.blk
        /\ \A m \in InodeNos : e.inode[m] = IF m = n THEN i ELSE d.inode[m]
    BY ONLY d \in Disks, n \in InodeNos, i \in Inodes, PutInodeFacts
  <1> HIDE DEF e
  <1>3. ASSUME NEW m \in InodeNos \ {n}, NEW k \in Slots
        PROVE  Ptr(e, m, k) = Ptr(d, m, k)
    BY <1>1, SamePtrs
  <1>4. ASSUME NEW k \in Slots
        PROVE  Ptr(e, n, k) = PtrOf(d, i, k)
    BY <1>1 DEF Ptr, PtrOf, BlockLookup
  <1> QED
    BY <1>3, <1>4 DEF e

LEMMA PutBlkFacts ==
    ASSUME NEW d \in Disks, NEW b \in BlockNos, NEW x \in Blocks
    PROVE  /\ PutBlk(d, b, x) \in Disks
           /\ PutBlk(d, b, x).bbm = d.bbm /\ PutBlk(d, b, x).ibm = d.ibm
           /\ PutBlk(d, b, x).inode = d.inode
           /\ \A a \in BlockNos : PutBlk(d, b, x).blk[a] = IF a = b THEN x ELSE d.blk[a]
  <1> DEFINE e == PutBlk(d, b, x)
  <1>1. /\ e \in Disks /\ e.bbm = d.bbm /\ e.ibm = d.ibm /\ e.inode = d.inode
        /\ e.blk = [d.blk EXCEPT ![b] = x]
    BY DEF Disks, PutBlk
  <1>2. \A a \in BlockNos : e.blk[a] = IF a = b THEN x ELSE d.blk[a]
    BY <1>1, DiskFacts
  <1> QED
    BY <1>1, <1>2

LEMMA PutBlkPtrs ==
    ASSUME NEW d \in Disks, NEW b \in BlockNos, NEW x \in Blocks, NEW m \in InodeNos,
           d.inode[m].ind # b \/ x.ptrs = d.blk[b].ptrs
    PROVE  \A k \in Slots : Ptr(PutBlk(d, b, x), m, k) = Ptr(d, m, k)
  <1> DEFINE e == PutBlk(d, b, x)
  <1>1. /\ e \in Disks /\ e.inode = d.inode
        /\ \A a \in BlockNos : e.blk[a] = IF a = b THEN x ELSE d.blk[a]
    BY ONLY d \in Disks, b \in BlockNos, x \in Blocks, PutBlkFacts
  <1> HIDE DEF e
  <1>3. ASSUME NEW k \in Slots
        PROVE  Ptr(e, m, k) = Ptr(d, m, k)
    <2>1. d.inode[m].ind # 0 => d.inode[m].ind \in BlockNos
      BY DiskFacts, PtrFacts
    <2>2. d.inode[m].ind # 0 => e.blk[d.inode[m].ind].ptrs = d.blk[d.inode[m].ind].ptrs
      BY <1>1, <2>1
    <2> QED
      BY <1>1, <2>2, SamePtrs
  <1> QED
    BY <1>3 DEF e

LEMMA PutBitsFacts ==
    ASSUME NEW d \in Disks, NEW B \in SUBSET BlockNos, NEW I \in SUBSET InodeNos
    PROVE  /\ PutBits(d, B, I) \in Disks
           /\ PutBits(d, B, I).bbm = B /\ PutBits(d, B, I).ibm = I
           /\ PutBits(d, B, I).inode = d.inode /\ PutBits(d, B, I).blk = d.blk
  BY Zenon DEF Disks, PutBits

LEMMA PutCountFacts ==
    ASSUME NEW d \in Disks, NEW m \in Counts
    PROVE  /\ PutCount(d, m) \in Disks
           /\ PutCount(d, m).bbm = d.bbm /\ PutCount(d, m).ibm = d.ibm
           /\ PutCount(d, m).inode = d.inode /\ PutCount(d, m).blk = d.blk
  BY DEF Disks, PutCount

LEMMA Owned ==
    ASSUME NEW d \in Disks, NEW R, NEW c, Good(d, R, c), NEW m \in R, NEW k \in Slots, Ptr(d, m, k) # 0
    PROVE  /\ Ptr(d, m, k) \in d.bbm /\ Ptr(d, m, k) \in BlockNos
           /\ \A j \in R, h \in Slots : Ptr(d, j, h) = Ptr(d, m, k) => j = m /\ h = k
  <1>1. d \in Disks /\ Own(d, R)
    BY DEF Good
  <1> QED
    BY <1>1, DiskFacts DEF Own

\* Writes to what is not in use.
LEMMA OtherInode ==
    ASSUME NEW d \in Disks, NEW R, NEW c, Good(d, R, c), NEW n \in InodeNos, n \notin R, NEW i \in Inodes
    PROVE  Good(PutInode(d, n, i), R, c)
  <1> DEFINE e == PutInode(d, n, i)
  <1>0. d \in Disks /\ R \in SUBSET InodeNos /\ R \subseteq d.ibm
    BY DEF Good, Used
  <1>1. /\ e \in Disks /\ e.bbm = d.bbm /\ e.ibm = d.ibm /\ e.blk = d.blk
        /\ \A m \in InodeNos : e.inode[m] = IF m = n THEN i ELSE d.inode[m]
    BY ONLY d \in Disks, n \in InodeNos, i \in Inodes, PutInodeFacts
  <1> HIDE DEF e
  <1>2. Untouched(d, e, R)
    BY <1>0, <1>1, Owned DEF Untouched
  <1>3. Good(e, R, c)
    BY <1>1, <1>2, Frame
  <1> QED
    BY <1>3 DEF e

LEMMA OtherBlock ==
    ASSUME NEW d \in Disks, NEW R, NEW c, Good(d, R, c), NEW b \in BlockNos, NEW x \in Blocks,
           Unowned(d, R, b)
    PROVE  Good(PutBlk(d, b, x), R, c)
  <1> DEFINE e == PutBlk(d, b, x)
  <1>0. d \in Disks /\ R \in SUBSET InodeNos /\ R \subseteq d.ibm
    BY DEF Good, Used
  <1>1. /\ e \in Disks /\ e.bbm = d.bbm /\ e.ibm = d.ibm /\ e.inode = d.inode
        /\ \A a \in BlockNos : e.blk[a] = IF a = b THEN x ELSE d.blk[a]
    BY ONLY d \in Disks, b \in BlockNos, x \in Blocks, PutBlkFacts
  <1> HIDE DEF e
  <1>2. Untouched(d, e, R)
    BY <1>0, <1>1, Owned DEF Untouched, Unowned
  <1>3. Good(e, R, c)
    BY <1>1, <1>2, Frame
  <1> QED
    BY <1>3 DEF e

LEMMA OtherCount ==
    ASSUME NEW d \in Disks, NEW R, NEW c, Good(d, R, c), NEW m \in Counts
    PROVE  Good(PutCount(d, m), R, c)
  <1> DEFINE e == PutCount(d, m)
  <1>0. d \in Disks /\ R \in SUBSET InodeNos /\ R \subseteq d.ibm
    BY DEF Good, Used
  <1>1. /\ e \in Disks /\ e.bbm = d.bbm /\ e.ibm = d.ibm /\ e.inode = d.inode /\ e.blk = d.blk
    BY <1>0, PutCountFacts
  <1> HIDE DEF e
  <1>2. Untouched(d, e, R)
    BY <1>0, <1>1, Owned DEF Untouched
  <1>3. Good(e, R, c)
    BY <1>1, <1>2, Frame
  <1> QED
    BY <1>3 DEF e

LEMMA OtherBits ==
    ASSUME NEW d \in Disks, NEW R, NEW c, Good(d, R, c),
           NEW B \in SUBSET BlockNos, NEW I \in SUBSET InodeNos, R \subseteq I,
           \A m \in R, k \in Slots : Ptr(d, m, k) # 0 => Ptr(d, m, k) \in B
    PROVE  Good(PutBits(d, B, I), R, c)
  <1> DEFINE e == PutBits(d, B, I)
  <1>0. d \in Disks
    BY DEF Good
  <1>1. /\ e \in Disks /\ e.bbm = B /\ e.ibm = I /\ e.inode = d.inode /\ e.blk = d.blk
    BY <1>0, PutBitsFacts
  <1> HIDE DEF e
  <1>2. Untouched(d, e, R)
    BY <1>1 DEF Untouched
  <1>3. Good(e, R, c)
    BY <1>1, <1>2, Frame
  <1> QED
    BY <1>3 DEF e

----------------------------------------------------------------------------
(* Transits *)

\* All names of the inode in transit are one, and in its home.
Settled(c) ==
    \A w, v \in c.at : w = v /\ (c.type = "dir" => w[1] = c.home)

LEMMA NoneTyped == Typed(None) /\ Settled(None) /\ None.n = 0 /\ None.home = 0
  BY Numbers DEF Typed, Settled, None, Transits, Modes

LEMMA Settle ==
    ASSUME NEW d \in Disks, NEW R, NEW c, Good(d, R, c), Settled(c)
    PROVE  Good(d, R, None) /\ OKDisk(d)
  <1>0. /\ R \in SUBSET InodeNos /\ Typed(c) /\ None.n = 0 /\ None.home = 0
        /\ Leads(d, R) /\ Carried(d, R, c)
    BY NoneTyped DEF Good
  <1>1. \A p \in R, l \in Logicals, o \in Offs : Live(d, p, l, o) => To(d, p, l, o) # 0
    BY DEF Live, To
  <1>2. ASSUME NEW p \in R, NEW l \in Logicals, NEW o \in Offs, Live(d, p, l, o),
               To(d, p, l, o) = c.n
        PROVE  <<p, l, o>> \in c.at /\ (Kind(d, p, l, o) = "dir" => p = c.home)
    <2>1. <<p, l, o>> \in c.at
      BY <1>2 DEF Good, NamedAt
    <2>2. c.type = "dir" => p = c.home
      BY <2>1 DEF Settled
    <2>3. Kind(d, p, l, o) = c.type
      BY <1>0, <1>1, <1>2 DEF Leads, Carried
    <2> QED
      BY <2>1, <2>2, <2>3
  <1>3. OneName(d, R, None)
    <2> SUFFICES ASSUME NEW p \in R, NEW q \in R, NEW l \in Logicals, NEW h \in Logicals,
                        NEW o \in Offs, NEW u \in Offs, Live(d, p, l, o), Live(d, q, h, u),
                        To(d, p, l, o) = To(d, q, h, u)
                 PROVE  p = q /\ l = h /\ o = u
      BY DEF OneName
    <2>1. CASE To(d, p, l, o) = c.n
      <3>1. <<p, l, o>> \in c.at /\ <<q, h, u>> \in c.at
        BY <1>2, <2>1, Zenon
      <3>2. <<p, l, o>> = <<q, h, u>>
        BY <3>1 DEF Settled
      <3> QED
        BY <3>2
    <2>2. CASE To(d, p, l, o) # c.n
      BY <2>2 DEF Good, OneName
    <2> QED
      BY <2>1, <2>2
  <1>4. NamedAt(d, R, None)
    BY <1>0, <1>1 DEF NamedAt
  <1>5. Parents(d, R, None)
    <2> SUFFICES ASSUME NEW p \in R, NEW l \in Logicals, NEW o \in Offs, Live(d, p, l, o),
                        Kind(d, p, l, o) = "dir"
                 PROVE  DotDot(d, To(d, p, l, o)) = p
      BY <1>0 DEF Parents
    <2>1. CASE To(d, p, l, o) = c.n
      <3>1. p = c.home
        BY <1>2, <2>1, Zenon
      <3>2. p # 0
        BY <1>0, Numbers DEF InodeNos
      <3> QED
        BY <2>1, <3>1, <3>2 DEF Good, Parents
    <2>2. CASE To(d, p, l, o) # c.n
      BY <2>2 DEF Good, Parents
    <2> QED
      BY <2>1, <2>2
  <1>6. Linked(d, R, None)
    <2> SUFFICES ASSUME NEW m \in R
                 PROVE  /\ d.inode[m].mode = "file" => d.inode[m].links = 1
                        /\ d.inode[m].mode = "dir" =>
                             d.inode[m].links >= 2 + Cardinality(Crowd(d, None, m))
      BY DEF Linked
    <2>1. /\ d.inode[m].mode = "file" => d.inode[m].links = 1
          /\ d.inode[m].mode = "dir" => d.inode[m].links >= 2 + Cardinality(Crowd(d, c, m))
      BY DEF Good, Linked
    <2>2. c.n \in Kids(d, m) => m = c.home
      BY <1>2, Zenon DEF Kids
    <2>3. Kids(d, m) \subseteq Crowd(d, c, m)
      BY <2>2 DEF Crowd
    <2>4. m # 0
      BY <1>0, Numbers DEF InodeNos
    <2>5. Crowd(d, None, m) \subseteq Crowd(d, c, m)
      BY <1>0, <2>3, <2>4 DEF Crowd
    <2>6. /\ Cardinality(Crowd(d, None, m)) <= Cardinality(Crowd(d, c, m))
          /\ Cardinality(Crowd(d, None, m)) \in Nat /\ Cardinality(Crowd(d, c, m)) \in Nat
      BY <1>0, <2>5, NoneTyped, CrowdFacts, InodeNosFinite
    <2>7. d.inode[m].links \in Nat
      BY <1>0, DiskFacts DEF Inodes
    <2> QED
      BY <2>1, <2>6, <2>7
  <1>7. Carried(d, R, None)
    BY <1>0 DEF Carried
  <1>8. Good(d, R, None)
    BY <1>0, <1>3, <1>4, <1>5, <1>6, <1>7, NoneTyped DEF Good
  <1> QED
    BY <1>0, <1>8 DEF OKDisk

\* More places may be named.
LEMMA Widen ==
    ASSUME NEW d \in Disks, NEW R, NEW c, Good(d, R, c),
           NEW w \in InodeNos \X Logicals \X Offs
    PROVE  Good(d, R, [c EXCEPT !.at = @ \cup {w}])
  <1> DEFINE e == [c EXCEPT !.at = @ \cup {w}]
  <1>1. c \in Transits /\ Typed(c)
    BY DEF Good, Typed
  <1>2. /\ e \in Transits /\ e.n = c.n /\ e.type = c.type /\ e.home = c.home
        /\ e.at = c.at \cup {w}
    BY <1>1 DEF Transits
  <1> HIDE DEF e
  <1>3. Typed(e) /\ OneName(d, R, e) /\ NamedAt(d, R, e) /\ Parents(d, R, e) /\ Carried(d, R, e)
    BY <1>1, <1>2 DEF Good, Typed, OneName, NamedAt, Parents, Carried
  <1>4. Linked(d, R, e)
    BY <1>2 DEF Good, Linked, Crowd
  <1>5. Good(d, R, e)
    BY <1>3, <1>4 DEF Good
  <1> QED
    BY <1>5 DEF e

----------------------------------------------------------------------------
(* Sessions *)

\* The free counts in memory are those of the bitmaps.
Exact(s) ==
    /\ s.m.blocks = Cardinality(BlockNos \ s.d.bbm)
    /\ s.m.inodes = Cardinality(InodeNos \ s.d.ibm)

\* A session in the course of a call: with g, every image in its log is one that
\* power may be lost at; with x, its counts are exact.
Logged(log) == \A k \in 1 .. Len(log) : OKDisk(log[k])

Mid(s, R, c, g, x) ==
    /\ s \in Sessions /\ Good(s.d, R, c)
    /\ g => Settled(c) /\ Logged(s.log)
    /\ x => Exact(s)

LEMMA SessionFacts ==
    ASSUME NEW s \in Sessions
    PROVE  /\ s.d \in Disks /\ s.m \in Counts /\ s.log \in Seq(Disks)
           /\ s.ok \in BOOLEAN /\ s.out \in Int
           /\ s.m.blocks \in Int /\ s.m.inodes \in Int
  BY DEF Sessions, Counts

\* What a write leaves alone.
Alike(s, t) == t.ok = s.ok /\ t.out = s.out /\ t.marks = s.marks

LEMMA AppendLogged ==
    ASSUME NEW log \in Seq(Disks), NEW d \in Disks, Logged(log), OKDisk(d)
    PROVE  Logged(Append(log, d))
  <1>1. /\ Len(log) \in Nat /\ Len(Append(log, d)) = Len(log) + 1
        /\ Append(log, d)[Len(log) + 1] = d
        /\ \A k \in 1 .. Len(log) : Append(log, d)[k] = log[k]
    BY AppendProperties
  <1>2. ASSUME NEW k \in 1 .. Len(Append(log, d))
        PROVE  OKDisk(Append(log, d)[k])
    <2>1. k \in 1 .. Len(log) \/ k = Len(log) + 1
      BY <1>1
    <2> QED
      BY <1>1, <2>1 DEF Logged
  <1> QED
    BY <1>2 DEF Logged

LEMMA PutFacts ==
    ASSUME NEW s \in Sessions, NEW e \in Disks
    PROVE  /\ Put(s, e) \in Sessions /\ Put(s, e).d = e /\ Put(s, e).m = s.m
           /\ Put(s, e).log = Append(s.log, e) /\ Alike(s, Put(s, e))
  <1> DEFINE a == Append(s.log, e)
  <1>1. a \in Seq(Disks)
    BY SessionFacts, AppendProperties
  <1>2. Put(s, e) = [s EXCEPT !.d = e, !.log = a]
    BY DEF Put
  <1> HIDE DEF a
  <1>3. /\ Put(s, e) \in Sessions /\ Put(s, e).d = e /\ Put(s, e).m = s.m
        /\ Put(s, e).log = a /\ Alike(s, Put(s, e))
    BY <1>1, <1>2, Zenon DEF Sessions, Alike
  <1> QED
    BY <1>3 DEF a

\* The same session seen with another set of inodes, or another transit.
LEMMA Recast ==
    ASSUME NEW s \in Sessions, NEW R, NEW c, NEW g, NEW x, Mid(s, R, c, g, x),
           NEW S, NEW t, Good(s.d, S, t), g => Settled(t)
    PROVE  Mid(s, S, t, g, x)
  BY DEF Mid

\* A write of an image in which the bitmaps are the same.
LEMMA PutMid ==
    ASSUME NEW s \in Sessions, NEW R, NEW c, NEW g, NEW x, Mid(s, R, c, g, x),
           NEW e \in Disks, NEW S, NEW t, Good(e, S, t), g => Settled(t),
           e.bbm = s.d.bbm, e.ibm = s.d.ibm
    PROVE  /\ Mid(Put(s, e), S, t, g, x) /\ Put(s, e) \in Sessions
           /\ Put(s, e).d = e /\ Alike(s, Put(s, e))
  <1>1. /\ Put(s, e) \in Sessions /\ Put(s, e).d = e /\ Put(s, e).m = s.m
        /\ Put(s, e).log = Append(s.log, e) /\ Alike(s, Put(s, e))
    BY PutFacts
  <1>2. ASSUME g
        PROVE  Settled(t) /\ Logged(Put(s, e).log)
    <2>1. Settled(t) /\ Logged(s.log) /\ s.log \in Seq(Disks)
      BY <1>2, SessionFacts DEF Mid
    <2>2. OKDisk(e)
      BY <2>1, Settle
    <2> QED
      BY <1>1, <2>1, <2>2, AppendLogged
  <1>3. ASSUME x
        PROVE  Exact(Put(s, e))
    BY <1>1, <1>3, Zenon DEF Mid, Exact
  <1> QED
    BY <1>1, <1>2, <1>3 DEF Mid

LEMMA WriteInodeMid ==
    ASSUME NEW s \in Sessions, NEW R, NEW c, NEW g, NEW x, Mid(s, R, c, g, x),
           NEW n \in InodeNos, NEW i \in Inodes,
           NEW S, NEW t, Good(PutInode(s.d, n, i), S, t), g => Settled(t)
    PROVE  /\ Mid(WriteInode(s, n, i), S, t, g, x) /\ WriteInode(s, n, i) \in Sessions
           /\ WriteInode(s, n, i).d = PutInode(s.d, n, i) /\ Alike(s, WriteInode(s, n, i))
  <1> DEFINE e == PutInode(s.d, n, i)
  <1>0. s.d \in Disks
    BY SessionFacts
  <1>1. e \in Disks /\ e.bbm = s.d.bbm /\ e.ibm = s.d.ibm
    BY ONLY <1>0, n \in InodeNos, i \in Inodes, PutInodeFacts
  <1>2. WriteInode(s, n, i) = Put(s, e)
    BY DEF WriteInode, PutInode
  <1>3. Good(e, S, t)
    OBVIOUS
  <1> HIDE DEF e
  <1>4. /\ Mid(Put(s, e), S, t, g, x) /\ Put(s, e) \in Sessions
        /\ Put(s, e).d = e /\ Alike(s, Put(s, e))
    BY <1>1, <1>3, PutMid
  <1> QED
    BY <1>2, <1>4 DEF e

LEMMA WriteBlockMid ==
    ASSUME NEW s \in Sessions, NEW R, NEW c, NEW g, NEW x, Mid(s, R, c, g, x),
           NEW b \in BlockNos, NEW y \in Blocks,
           NEW S, NEW t, Good(PutBlk(s.d, b, y), S, t), g => Settled(t)
    PROVE  /\ Mid(WriteBlock(s, b, y), S, t, g, x) /\ WriteBlock(s, b, y) \in Sessions
           /\ WriteBlock(s, b, y).d = PutBlk(s.d, b, y) /\ Alike(s, WriteBlock(s, b, y))
  <1> DEFINE e == PutBlk(s.d, b, y)
  <1>0. s.d \in Disks
    BY SessionFacts
  <1>1. e \in Disks /\ e.bbm = s.d.bbm /\ e.ibm = s.d.ibm
    BY ONLY <1>0, b \in BlockNos, y \in Blocks, PutBlkFacts
  <1>2. WriteBlock(s, b, y) = Put(s, e)
    BY DEF WriteBlock, PutBlk
  <1>3. Good(e, S, t)
    OBVIOUS
  <1> HIDE DEF e
  <1>4. /\ Mid(Put(s, e), S, t, g, x) /\ Put(s, e) \in Sessions
        /\ Put(s, e).d = e /\ Alike(s, Put(s, e))
    BY <1>1, <1>3, PutMid
  <1> QED
    BY <1>2, <1>4 DEF e

LEMMA ReturnMid ==
    ASSUME NEW s \in Sessions, NEW R, NEW c, NEW g, NEW x, Mid(s, R, c, g, x), NEW v \in Int
    PROVE  /\ Mid(Return(s, v), R, c, g, x) /\ Return(s, v) \in Sessions
           /\ Return(s, v).d = s.d /\ Return(s, v).marks = s.marks
           /\ Return(s, v).ok = TRUE /\ Return(s, v).out = v
           /\ Mid(Fail(s), R, c, g, x) /\ Fail(s) \in Sessions
           /\ Fail(s).d = s.d /\ Fail(s).marks = s.marks
           /\ Fail(s).ok = FALSE /\ Fail(s).out = 0
  <1>1. /\ Return(s, v) \in Sessions /\ Return(s, v).d = s.d /\ Return(s, v).m = s.m
        /\ Return(s, v).log = s.log /\ Return(s, v).marks = s.marks
        /\ Return(s, v).ok = TRUE /\ Return(s, v).out = v
    BY Zenon DEF Sessions, Return
  <1>2. /\ Fail(s) \in Sessions /\ Fail(s).d = s.d /\ Fail(s).m = s.m
        /\ Fail(s).log = s.log /\ Fail(s).marks = s.marks
        /\ Fail(s).ok = FALSE /\ Fail(s).out = 0
    <2>1. 0 \in Int /\ FALSE \in BOOLEAN
      OBVIOUS
    <2> QED
      BY <2>1, Zenon DEF Sessions, Fail
  <1>3. Exact(s) => Exact(Return(s, v)) /\ Exact(Fail(s))
    BY <1>1, <1>2 DEF Exact
  <1> QED
    BY <1>1, <1>2, <1>3 DEF Mid

LEMMA Bits ==
    /\ IsFiniteSet(BlockNos) /\ IsFiniteSet(InodeNos)
    /\ \A B \in SUBSET BlockNos, b \in BlockNos :
         /\ Cardinality(BlockNos \ B) \in Nat
         /\ b \notin B => Cardinality(BlockNos \ (B \cup {b})) = Cardinality(BlockNos \ B) - 1
         /\ b \in B => Cardinality(BlockNos \ (B \ {b})) = Cardinality(BlockNos \ B) + 1
    /\ \A B \in SUBSET InodeNos, b \in InodeNos :
         /\ Cardinality(InodeNos \ B) \in Nat
         /\ b \notin B => Cardinality(InodeNos \ (B \cup {b})) = Cardinality(InodeNos \ B) - 1
         /\ b \in B => Cardinality(InodeNos \ (B \ {b})) = Cardinality(InodeNos \ B) + 1
  <1>1. ASSUME NEW S, IsFiniteSet(S), NEW B \in SUBSET S, NEW b \in S
        PROVE  /\ Cardinality(S \ B) \in Nat
               /\ b \notin B => Cardinality(S \ (B \cup {b})) = Cardinality(S \ B) - 1
               /\ b \in B => Cardinality(S \ (B \ {b})) = Cardinality(S \ B) + 1
    <2>1. IsFiniteSet(S \ B) /\ Cardinality(S \ B) \in Nat
      BY <1>1, FS_Subset, FS_CardinalityType
    <2>2. ASSUME b \notin B
          PROVE  Cardinality(S \ (B \cup {b})) = Cardinality(S \ B) - 1
      <3>1. b \in S \ B /\ S \ (B \cup {b}) = (S \ B) \ {b}
        BY <2>2
      <3>2. Cardinality((S \ B) \ {b})
                = IF b \in S \ B THEN Cardinality(S \ B) - 1 ELSE Cardinality(S \ B)
        BY <2>1, FS_RemoveElement, ZenonT(60)
      <3> QED
        BY <3>1, <3>2, ZenonT(60)
    <2>3. ASSUME b \in B
          PROVE  Cardinality(S \ (B \ {b})) = Cardinality(S \ B) + 1
      <3>1. b \notin S \ B /\ S \ (B \ {b}) = (S \ B) \cup {b}
        BY <2>3
      <3> QED
        BY <2>1, <3>1, FS_AddElement, Zenon
    <2> QED
      BY <2>1, <2>2, <2>3
  <1>2. IsFiniteSet(BlockNos) /\ IsFiniteSet(InodeNos)
    BY Numbers, FS_Interval DEF BlockNos, InodeNos
  <1> QED
    BY <1>1, <1>2, Zenon

\* A write of the bitmaps with the counts that go with them.
Marked(s, e, m) == [Put(s, e) EXCEPT !.m = m]

Fits(s, e, m) ==
    Exact(s) => /\ m.blocks = Cardinality(BlockNos \ e.bbm)
                /\ m.inodes = Cardinality(InodeNos \ e.ibm)

LEMMA MarkedMid ==
    ASSUME NEW s \in Sessions, NEW R, NEW c, NEW g, NEW x, Mid(s, R, c, g, x),
           NEW e \in Disks, Good(e, R, c), NEW m \in Counts,
           Fits(s, e, m)
    PROVE  /\ Mid(Marked(s, e, m), R, c, g, x) /\ Marked(s, e, m) \in Sessions
           /\ Marked(s, e, m).d = e /\ Marked(s, e, m).m = m /\ Alike(s, Marked(s, e, m))
  <1> DEFINE t == Marked(s, e, m)
  <1>0. /\ Put(s, e) \in Sessions /\ Put(s, e).d = e
        /\ Put(s, e).log = Append(s.log, e) /\ Alike(s, Put(s, e))
    BY PutFacts
  <1>1. t \in Sessions /\ t.d = e /\ t.m = m /\ t.log = Append(s.log, e) /\ Alike(s, t)
    BY <1>0 DEF Marked, Sessions, Alike
  <1> HIDE DEF t
  <1>2. ASSUME g
        PROVE  Settled(c) /\ Logged(t.log)
    <2>1. Settled(c) /\ Logged(s.log) /\ s.log \in Seq(Disks)
      BY <1>2, SessionFacts DEF Mid
    <2>2. OKDisk(e)
      BY <2>1, Settle
    <2> QED
      BY <1>1, <2>1, <2>2, AppendLogged
  <1>3. ASSUME x
        PROVE  Exact(t)
    BY <1>1, <1>3 DEF Mid, Exact, Fits
  <1>4. Mid(t, R, c, g, x)
    BY <1>1, <1>2, <1>3 DEF Mid
  <1> QED
    BY <1>1, <1>4 DEF t

----------------------------------------------------------------------------
(* Allocation *)

LEMMA SaveMid ==
    ASSUME NEW s \in Sessions, NEW R, NEW c, NEW g, NEW x, Mid(s, R, c, g, x)
    PROVE  /\ Mid(SaveCounts(s), R, c, g, x) /\ SaveCounts(s) \in Sessions
           /\ SaveCounts(s).d.bbm = s.d.bbm /\ SaveCounts(s).d.ibm = s.d.ibm
           /\ SaveCounts(s).d.inode = s.d.inode /\ SaveCounts(s).d.blk = s.d.blk
           /\ Alike(s, SaveCounts(s))
  <1> DEFINE e == PutCount(s.d, s.m)
  <1>0. s.d \in Disks /\ s.m \in Counts /\ Good(s.d, R, c)
    BY SessionFacts DEF Mid
  <1>1. SaveCounts(s) = Put(s, e)
    BY DEF SaveCounts, PutCount
  <1>2. /\ e \in Disks /\ e.bbm = s.d.bbm /\ e.ibm = s.d.ibm
        /\ e.inode = s.d.inode /\ e.blk = s.d.blk
    BY <1>0, PutCountFacts
  <1>3. Good(e, R, c)
    BY <1>0, OtherCount
  <1> HIDE DEF e
  <1>4. /\ Mid(Put(s, e), R, c, g, x) /\ Put(s, e) \in Sessions
        /\ Put(s, e).d = e /\ Alike(s, Put(s, e))
    <2>1. g => Settled(c)
      BY DEF Mid
    <2> QED
      BY <1>2, <1>3, <2>1, PutMid
  <1> QED
    BY <1>1, <1>2, <1>4

\* A block that was free is taken.
LEMMA TakeBlockMid ==
    ASSUME NEW s \in Sessions, NEW R, NEW c, NEW g, NEW x, Mid(s, R, c, g, x),
           NEW b \in BlockNos, b \notin s.d.bbm
    PROVE  LET t == TakeBlock(s, b)
           IN  /\ Mid(t, R, c, g, x) /\ t \in Sessions
               /\ t.d.bbm = s.d.bbm \cup {b} /\ t.d.ibm = s.d.ibm
               /\ t.d.inode = s.d.inode /\ t.d.blk = s.d.blk
               /\ t.ok = TRUE /\ t.out = b /\ t.marks = s.marks
  <1>0. /\ s.d \in Disks /\ s.m \in Counts /\ Good(s.d, R, c) /\ s.d.bbm \in SUBSET BlockNos
        /\ s.m.blocks \in Int /\ s.m.inodes \in Int /\ s.d.ibm \in SUBSET InodeNos
        /\ b \in Int
    BY SessionFacts, DiskFacts DEF Mid, BlockNos
  <1> DEFINE e == PutBits(s.d, s.d.bbm \cup {b}, s.d.ibm)
             m == [blocks |-> s.m.blocks - 1, inodes |-> s.m.inodes]
             a == Marked(s, e, m)
  <1>1. /\ e \in Disks /\ e.bbm = s.d.bbm \cup {b} /\ e.ibm = s.d.ibm
        /\ e.inode = s.d.inode /\ e.blk = s.d.blk
    BY <1>0, PutBitsFacts
  <1>2. Good(e, R, c)
    <2>1. R \subseteq s.d.ibm
      BY <1>0 DEF Good, Used
    <2>2. \A j \in R, k \in Slots : Ptr(s.d, j, k) # 0 => Ptr(s.d, j, k) \in s.d.bbm \cup {b}
      BY <1>0, Owned
    <2> QED
      BY <1>0, <2>1, <2>2, OtherBits
  <1>3. m \in Counts
    BY <1>0 DEF Counts
  <1>4. e = [s.d EXCEPT !.bbm = @ \cup {b}]
    BY <1>0, Zenon DEF PutBits, Disks
  <1>5. [Put(s, e) EXCEPT !.m.blocks = @ - 1] = a
    <2>1. Put(s, e).m = s.m /\ Put(s, e) \in Sessions
      BY <1>0, <1>1, PutFacts
    <2>2. [s.m EXCEPT !.blocks = s.m.blocks - 1] = m
      BY <1>0 DEF Counts
    <2> HIDE DEF e, m
    <2>3. [Put(s, e) EXCEPT !.m.blocks = @ - 1]
             = [Put(s, e) EXCEPT !.m = [s.m EXCEPT !.blocks = s.m.blocks - 1]]
      BY <2>1 DEF Sessions
    <2> QED
      BY <2>2, <2>3 DEF Marked
  <1>6. TakeBlock(s, b) = Return(SaveCounts(a), b)
    BY <1>4, <1>5, Zenon DEF TakeBlock
  <1>7. Fits(s, e, m)
    BY <1>0, <1>1, Bits, Zenon DEF Exact, Fits
  <1> HIDE DEF e, m
  <1>8. Mid(a, R, c, g, x) /\ a \in Sessions /\ a.d = e /\ a.m = m /\ Alike(s, a)
    BY <1>1, <1>2, <1>3, <1>7, MarkedMid
  <1> HIDE DEF a
  <1> DEFINE v == SaveCounts(a)
  <1>9. /\ Mid(v, R, c, g, x) /\ v \in Sessions
        /\ v.d.bbm = a.d.bbm /\ v.d.ibm = a.d.ibm
        /\ v.d.inode = a.d.inode /\ v.d.blk = a.d.blk /\ Alike(a, v)
    BY <1>8, SaveMid
  <1> HIDE DEF v
  <1>10. /\ Mid(Return(v, b), R, c, g, x) /\ Return(v, b) \in Sessions
         /\ Return(v, b).d = v.d /\ Return(v, b).marks = v.marks
         /\ Return(v, b).ok = TRUE /\ Return(v, b).out = b
    <2>1. b \in Int /\ v \in Sessions /\ Mid(v, R, c, g, x)
      BY <1>0, <1>9
    <2> QED
      BY ONLY <2>1, ReturnMid, ZenonT(60)
  <1>11. TakeBlock(s, b) = Return(v, b)
    BY <1>6 DEF v
  <1> QED
    BY <1>1, <1>8, <1>9, <1>10, <1>11 DEF Alike

\* An inode that was free is taken.
LEMMA TakeInodeMid ==
    ASSUME NEW s \in Sessions, NEW R, NEW c, NEW g, NEW x, Mid(s, R, c, g, x),
           NEW b \in InodeNos, b \notin s.d.ibm
    PROVE  LET t == TakeInode(s, b)
           IN  /\ Mid(t, R, c, g, x) /\ t \in Sessions
               /\ t.d.bbm = s.d.bbm /\ t.d.ibm = s.d.ibm \cup {b}
               /\ t.d.inode = s.d.inode /\ t.d.blk = s.d.blk
               /\ t.ok = TRUE /\ t.out = b /\ t.marks = s.marks
  <1>0. /\ s.d \in Disks /\ s.m \in Counts /\ Good(s.d, R, c) /\ s.d.bbm \in SUBSET BlockNos
        /\ s.m.blocks \in Int /\ s.m.inodes \in Int /\ s.d.ibm \in SUBSET InodeNos
        /\ b \in Int
    BY SessionFacts, DiskFacts DEF Mid, InodeNos
  <1> DEFINE e == PutBits(s.d, s.d.bbm, s.d.ibm \cup {b})
             m == [blocks |-> s.m.blocks, inodes |-> s.m.inodes - 1]
             a == Marked(s, e, m)
  <1>1. /\ e \in Disks /\ e.bbm = s.d.bbm /\ e.ibm = s.d.ibm \cup {b}
        /\ e.inode = s.d.inode /\ e.blk = s.d.blk
    BY <1>0, PutBitsFacts
  <1>2. Good(e, R, c)
    <2>1. R \subseteq s.d.ibm \cup {b}
      BY <1>0 DEF Good, Used
    <2>2. \A j \in R, k \in Slots : Ptr(s.d, j, k) # 0 => Ptr(s.d, j, k) \in s.d.bbm
      BY <1>0, Owned
    <2> QED
      BY <1>0, <2>1, <2>2, OtherBits
  <1>3. m \in Counts
    BY <1>0 DEF Counts
  <1>4. e = [s.d EXCEPT !.ibm = @ \cup {b}]
    BY <1>0, Zenon DEF PutBits, Disks
  <1>5. [Put(s, e) EXCEPT !.m.inodes = @ - 1] = a
    <2>1. Put(s, e).m = s.m /\ Put(s, e) \in Sessions
      BY <1>0, <1>1, PutFacts
    <2>2. [s.m EXCEPT !.inodes = s.m.inodes - 1] = m
      BY <1>0 DEF Counts
    <2> HIDE DEF e, m
    <2>3. [Put(s, e) EXCEPT !.m.inodes = @ - 1]
             = [Put(s, e) EXCEPT !.m = [s.m EXCEPT !.inodes = s.m.inodes - 1]]
      BY <2>1 DEF Sessions
    <2> QED
      BY <2>2, <2>3 DEF Marked
  <1>6. TakeInode(s, b) = Return(SaveCounts(a), b)
    BY <1>4, <1>5, Zenon DEF TakeInode
  <1>7. Fits(s, e, m)
    BY <1>0, <1>1, Bits, Zenon DEF Exact, Fits
  <1> HIDE DEF e, m
  <1>8. Mid(a, R, c, g, x) /\ a \in Sessions /\ a.d = e /\ a.m = m /\ Alike(s, a)
    BY <1>1, <1>2, <1>3, <1>7, MarkedMid
  <1> HIDE DEF a
  <1> DEFINE v == SaveCounts(a)
  <1>9. /\ Mid(v, R, c, g, x) /\ v \in Sessions
        /\ v.d.bbm = a.d.bbm /\ v.d.ibm = a.d.ibm
        /\ v.d.inode = a.d.inode /\ v.d.blk = a.d.blk /\ Alike(a, v)
    BY <1>8, SaveMid
  <1> HIDE DEF v
  <1>10. /\ Mid(Return(v, b), R, c, g, x) /\ Return(v, b) \in Sessions
         /\ Return(v, b).d = v.d /\ Return(v, b).marks = v.marks
         /\ Return(v, b).ok = TRUE /\ Return(v, b).out = b
    <2>1. b \in Int /\ v \in Sessions /\ Mid(v, R, c, g, x)
      BY <1>0, <1>9
    <2> QED
      BY ONLY <2>1, ReturnMid, ZenonT(60)
  <1>11. TakeInode(s, b) = Return(v, b)
    BY <1>6 DEF v
  <1> QED
    BY <1>1, <1>8, <1>9, <1>10, <1>11 DEF Alike

\* What ext2_alloc_block returns was free and belongs to nobody.
LEMMA AllocBlockMid ==
    ASSUME NEW s \in Sessions, NEW R, NEW c, NEW g, NEW x, Mid(s, R, c, g, x)
    PROVE  LET t == AllocBlock(s)
           IN  /\ Mid(t, R, c, g, x) /\ t \in Sessions /\ t.marks = s.marks
               /\ t.d.ibm = s.d.ibm /\ t.d.inode = s.d.inode /\ t.d.blk = s.d.blk
               /\ t.ok => /\ t.out \in BlockNos /\ t.out \notin s.d.bbm
                          /\ t.d.bbm = s.d.bbm \cup {t.out}
               /\ ~t.ok => t.d = s.d /\ t.out = 0
  <1>1. CASE s.m.blocks = 0 \/ BlockNos \subseteq s.d.bbm
    <2>1. AllocBlock(s) = Fail(s)
      BY <1>1 DEF AllocBlock
    <2>2. /\ Mid(Fail(s), R, c, g, x) /\ Fail(s) \in Sessions
          /\ Fail(s).d = s.d /\ Fail(s).marks = s.marks
          /\ Fail(s).ok = FALSE /\ Fail(s).out = 0
      <3>1. 0 \in Int
        OBVIOUS
      <3> QED
        BY <3>1, ReturnMid, Zenon
    <2> QED
      BY <2>1, <2>2
  <1>2. CASE ~(s.m.blocks = 0 \/ BlockNos \subseteq s.d.bbm)
    <2> DEFINE b == Min(BlockNos \ s.d.bbm)
    <2>1. AllocBlock(s) = TakeBlock(s, b)
      BY <1>2 DEF AllocBlock
    <2>2. b \in BlockNos \ s.d.bbm
      <3> DEFINE T == BlockNos \ s.d.bbm
      <3>1. T \subseteq Nat /\ T # {}
        BY <1>2 DEF BlockNos
      <3> HIDE DEF T
      <3>2. Min(T) \in T
        BY <3>1, MinFacts, Zenon
      <3> QED
        BY <3>2 DEF T
    <2> HIDE DEF b
    <2> DEFINE t == TakeBlock(s, b)
    <2>3. /\ Mid(t, R, c, g, x) /\ t \in Sessions
          /\ t.d.bbm = s.d.bbm \cup {b} /\ t.d.ibm = s.d.ibm
          /\ t.d.inode = s.d.inode /\ t.d.blk = s.d.blk
          /\ t.ok = TRUE /\ t.out = b /\ t.marks = s.marks
      BY <2>2, TakeBlockMid, Zenon
    <2> HIDE DEF t
    <2>4. AllocBlock(s) = t
      BY <2>1 DEF t
    <2> QED
      BY <2>2, <2>3, <2>4
  <1> QED
    BY <1>1, <1>2

\* What ext2_alloc_inode returns was free.
LEMMA AllocInodeMid ==
    ASSUME NEW s \in Sessions, NEW R, NEW c, NEW g, NEW x, Mid(s, R, c, g, x)
    PROVE  LET t == AllocInode(s)
           IN  /\ Mid(t, R, c, g, x) /\ t \in Sessions /\ t.marks = s.marks
               /\ t.d.bbm = s.d.bbm /\ t.d.inode = s.d.inode /\ t.d.blk = s.d.blk
               /\ t.ok => /\ t.out \in InodeNos /\ t.out \notin s.d.ibm
                          /\ t.d.ibm = s.d.ibm \cup {t.out}
               /\ ~t.ok => t.d = s.d /\ t.out = 0
  <1>1. CASE s.m.inodes = 0 \/ InodeNos \subseteq s.d.ibm
    <2>1. AllocInode(s) = Fail(s)
      BY <1>1 DEF AllocInode
    <2>2. /\ Mid(Fail(s), R, c, g, x) /\ Fail(s) \in Sessions
          /\ Fail(s).d = s.d /\ Fail(s).marks = s.marks
          /\ Fail(s).ok = FALSE /\ Fail(s).out = 0
      <3>1. 0 \in Int
        OBVIOUS
      <3> QED
        BY <3>1, ReturnMid, Zenon
    <2> QED
      BY <2>1, <2>2
  <1>2. CASE ~(s.m.inodes = 0 \/ InodeNos \subseteq s.d.ibm)
    <2> DEFINE b == Min(InodeNos \ s.d.ibm)
    <2>1. AllocInode(s) = TakeInode(s, b)
      BY <1>2 DEF AllocInode
    <2>2. b \in InodeNos \ s.d.ibm
      <3> DEFINE T == InodeNos \ s.d.ibm
      <3>1. T \subseteq Nat /\ T # {}
        BY <1>2 DEF InodeNos
      <3> HIDE DEF T
      <3>2. Min(T) \in T
        BY <3>1, MinFacts, Zenon
      <3> QED
        BY <3>2 DEF T
    <2> HIDE DEF b
    <2> DEFINE t == TakeInode(s, b)
    <2>3. /\ Mid(t, R, c, g, x) /\ t \in Sessions
          /\ t.d.bbm = s.d.bbm /\ t.d.ibm = s.d.ibm \cup {b}
          /\ t.d.inode = s.d.inode /\ t.d.blk = s.d.blk
          /\ t.ok = TRUE /\ t.out = b /\ t.marks = s.marks
      BY <2>2, TakeInodeMid, Zenon
    <2> HIDE DEF t
    <2>4. AllocInode(s) = t
      BY <2>1 DEF t
    <2> QED
      BY <2>2, <2>3, <2>4
  <1> QED
    BY <1>1, <1>2

\* A block in use that nothing in R refers to is freed.
LEMMA FreeBlockMid ==
    ASSUME NEW s \in Sessions, NEW R, NEW c, NEW g, NEW x, Mid(s, R, c, g, x),
           NEW b \in BlockNos, b \in s.d.bbm, Unowned(s.d, R, b)
    PROVE  LET t == FreeBlock(s, b)
           IN  /\ Mid(t, R, c, g, x) /\ t \in Sessions
               /\ t.d.bbm = s.d.bbm \ {b} /\ t.d.ibm = s.d.ibm
               /\ t.d.inode = s.d.inode /\ t.d.blk = s.d.blk /\ Alike(s, t)
  <1>0. /\ s.d \in Disks /\ s.m \in Counts /\ Good(s.d, R, c) /\ s.d.bbm \in SUBSET BlockNos
        /\ s.m.blocks \in Int /\ s.m.inodes \in Int /\ s.d.ibm \in SUBSET InodeNos
    BY SessionFacts, DiskFacts DEF Mid
  <1> DEFINE e == PutBits(s.d, s.d.bbm \ {b}, s.d.ibm)
             m == [blocks |-> s.m.blocks + 1, inodes |-> s.m.inodes]
             a == Marked(s, e, m)
  <1>1. /\ e \in Disks /\ e.bbm = s.d.bbm \ {b} /\ e.ibm = s.d.ibm
        /\ e.inode = s.d.inode /\ e.blk = s.d.blk
    BY <1>0, PutBitsFacts
  <1>2. Good(e, R, c)
    <2>1. R \subseteq s.d.ibm
      BY <1>0 DEF Good, Used
    <2>2. \A j \in R, k \in Slots : Ptr(s.d, j, k) # 0 => Ptr(s.d, j, k) \in s.d.bbm \ {b}
      BY <1>0, Owned DEF Unowned
    <2> QED
      BY <1>0, <2>1, <2>2, OtherBits
  <1>3. m \in Counts
    BY <1>0 DEF Counts
  <1>4. e = [s.d EXCEPT !.bbm = @ \ {b}]
    BY <1>0, Zenon DEF PutBits, Disks
  <1>5. [Put(s, e) EXCEPT !.m.blocks = @ + 1] = a
    <2>1. Put(s, e).m = s.m /\ Put(s, e) \in Sessions
      BY <1>0, <1>1, PutFacts
    <2>2. [s.m EXCEPT !.blocks = s.m.blocks + 1] = m
      BY <1>0 DEF Counts
    <2> HIDE DEF e, m
    <2>3. [Put(s, e) EXCEPT !.m.blocks = @ + 1]
             = [Put(s, e) EXCEPT !.m = [s.m EXCEPT !.blocks = s.m.blocks + 1]]
      BY <2>1 DEF Sessions
    <2> QED
      BY <2>2, <2>3 DEF Marked
  <1>6. FreeBlock(s, b) = a
    BY <1>4, <1>5, Zenon DEF FreeBlock
  <1>7. Fits(s, e, m)
    BY <1>0, <1>1, Bits, Zenon DEF Exact, Fits
  <1> HIDE DEF e, m
  <1>8. Mid(a, R, c, g, x) /\ a \in Sessions /\ a.d = e /\ a.m = m /\ Alike(s, a)
    BY <1>1, <1>2, <1>3, <1>7, MarkedMid
  <1> HIDE DEF a
  <1> QED
    BY <1>1, <1>6, <1>8

\* An inode that is not in R is freed.
LEMMA FreeInodeMid ==
    ASSUME NEW s \in Sessions, NEW R, NEW c, NEW g, NEW x, Mid(s, R, c, g, x),
           NEW b \in InodeNos, b \in s.d.ibm, b \notin R
    PROVE  LET t == FreeInode(s, b)
           IN  /\ Mid(t, R, c, g, x) /\ t \in Sessions
               /\ t.d.bbm = s.d.bbm /\ t.d.ibm = s.d.ibm \ {b}
               /\ t.d.inode = s.d.inode /\ t.d.blk = s.d.blk /\ Alike(s, t)
  <1>0. /\ s.d \in Disks /\ s.m \in Counts /\ Good(s.d, R, c) /\ s.d.bbm \in SUBSET BlockNos
        /\ s.m.blocks \in Int /\ s.m.inodes \in Int /\ s.d.ibm \in SUBSET InodeNos
    BY SessionFacts, DiskFacts DEF Mid
  <1> DEFINE e == PutBits(s.d, s.d.bbm, s.d.ibm \ {b})
             m == [blocks |-> s.m.blocks, inodes |-> s.m.inodes + 1]
             a == Marked(s, e, m)
  <1>1. /\ e \in Disks /\ e.bbm = s.d.bbm /\ e.ibm = s.d.ibm \ {b}
        /\ e.inode = s.d.inode /\ e.blk = s.d.blk
    BY <1>0, PutBitsFacts
  <1>2. Good(e, R, c)
    <2>1. R \subseteq s.d.ibm \ {b}
      BY <1>0 DEF Good, Used
    <2>2. \A j \in R, k \in Slots : Ptr(s.d, j, k) # 0 => Ptr(s.d, j, k) \in s.d.bbm
      BY <1>0, Owned
    <2> QED
      BY <1>0, <2>1, <2>2, OtherBits
  <1>3. m \in Counts
    BY <1>0 DEF Counts
  <1>4. e = [s.d EXCEPT !.ibm = @ \ {b}]
    BY <1>0, Zenon DEF PutBits, Disks
  <1>5. [Put(s, e) EXCEPT !.m.inodes = @ + 1] = a
    <2>1. Put(s, e).m = s.m /\ Put(s, e) \in Sessions
      BY <1>0, <1>1, PutFacts
    <2>2. [s.m EXCEPT !.inodes = s.m.inodes + 1] = m
      BY <1>0 DEF Counts
    <2> HIDE DEF e, m
    <2>3. [Put(s, e) EXCEPT !.m.inodes = @ + 1]
             = [Put(s, e) EXCEPT !.m = [s.m EXCEPT !.inodes = s.m.inodes + 1]]
      BY <2>1 DEF Sessions
    <2> QED
      BY <2>2, <2>3 DEF Marked
  <1>6. FreeInode(s, b) = a
    BY <1>4, <1>5, Zenon DEF FreeInode
  <1>7. Fits(s, e, m)
    BY <1>0, <1>1, Bits, Zenon DEF Exact, Fits
  <1> HIDE DEF e, m
  <1>8. Mid(a, R, c, g, x) /\ a \in Sessions /\ a.d = e /\ a.m = m /\ Alike(s, a)
    BY <1>1, <1>2, <1>3, <1>7, MarkedMid
  <1> HIDE DEF a
  <1> QED
    BY <1>1, <1>6, <1>8

----------------------------------------------------------------------------
(* Writes to inodes and blocks in use *)

LEMMA SlotFacts ==
    /\ 0 \in Slots /\ 0 \in Logicals /\ MaxLen \in Slots
    /\ \A l \in Logicals : l \in Slots /\ l # MaxLen
    /\ \A m \in InodeNos : m # 0
    /\ \A b \in BlockNos : b # 0 /\ b \in Refs
    /\ \A b \in Refs : b # 0 => b \in BlockNos
    /\ 0 \in Refs /\ 0 \in Offs /\ 1 \in Offs
  BY Numbers DEF Slots, Logicals, InodeNos, BlockNos, Refs, Offs

\* The pointers of e are those of d, or none, or b at slot h or t at slot u of n.
Repointed(d, e, R, n, h, b, u, t) ==
    \A m \in R, k \in Slots :
        \/ Ptr(e, m, k) = 0 \/ Ptr(e, m, k) = Ptr(d, m, k)
        \/ m = n /\ k = h /\ Ptr(e, m, k) = b
        \/ m = n /\ k = u /\ Ptr(e, m, k) = t

\* A block that may be pointed at.
Fresh(d, e, R, b) == b # 0 => b \in e.bbm /\ Unowned(d, R, b)

LEMMA OwnStep ==
    ASSUME NEW d \in Disks, NEW R, NEW c, Good(d, R, c), NEW e \in Disks,
           NEW n, NEW h, NEW b, NEW u, NEW t, Repointed(d, e, R, n, h, b, u, t),
           Fresh(d, e, R, b), Fresh(d, e, R, t), b # t \/ t = 0,
           \A m \in R, k \in Slots : Ptr(d, m, k) # 0 => Ptr(d, m, k) \in e.bbm
    PROVE  Own(e, R)
  <1> SUFFICES ASSUME NEW m \in R, NEW k \in Slots, Ptr(e, m, k) # 0
               PROVE  /\ Ptr(e, m, k) \in e.bbm
                      /\ \A j \in R, i \in Slots :
                           Ptr(e, j, i) = Ptr(e, m, k) => j = m /\ i = k
    BY DEF Own
  <1>1. Ptr(e, m, k) \in e.bbm
    BY DEF Repointed, Fresh
  <1>2. ASSUME NEW j \in R, NEW i \in Slots, Ptr(e, j, i) = Ptr(e, m, k)
        PROVE  j = m /\ i = k
    <2>1. CASE Ptr(e, m, k) = Ptr(d, m, k)
      <3>1. Ptr(d, m, k) # b /\ Ptr(d, m, k) # t /\ Ptr(d, m, k) # 0
        BY <2>1 DEF Fresh, Unowned
      <3>2. Ptr(d, j, i) = Ptr(d, m, k)
        BY <1>2, <2>1, <3>1 DEF Repointed
      <3> QED
        BY <3>1, <3>2 DEF Good, Own
    <2>2. CASE m = n /\ k = h /\ Ptr(e, m, k) = b
      <3>1. Ptr(d, j, i) # b /\ b # t
        BY <2>2 DEF Fresh, Unowned
      <3> QED
        BY <1>2, <2>2, <3>1 DEF Repointed
    <2>3. CASE m = n /\ k = u /\ Ptr(e, m, k) = t
      <3>1. Ptr(d, j, i) # t /\ b # t
        BY <2>3 DEF Fresh, Unowned
      <3> QED
        BY <1>2, <2>3, <3>1 DEF Repointed
    <2> QED
      BY <2>1, <2>2, <2>3 DEF Repointed
  <1> QED
    BY <1>1, <1>2

\* An inode in use gets another size or block count.
LEMMA Resize ==
    ASSUME NEW d \in Disks, NEW R, NEW c, Good(d, R, c), NEW n \in R, NEW i \in Inodes,
           i.mode = d.inode[n].mode, i.links = d.inode[n].links,
           i.block = d.inode[n].block, i.ind = d.inode[n].ind,
           i.mode = "dir" => i.blocks >= 1
    PROVE  /\ Good(PutInode(d, n, i), R, c)
           /\ \A m \in InodeNos, k \in Slots : Ptr(PutInode(d, n, i), m, k) = Ptr(d, m, k)
  <1> DEFINE e == PutInode(d, n, i)
  <1>0. R \in SUBSET InodeNos /\ n \in InodeNos
    BY DEF Good
  <1>1. /\ e \in Disks /\ e.bbm = d.bbm /\ e.ibm = d.ibm /\ e.blk = d.blk
        /\ \A m \in InodeNos : e.inode[m] = IF m = n THEN i ELSE d.inode[m]
    BY ONLY d \in Disks, <1>0, i \in Inodes, PutInodeFacts
  <1>2. /\ \A m \in InodeNos \ {n}, k \in Slots : Ptr(e, m, k) = Ptr(d, m, k)
        /\ \A k \in Slots : Ptr(e, n, k) = PtrOf(d, i, k)
    BY ONLY d \in Disks, <1>0, i \in Inodes, PutInodePtrs
  <1> HIDE DEF e
  <1>3. \A k \in Slots : PtrOf(d, i, k) = Ptr(d, n, k)
    BY DEF Ptr, PtrOf, BlockLookup
  <1>4. \A m \in InodeNos, k \in Slots : Ptr(e, m, k) = Ptr(d, m, k)
    BY <1>2, <1>3
  <1>5. Used(e, R)
    BY <1>0, <1>1 DEF Good, Used
  <1>6. Own(e, R)
    BY <1>0, <1>1, <1>4 DEF Good, Own
  <1>7. Heads(e, R)
    BY <1>0, <1>1, <1>4, SlotFacts DEF Good, Heads
  <1>8. NoNewName(d, e, R, c)
    BY <1>0, <1>1, <1>4, SlotFacts DEF NoNewName, Kept, Live, To, Kind
  <1>9. SameInodes(d, e, R) /\ SameDots(d, e, R, c)
    BY <1>0, <1>1, <1>4, SlotFacts DEF SameInodes, SameDots, DotDot
  <1>10. Good(e, R, c)
    BY <1>1, <1>5, <1>6, <1>7, <1>8, <1>9, Less
  <1> QED
    BY <1>4, <1>10 DEF e

\* The names in the entries f, where they were those of g.
KeptIn(g, f, c, p, l) ==
    \A o \in DOMAIN f : f[o].inode # 0 /\ f[o].name \notin {".", ".."} =>
        \/ o \in DOMAIN g /\ f[o].name = g[o].name /\ f[o].inode = g[o].inode
           /\ f[o].type = g[o].type
        \/ c.n # 0 /\ <<p, l, o>> \in c.at /\ f[o].inode = c.n /\ f[o].type = c.type

\* A block of a directory gets other entries.
LEMMA Rewrite ==
    ASSUME NEW d \in Disks, NEW R, NEW c, Good(d, R, c), NEW p \in R, NEW l \in Logicals,
           NEW b \in BlockNos, b = Ptr(d, p, l), NEW y \in Blocks, y.ptrs = d.blk[b].ptrs,
           d.inode[p].mode = "dir", KeptIn(d.blk[b].ents, y.ents, c, p, l),
           l = 0 => /\ Headed(y.ents)
                    /\ \/ y.ents[1].inode = d.blk[b].ents[1].inode
                       \/ p = c.n /\ c.home = 0
    PROVE  /\ Good(PutBlk(d, b, y), R, c) /\ NoNewName(d, PutBlk(d, b, y), R, c)
           /\ \A m \in InodeNos, k \in Slots : Ptr(PutBlk(d, b, y), m, k) = Ptr(d, m, k)
  <1> DEFINE e == PutBlk(d, b, y)
  <1>0. R \in SUBSET InodeNos /\ p \in InodeNos /\ b # 0 /\ l \in Slots
    BY SlotFacts DEF Good
  <1>1. /\ e \in Disks /\ e.bbm = d.bbm /\ e.ibm = d.ibm /\ e.inode = d.inode
        /\ \A a \in BlockNos : e.blk[a] = IF a = b THEN y ELSE d.blk[a]
    BY ONLY d \in Disks, b \in BlockNos, y \in Blocks, PutBlkFacts
  <1>2. \A m \in InodeNos, k \in Slots : Ptr(e, m, k) = Ptr(d, m, k)
    BY PutBlkPtrs
  <1> HIDE DEF e
  <1>3. \A m \in R, k \in Slots : Ptr(d, m, k) # 0 =>
           /\ Ptr(d, m, k) \in BlockNos
           /\ Ptr(d, m, k) = b => m = p /\ k = l
    BY <1>0, Owned
  <1>5. Used(e, R)
    BY <1>0, <1>1 DEF Good, Used
  <1>6. Own(e, R)
    BY <1>0, <1>1, <1>2 DEF Good, Own
  <1>7. Heads(e, R)
    <2> SUFFICES ASSUME NEW m \in R, e.inode[m].mode = "dir"
                 PROVE  /\ e.inode[m].blocks >= 1 /\ Ptr(e, m, 0) # 0
                        /\ Headed(e.blk[Ptr(e, m, 0)].ents)
      BY DEF Heads
    <2>1. /\ d.inode[m].blocks >= 1 /\ Ptr(d, m, 0) # 0
          /\ Headed(d.blk[Ptr(d, m, 0)].ents)
      BY <1>1 DEF Good, Heads
    <2>2. Ptr(e, m, 0) = Ptr(d, m, 0) /\ Ptr(d, m, 0) \in BlockNos
      BY <1>0, <1>2, <1>3, <2>1, SlotFacts
    <2>3. CASE Ptr(d, m, 0) = b
      BY <1>1, <1>3, <2>1, <2>2, <2>3, SlotFacts
    <2>4. CASE Ptr(d, m, 0) # b
      BY <1>1, <2>1, <2>2, <2>4
    <2> QED
      BY <2>3, <2>4
  <1>8. NoNewName(d, e, R, c)
    <2> SUFFICES ASSUME NEW q \in R, NEW h \in Logicals, NEW o \in Offs, Live(e, q, h, o)
                 PROVE  Kept(d, e, q, h, o) \/ Carries(e, c, q, h, o)
      BY DEF NoNewName
    <2>1. /\ Ptr(e, q, h) = Ptr(d, q, h) /\ Ptr(d, q, h) # 0 /\ Ptr(d, q, h) \in BlockNos
          /\ e.inode[q] = d.inode[q]
      BY <1>0, <1>1, <1>2, <1>3, SlotFacts DEF Live
    <2>2. CASE Ptr(d, q, h) # b
      BY <1>1, <2>1, <2>2 DEF Kept, Live, To, Kind
    <2>3. CASE Ptr(d, q, h) = b
      <3>1. q = p /\ h = l /\ e.blk[Ptr(e, q, h)].ents = y.ents
        BY <1>1, <1>3, <2>1, <2>3, SlotFacts
      <3>2. /\ o \in DOMAIN y.ents /\ y.ents[o].inode # 0
            /\ y.ents[o].name \notin {".", ".."}
        BY <3>1 DEF Live
      <3>3. CASE /\ o \in DOMAIN d.blk[b].ents /\ y.ents[o].name = d.blk[b].ents[o].name
                 /\ y.ents[o].inode = d.blk[b].ents[o].inode
                 /\ y.ents[o].type = d.blk[b].ents[o].type
        BY <2>1, <2>3, <3>1, <3>2, <3>3 DEF Kept, Live, To, Kind
      <3>4. CASE /\ c.n # 0 /\ <<p, l, o>> \in c.at /\ y.ents[o].inode = c.n
                 /\ y.ents[o].type = c.type
        BY <3>1, <3>4 DEF Carries, To, Kind
      <3> QED
        BY <3>2, <3>3, <3>4 DEF KeptIn
    <2> QED
      BY <2>2, <2>3
  <1>9. SameInodes(d, e, R)
    BY <1>1 DEF SameInodes
  <1>10. SameDots(d, e, R, c)
    <2> SUFFICES ASSUME NEW m \in R, d.inode[m].mode = "dir", m # c.n \/ c.home # 0
                 PROVE  DotDot(e, m) = DotDot(d, m)
      BY DEF SameDots
    <2>1. /\ Ptr(e, m, 0) = Ptr(d, m, 0) /\ Ptr(d, m, 0) # 0 /\ Ptr(d, m, 0) \in BlockNos
      BY <1>0, <1>2, <1>3, SlotFacts DEF Good, Heads
    <2>2. Ptr(d, m, 0) = b => m = p /\ l = 0
      BY <1>3, <2>1, SlotFacts
    <2> QED
      BY <1>1, <2>1, <2>2 DEF DotDot
  <1>11. Good(e, R, c)
    BY <1>1, <1>5, <1>6, <1>7, <1>8, <1>9, <1>10, Less
  <1> QED
    BY <1>2, <1>8, <1>11 DEF e

\* Every name in the block b is one of the inode in transit.
Holds(e, b, c, p, l) ==
    \A o \in DOMAIN e.blk[b].ents :
        e.blk[b].ents[o].inode # 0 /\ e.blk[b].ents[o].name \notin {".", ".."} =>
            /\ c.n # 0 /\ <<p, l, o>> \in c.at
            /\ e.blk[b].ents[o].inode = c.n /\ e.blk[b].ents[o].type = c.type

SameEnts(d, e, R) ==
    \A m \in R, l \in Logicals : Ptr(d, m, l) # 0 /\ Ptr(e, m, l) = Ptr(d, m, l) =>
        e.blk[Ptr(d, m, l)].ents = d.blk[Ptr(d, m, l)].ents

SameHeads(d, e, R) ==
    \A m \in R : d.inode[m].mode = "dir" =>
        e.inode[m].blocks >= 1 /\ Ptr(e, m, 0) = Ptr(d, m, 0)

\* A block is linked to an inode, and perhaps a table with it.
LEMMA Attach ==
    ASSUME NEW d \in Disks, NEW R, NEW c, Good(d, R, c), NEW e \in Disks,
           e.bbm = d.bbm, e.ibm = d.ibm,
           NEW p \in R, NEW k \in Slots, NEW b, NEW t,
           Repointed(d, e, R, p, k, b, MaxLen, t),
           Fresh(d, e, R, b), Fresh(d, e, R, t), b # t \/ t = 0,
           d.inode[p].mode = "dir" /\ b # 0 => Holds(e, b, c, p, k),
           SameEnts(d, e, R), SameHeads(d, e, R), SameInodes(d, e, R)
    PROVE  Good(e, R, c)
  <1>0. R \in SUBSET InodeNos
    BY DEF Good
  <1>1. Own(e, R)
    <2>1. \A m \in R, h \in Slots : Ptr(d, m, h) # 0 => Ptr(d, m, h) \in e.bbm
      BY Owned
    <2> QED
      BY <2>1, OwnStep
  <1>2. Used(e, R)
    BY DEF Good, Used, SameInodes
  <1>3. Heads(e, R)
    BY SlotFacts DEF Good, Heads, SameHeads, SameInodes, SameEnts
  <1>4. SameDots(d, e, R, c)
    BY SlotFacts DEF Good, Heads, SameHeads, SameEnts, SameDots, DotDot
  <1>5. NoNewName(d, e, R, c)
    <2> SUFFICES ASSUME NEW q \in R, NEW h \in Logicals, NEW o \in Offs, Live(e, q, h, o)
                 PROVE  Kept(d, e, q, h, o) \/ Carries(e, c, q, h, o)
      BY DEF NoNewName
    <2>1. /\ Ptr(e, q, h) # 0 /\ d.inode[q].mode = "dir" /\ h \in Slots /\ h # MaxLen
      BY SlotFacts DEF Live, SameInodes
    <2>2. CASE Ptr(e, q, h) = Ptr(d, q, h)
      BY <2>1, <2>2 DEF SameEnts, Kept, Live, To, Kind
    <2>3. CASE q = p /\ h = k /\ Ptr(e, q, h) = b
      BY <2>1, <2>3 DEF Holds, Carries, Live, To, Kind
    <2> QED
      BY <2>1, <2>2, <2>3 DEF Repointed
  <1> QED
    BY <1>1, <1>2, <1>3, <1>4, <1>5, Less

----------------------------------------------------------------------------
(* Into transit and out of it *)

\* A name is about to go.
Leaving(d, p, l, o) ==
    [n |-> To(d, p, l, o), type |-> Kind(d, p, l, o),
     home |-> IF Kind(d, p, l, o) = "dir" THEN p ELSE 0, at |-> {<<p, l, o>>}]

LEMMA Leave ==
    ASSUME NEW d \in Disks, NEW R, Good(d, R, None),
           NEW p \in R, NEW l \in Logicals, NEW o \in Offs, Live(d, p, l, o)
    PROVE  Good(d, R, Leaving(d, p, l, o)) /\ Settled(Leaving(d, p, l, o))
  <1> DEFINE c == Leaving(d, p, l, o)
  <1>0. /\ R \in SUBSET InodeNos /\ p \in InodeNos /\ p # 0
        /\ To(d, p, l, o) \in R /\ To(d, p, l, o) # Root /\ To(d, p, l, o) # 0
        /\ To(d, p, l, o) \in InodeNos
        /\ Kind(d, p, l, o) = d.inode[To(d, p, l, o)].mode /\ Kind(d, p, l, o) \in Modes
    BY SlotFacts DEF Good, Leads, Used, Modes
  <1>1. /\ c.n = To(d, p, l, o) /\ c.type = Kind(d, p, l, o) /\ c.at = {<<p, l, o>>}
        /\ c.home = IF Kind(d, p, l, o) = "dir" THEN p ELSE 0
        /\ c \in Transits
    BY <1>0, Numbers DEF Leaving, Transits, InodeNos
  <1> HIDE DEF c
  <1>2. Typed(c) /\ Settled(c)
    BY <1>0, <1>1 DEF Typed, Settled
  <1>3. Carried(d, R, c)
    BY <1>0, <1>1 DEF Carried
  <1>4. \A q \in R, h \in Logicals, u \in Offs :
           Live(d, q, h, u) /\ To(d, q, h, u) = c.n => q = p /\ h = l /\ u = o
    <2>1. None.n = 0
      BY NoneTyped
    <2> QED
      BY <1>0, <1>1, <2>1 DEF Good, OneName
  <1>5. NamedAt(d, R, c)
    BY <1>1, <1>4 DEF NamedAt
  <1>6. OneName(d, R, c)
    <2>1. None.n = 0 /\ \A q \in R, h \in Logicals, u \in Offs :
                           Live(d, q, h, u) => To(d, q, h, u) # 0
      BY NoneTyped DEF Live, To
    <2> QED
      BY <2>1 DEF Good, OneName
  <1>7. Parents(d, R, c)
    <2>1. None.n = 0 /\ \A q \in R, h \in Logicals, u \in Offs :
                           Live(d, q, h, u) => To(d, q, h, u) # 0
      BY NoneTyped DEF Live, To
    <2>2. c.home # 0 => DotDot(d, c.n) = c.home
      BY <1>1, <2>1 DEF Good, Parents
    <2> QED
      BY <2>1, <2>2 DEF Good, Parents
  <1>8. Linked(d, R, c)
    <2> SUFFICES ASSUME NEW m \in R
                 PROVE  Crowd(d, c, m) = Crowd(d, None, m)
      BY DEF Good, Linked
    <2>1. Crowd(d, None, m) = Kids(d, m)
      <3>1. 0 \notin Kids(d, m) /\ m # 0
        BY <1>0, SlotFacts DEF Kids
      <3> QED
        BY <3>1, NoneTyped DEF Crowd
    <2>2. m = c.home => c.n \in Kids(d, m)
      BY <1>0, <1>1, SlotFacts DEF Kids
    <2>3. c.n \in Kids(d, m) => m = c.home
      BY <1>0, <1>1, <1>4 DEF Kids
    <2> QED
      BY <2>1, <2>2, <2>3 DEF Crowd
  <1>9. Good(d, R, c)
    BY <1>0, <1>2, <1>3, <1>5, <1>6, <1>7, <1>8 DEF Good
  <1> QED
    BY <1>2, <1>9 DEF c

\* An inode without a name may be forgotten.
LEMMA Drop ==
    ASSUME NEW d \in Disks, NEW R, NEW c, Good(d, R, c), c.n # 0, c.at = {}
    PROVE  Good(d, R \ {c.n}, None)
  <1> DEFINE S == R \ {c.n}
  <1>0. /\ R \in SUBSET InodeNos /\ S \in SUBSET InodeNos /\ S \subseteq R /\ c.n # Root
        /\ Typed(c) /\ None.n = 0 /\ None.home = 0
    BY NoneTyped DEF Good, Carried
  <1>1. \A p \in S, l \in Logicals, o \in Offs : Live(d, p, l, o) =>
           To(d, p, l, o) # c.n /\ To(d, p, l, o) # 0
    BY <1>0 DEF Good, NamedAt, Live, To
  <1> HIDE DEF S
  <1>2. Used(d, S) /\ Own(d, S) /\ Heads(d, S)
    <2>1. Root \in S
      BY <1>0 DEF Good, Used, S
    <2> QED
      BY <1>0, <2>1 DEF Good, Used, Own, Heads
  <1>3. Leads(d, S)
    BY <1>0, <1>1 DEF Good, Leads, S
  <1>4. OneName(d, S, None) /\ NamedAt(d, S, None) /\ Parents(d, S, None)
    BY <1>0, <1>1 DEF Good, OneName, NamedAt, Parents
  <1>5. Linked(d, S, None)
    <2> SUFFICES ASSUME NEW m \in S
                 PROVE  /\ d.inode[m].mode = "file" => d.inode[m].links = 1
                        /\ d.inode[m].mode = "dir" =>
                             d.inode[m].links >= 2 + Cardinality(Crowd(d, None, m))
      BY DEF Linked
    <2>1. /\ d.inode[m].mode = "file" => d.inode[m].links = 1
          /\ d.inode[m].mode = "dir" => d.inode[m].links >= 2 + Cardinality(Crowd(d, c, m))
          /\ m \in InodeNos
      BY <1>0 DEF Good, Linked
    <2>2. c.n \notin Kids(d, m)
      BY <1>1 DEF Kids
    <2>3. Crowd(d, None, m) \subseteq Crowd(d, c, m)
      BY <1>0, <2>1, <2>2, SlotFacts DEF Crowd
    <2>4. /\ Cardinality(Crowd(d, None, m)) <= Cardinality(Crowd(d, c, m))
          /\ Cardinality(Crowd(d, None, m)) \in Nat /\ Cardinality(Crowd(d, c, m)) \in Nat
      BY <1>0, <2>3, NoneTyped, CrowdFacts, InodeNosFinite
    <2>5. d.inode[m].links \in Nat
      BY <2>1, DiskFacts DEF Inodes
    <2> QED
      BY <2>1, <2>4, <2>5
  <1>6. Carried(d, S, None)
    BY <1>0 DEF Carried
  <1>7. Good(d, S, None)
    BY <1>0, <1>2, <1>3, <1>4, <1>5, <1>6, NoneTyped DEF Good
  <1> QED
    BY <1>7 DEF S

\* A new inode, which has no name yet.
Coming(n, type) == [n |-> n, type |-> type, home |-> 0, at |-> {}]

\* It is a file without blocks, or a directory with the block b.
Blank(d, n, type, b) ==
    /\ d.inode[n].mode = type /\ type \in {"file", "dir"}
    /\ type = "file" => d.inode[n].links = 1 /\ b = 0
    /\ type = "dir" => /\ d.inode[n].links = 2 /\ d.inode[n].blocks >= 1
                       /\ b # 0 /\ b \in d.bbm /\ DOMAIN d.blk[b].ents = {0, 1}
                       /\ Headed(d.blk[b].ents)
    /\ \A k \in Slots : Ptr(d, n, k) = IF k = 0 THEN b ELSE 0

LEMMA Come ==
    ASSUME NEW d \in Disks, NEW R, Good(d, R, None), NEW n \in InodeNos, n \notin R,
           n \in d.ibm, NEW type, NEW b, Blank(d, n, type, b), b # 0 => Unowned(d, R, b)
    PROVE  /\ Good(d, R \cup {n}, Coming(n, type)) /\ Settled(Coming(n, type))
  <1> DEFINE c == Coming(n, type)
             S == R \cup {n}
  <1>0. /\ R \in SUBSET InodeNos /\ S \in SUBSET InodeNos /\ n # 0 /\ Root \in R
        /\ None.n = 0 /\ None.home = 0 /\ type \in Modes
    BY NoneTyped, SlotFacts DEF Good, Used, Blank, Modes
  <1>1. c.n = n /\ c.type = type /\ c.at = {} /\ c.home = 0 /\ c \in Transits
    BY <1>0, Numbers DEF Coming, Transits, InodeNos
  <1> HIDE DEF c
  <1>2. Typed(c) /\ Settled(c) /\ Carried(d, S, c)
    BY <1>0, <1>1 DEF Typed, Settled, Carried, Blank
  <1>3. \A l \in Logicals, o \in Offs : ~Live(d, n, l, o)
    <2> SUFFICES ASSUME NEW l \in Logicals, NEW o \in Offs, Live(d, n, l, o)
                 PROVE  FALSE
      OBVIOUS
    <2>1. l = 0 /\ type = "dir" /\ o \in {0, 1} /\ Ptr(d, n, l) = b
      BY SlotFacts DEF Live, Blank
    <2> QED
      BY <2>1 DEF Live, Blank, Headed
  <1>4. Used(d, S) /\ Heads(d, S)
    BY SlotFacts DEF Good, Used, Heads, Blank
  <1>5. Own(d, S)
    <2> SUFFICES ASSUME NEW m \in S, NEW k \in Slots, Ptr(d, m, k) # 0
                 PROVE  /\ Ptr(d, m, k) \in d.bbm
                        /\ \A j \in S, i \in Slots :
                             Ptr(d, j, i) = Ptr(d, m, k) => j = m /\ i = k
      BY DEF Own
    <2>1. CASE m = n
      <3>1. k = 0 /\ Ptr(d, m, k) = b /\ b # 0 /\ b \in d.bbm
        BY <2>1 DEF Blank
      <3> QED
        BY <2>1, <3>1 DEF Blank, Unowned
    <2>2. CASE m \in R
      <3>1. \A i \in Slots : Ptr(d, n, i) # Ptr(d, m, k)
        BY <2>2 DEF Blank, Unowned
      <3> QED
        BY <2>2, <3>1 DEF Good, Own
    <2> QED
      BY <2>1, <2>2
  <1>6. Leads(d, S)
    BY <1>3 DEF Good, Leads
  <1>7. \A p \in S, l \in Logicals, o \in Offs : Live(d, p, l, o) =>
           /\ p \in R /\ To(d, p, l, o) # n /\ To(d, p, l, o) # 0
    BY <1>3, SMTT(60) DEF Good, Leads, Live, To
  <1>8. OneName(d, S, c) /\ NamedAt(d, S, c) /\ Parents(d, S, c)
    BY <1>0, <1>1, <1>7 DEF Good, OneName, NamedAt, Parents
  <1>9. Linked(d, S, c)
    <2> SUFFICES ASSUME NEW m \in S
                 PROVE  /\ d.inode[m].mode = "file" => d.inode[m].links = 1
                        /\ d.inode[m].mode = "dir" =>
                             d.inode[m].links >= 2 + Cardinality(Crowd(d, c, m))
      BY DEF Linked
    <2>1. CASE m = n
      <3>1. Kids(d, n) = {}
        BY <1>3 DEF Kids
      <3>2. Crowd(d, c, n) = {}
        BY <1>0, <1>1, <3>1 DEF Crowd
      <3>3. Cardinality({}) = 0
        BY FS_EmptySet
      <3> QED
        BY <2>1, <3>2, <3>3 DEF Blank
    <2>2. CASE m \in R
      <3>1. Crowd(d, c, m) = Crowd(d, None, m)
        <4>1. n \notin Kids(d, m) /\ 0 \notin Kids(d, m) /\ m # 0
          BY <1>0, <1>7, <2>2, SlotFacts DEF Kids
        <4> QED
          BY <1>0, <1>1, <4>1 DEF Crowd
      <3> QED
        BY <2>2, <3>1 DEF Good, Linked
    <2> QED
      BY <2>1, <2>2
  <1>10. Good(d, S, c)
    BY <1>0, <1>2, <1>4, <1>5, <1>6, <1>8, <1>9 DEF Good
  <1> QED
    BY <1>2, <1>10 DEF c

----------------------------------------------------------------------------
(* Link counts *)

WithLinks(d, p, v) == PutInode(d, p, [d.inode[p] EXCEPT !.links = v])

\* Only the link count of p changes.
LEMMA LinksFacts ==
    ASSUME NEW d \in Disks, NEW p \in InodeNos, NEW v \in Nat
    PROVE  LET e == WithLinks(d, p, v)
           IN  /\ e \in Disks /\ e.bbm = d.bbm /\ e.ibm = d.ibm /\ e.blk = d.blk
               /\ e.inode[p].links = v
               /\ \A m \in InodeNos : /\ e.inode[m].mode = d.inode[m].mode
                                      /\ e.inode[m].size = d.inode[m].size
                                      /\ e.inode[m].blocks = d.inode[m].blocks
                                      /\ e.inode[m].block = d.inode[m].block
                                      /\ m # p => e.inode[m] = d.inode[m]
               /\ \A m \in InodeNos, k \in Slots : Ptr(e, m, k) = Ptr(d, m, k)
               /\ \A m \in InodeNos, l \in Logicals, o \in Offs :
                    /\ Live(e, m, l, o) <=> Live(d, m, l, o)
                    /\ To(e, m, l, o) = To(d, m, l, o) /\ Kind(e, m, l, o) = Kind(d, m, l, o)
               /\ \A m \in InodeNos : DotDot(e, m) = DotDot(d, m) /\ Kids(e, m) = Kids(d, m)
  <1> DEFINE i == [d.inode[p] EXCEPT !.links = v]
             e == WithLinks(d, p, v)
  <1>0. d.inode[p] \in Inodes
    BY DiskFacts
  <1>1. /\ i \in Inodes /\ i.mode = d.inode[p].mode /\ i.size = d.inode[p].size
        /\ i.blocks = d.inode[p].blocks /\ i.block = d.inode[p].block /\ i.links = v
        /\ i.ind = d.inode[p].ind
    BY <1>0 DEF Inodes
  <1>2. e = PutInode(d, p, i)
    BY DEF WithLinks
  <1> HIDE DEF i, e
  <1>3. /\ e \in Disks /\ e.bbm = d.bbm /\ e.ibm = d.ibm /\ e.blk = d.blk
        /\ \A m \in InodeNos : e.inode[m] = IF m = p THEN i ELSE d.inode[m]
    BY ONLY <1>1, <1>2, d \in Disks, p \in InodeNos, PutInodeFacts
  <1>4. /\ \A m \in InodeNos \ {p}, k \in Slots : Ptr(e, m, k) = Ptr(d, m, k)
        /\ \A k \in Slots : Ptr(e, p, k) = PtrOf(d, i, k)
    BY ONLY <1>1, <1>2, d \in Disks, p \in InodeNos, PutInodePtrs
  <1>5. \A k \in Slots : PtrOf(d, i, k) = Ptr(d, p, k)
    BY <1>1 DEF Ptr, PtrOf, BlockLookup
  <1>6. \A m \in InodeNos, k \in Slots : Ptr(e, m, k) = Ptr(d, m, k)
    BY <1>4, <1>5
  <1>7. \A m \in InodeNos, l \in Logicals, o \in Offs :
           /\ Live(e, m, l, o) <=> Live(d, m, l, o)
           /\ To(e, m, l, o) = To(d, m, l, o) /\ Kind(e, m, l, o) = Kind(d, m, l, o)
    BY <1>1, <1>3, <1>6, SlotFacts DEF Live, To, Kind
  <1>8. \A m \in InodeNos : DotDot(e, m) = DotDot(d, m)
    BY <1>3, <1>6, SlotFacts DEF DotDot
  <1>9. \A m \in InodeNos : Kids(e, m) = Kids(d, m)
    BY <1>7 DEF Kids
  <1>10. \A m \in InodeNos : /\ e.inode[m].mode = d.inode[m].mode
                             /\ e.inode[m].size = d.inode[m].size
                             /\ e.inode[m].blocks = d.inode[m].blocks
                             /\ e.inode[m].block = d.inode[m].block
                             /\ m # p => e.inode[m] = d.inode[m]
    BY <1>1, <1>3
  <1> QED
    BY <1>1, <1>3, <1>6, <1>7, <1>8, <1>9, <1>10 DEF e

At(c, h) == [c EXCEPT !.home = h]

LEMMA AtFacts ==
    ASSUME NEW c, Typed(c), NEW h \in 0 .. NInodes
    PROVE  /\ At(c, h).n = c.n /\ At(c, h).type = c.type /\ At(c, h).at = c.at
           /\ At(c, h).home = h
           /\ (h = 0 \/ (c.n # 0 /\ c.type = "dir")) => Typed(At(c, h))
  BY DEF Typed, Transits, At

\* The inode in transit may come home to p, or leave it.
MayMove(d, c, p, h) ==
    /\ h = 0 \/ h = p
    /\ c.home = 0 \/ c.home = p
    /\ h = 0 \/ (c.n # 0 /\ c.type = "dir" /\ DotDot(d, c.n) = p)

\* The link count of p follows the home of the inode in transit.
LEMMA Relinked ==
    ASSUME NEW d \in Disks, NEW R, NEW c, Good(d, R, c), NEW p \in R,
           d.inode[p].mode = "dir", NEW v \in Nat, NEW h, MayMove(d, c, p, h),
           v >= 2 + Cardinality(Crowd(d, At(c, h), p))
    PROVE  Good(WithLinks(d, p, v), R, At(c, h))
  <1> DEFINE e == WithLinks(d, p, v)
             t == At(c, h)
  <1>0. /\ R \in SUBSET InodeNos /\ p \in InodeNos /\ p # 0 /\ h \in 0 .. NInodes /\ Typed(c)
        /\ h = 0 \/ h = p
        /\ c.home = 0 \/ c.home = p
        /\ h = 0 \/ (c.n # 0 /\ c.type = "dir" /\ DotDot(d, c.n) = p)
    BY SlotFacts, Numbers DEF Good, InodeNos, MayMove
  <1>1. t.n = c.n /\ t.type = c.type /\ t.at = c.at /\ t.home = h /\ Typed(t)
    BY <1>0, AtFacts
  <1> HIDE DEF t
  <1>2. /\ e \in Disks /\ e.bbm = d.bbm /\ e.ibm = d.ibm /\ e.blk = d.blk
        /\ e.inode[p].links = v
        /\ \A m \in InodeNos : /\ e.inode[m].mode = d.inode[m].mode
                               /\ e.inode[m].blocks = d.inode[m].blocks
                               /\ m # p => e.inode[m] = d.inode[m]
        /\ \A m \in InodeNos, k \in Slots : Ptr(e, m, k) = Ptr(d, m, k)
        /\ \A m \in InodeNos, l \in Logicals, o \in Offs :
             /\ Live(e, m, l, o) <=> Live(d, m, l, o)
             /\ To(e, m, l, o) = To(d, m, l, o) /\ Kind(e, m, l, o) = Kind(d, m, l, o)
        /\ \A m \in InodeNos : DotDot(e, m) = DotDot(d, m) /\ Kids(e, m) = Kids(d, m)
    BY <1>0, LinksFacts, SMTT(60)
  <1> HIDE DEF e
  <1>3. Used(e, R) /\ Own(e, R) /\ Heads(e, R)
    BY <1>0, <1>2, SlotFacts DEF Good, Used, Own, Heads
  <1>4. Leads(e, R)
    BY <1>0, <1>2 DEF Good, Leads
  <1>5. OneName(e, R, t) /\ NamedAt(e, R, t)
    BY <1>0, <1>1, <1>2 DEF Good, OneName, NamedAt
  <1>6. Parents(e, R, t)
    <2>1. ASSUME NEW q \in R, NEW l \in Logicals, NEW o \in Offs, Live(e, q, l, o),
                 To(e, q, l, o) # t.n, Kind(e, q, l, o) = "dir"
          PROVE  DotDot(e, To(e, q, l, o)) = q
      <3>1. DotDot(d, To(d, q, l, o)) = q /\ To(d, q, l, o) \in InodeNos
        BY <1>0, <1>1, <1>2, <2>1 DEF Good, Parents, Leads
      <3> QED
        BY <1>0, <1>2, <3>1
    <2>2. t.home # 0 => DotDot(e, t.n) = t.home
      <3>1. c.n # 0 => c.n \in InodeNos
        BY <1>0 DEF Good, Carried
      <3>2. h # 0 => c.n # 0 /\ DotDot(d, c.n) = p /\ h = p
        BY <1>0
      <3> QED
        BY <1>1, <1>2, <3>1, <3>2
    <2> QED
      BY <2>1, <2>2 DEF Parents
  <1>7. Linked(e, R, t)
    <2> SUFFICES ASSUME NEW m \in R
                 PROVE  /\ e.inode[m].mode = "file" => e.inode[m].links = 1
                        /\ e.inode[m].mode = "dir" =>
                             e.inode[m].links >= 2 + Cardinality(Crowd(e, t, m))
      BY DEF Linked
    <2>1. CASE m = p
      <3>1. Crowd(e, t, p) = Crowd(d, t, p)
        BY <1>0, <1>2 DEF Crowd
      <3> QED
        BY <1>0, <1>2, <2>1, <3>1 DEF t
    <2>2. CASE m # p
      <3>1. m # 0 /\ m \in InodeNos
        BY <1>0, SlotFacts
      <3>2. Crowd(e, t, m) = Crowd(d, c, m)
        <4>1. Kids(e, m) = Kids(d, m) /\ t.n = c.n /\ m # t.home /\ m # c.home
          BY <1>0, <1>1, <1>2, <2>2, <3>1
        <4> QED
          BY <4>1 DEF Crowd
      <3>3. e.inode[m] = d.inode[m]
        BY <1>2, <2>2, <3>1
      <3> QED
        BY <3>2, <3>3 DEF Good, Linked
    <2> QED
      BY <2>1, <2>2
  <1>8. Carried(e, R, t)
    BY <1>0, <1>1, <1>2 DEF Good, Carried
  <1>9. Good(e, R, t)
    BY <1>0, <1>1, <1>2, <1>3, <1>4, <1>5, <1>6, <1>7, <1>8 DEF Good
  <1> QED
    BY <1>9 DEF e, t

LEMMA CrowdSize ==
    ASSUME NEW d \in Disks, NEW c, Typed(c), NEW p \in InodeNos
    PROVE  /\ c.home = 0 => /\ c.n \notin Crowd(d, c, p)
                            /\ Cardinality(Crowd(d, At(c, p), p)) = Cardinality(Crowd(d, c, p)) + 1
           /\ c.home = p => Cardinality(Crowd(d, At(c, 0), p)) = Cardinality(Crowd(d, c, p)) - 1
           /\ Cardinality(Crowd(d, c, p)) \in Nat
           /\ At(c, 0) = c \/ c.home # 0
  <1>0. /\ p \in 0 .. NInodes /\ 0 \in 0 .. NInodes /\ p # 0
    BY Numbers DEF InodeNos
  <1>1. /\ At(c, p).n = c.n /\ At(c, p).home = p /\ At(c, 0).n = c.n /\ At(c, 0).home = 0
    BY <1>0, AtFacts
  <1>2. /\ Crowd(d, c, p) \in SUBSET (0 .. NInodes)
        /\ IsFiniteSet(Crowd(d, c, p)) /\ Cardinality(Crowd(d, c, p)) \in Nat
    BY CrowdFacts, InodeNosFinite
  <1>3. ASSUME c.home = 0
        PROVE  /\ c.n \notin Crowd(d, c, p)
               /\ Cardinality(Crowd(d, At(c, p), p)) = Cardinality(Crowd(d, c, p)) + 1
    <2>1. c.n \notin Crowd(d, c, p) /\ Crowd(d, At(c, p), p) = Crowd(d, c, p) \cup {c.n}
      BY <1>0, <1>1, <1>3 DEF Crowd
    <2> QED
      BY <1>2, <2>1, FS_AddElement, Zenon
  <1>4. ASSUME c.home = p
        PROVE  Cardinality(Crowd(d, At(c, 0), p)) = Cardinality(Crowd(d, c, p)) - 1
    <2>1. c.n \in Crowd(d, c, p) /\ Crowd(d, At(c, 0), p) = Crowd(d, c, p) \ {c.n}
      BY <1>0, <1>1, <1>4 DEF Crowd
    <2>2. Cardinality(Crowd(d, c, p) \ {c.n})
              = IF c.n \in Crowd(d, c, p) THEN Cardinality(Crowd(d, c, p)) - 1
                ELSE Cardinality(Crowd(d, c, p))
      BY <1>2, FS_RemoveElement, ZenonT(60)
    <2> QED
      BY <2>1, <2>2, ZenonT(60)
  <1>5. c.home = 0 => At(c, 0) = c
    BY DEF At, Typed, Transits
  <1> QED
    BY <1>2, <1>3, <1>4, <1>5

\* The link count of the new parent of q's child is raised before its ".." is set.
Surplus(d, c, q) == d.inode[q].links >= 3 + Cardinality(Crowd(d, c, q))

LEMMA LinkChange ==
    ASSUME NEW d \in Disks, NEW R, NEW c, Good(d, R, c), NEW p \in R,
           d.inode[p].mode = "dir"
    PROVE  /\ d.inode[p].links \in Nat /\ d.inode[p].links >= 2
           /\ c.home = p => Good(WithLinks(d, p, d.inode[p].links - 1), R, At(c, 0))
           /\ c.home = 0 /\ c.n # 0 /\ c.type = "dir" /\ DotDot(d, c.n) = p =>
                Good(WithLinks(d, p, d.inode[p].links + 1), R, At(c, p))
           /\ c.home = 0 =>
                /\ Good(WithLinks(d, p, d.inode[p].links + 1), R, c)
                /\ Surplus(WithLinks(d, p, d.inode[p].links + 1), c, p)
  <1> DEFINE v == d.inode[p].links
  <1>0. /\ R \in SUBSET InodeNos /\ p \in InodeNos /\ p # 0 /\ Typed(c)
    BY SlotFacts DEF Good
  <1>1. /\ v \in Nat /\ v >= 2 + Cardinality(Crowd(d, c, p))
        /\ Cardinality(Crowd(d, c, p)) \in Nat /\ v >= 2 /\ v + 1 \in Nat /\ v - 1 \in Nat
    <2>1. v \in Nat /\ Cardinality(Crowd(d, c, p)) \in Nat
      BY <1>0, DiskFacts, CrowdFacts DEF Inodes
    <2>2. v >= 2 + Cardinality(Crowd(d, c, p))
      BY DEF Good, Linked
    <2> QED
      BY <2>1, <2>2
  <1> HIDE DEF v
  <1>2. ASSUME c.home = p
        PROVE  Good(WithLinks(d, p, v - 1), R, At(c, 0))
    <2>1. v - 1 >= 2 + Cardinality(Crowd(d, At(c, 0), p))
      BY <1>0, <1>1, <1>2, CrowdSize
    <2>2. MayMove(d, c, p, 0)
      BY <1>2 DEF MayMove
    <2> QED
      BY <1>1, <2>1, <2>2, Relinked
  <1>3. ASSUME c.home = 0, c.n # 0, c.type = "dir", DotDot(d, c.n) = p
        PROVE  Good(WithLinks(d, p, v + 1), R, At(c, p))
    <2>1. v + 1 >= 2 + Cardinality(Crowd(d, At(c, p), p))
      BY <1>0, <1>1, <1>3, CrowdSize
    <2>2. MayMove(d, c, p, p)
      BY <1>3 DEF MayMove
    <2> QED
      BY <1>1, <2>1, <2>2, Relinked
  <1>4. ASSUME c.home = 0
        PROVE  /\ Good(WithLinks(d, p, v + 1), R, c)
               /\ Surplus(WithLinks(d, p, v + 1), c, p)
    <2>1. At(c, 0) = c
      BY <1>0, <1>4, CrowdSize
    <2>2. v + 1 >= 2 + Cardinality(Crowd(d, At(c, 0), p))
      BY <1>1, <2>1
    <2>3. Good(WithLinks(d, p, v + 1), R, At(c, 0))
      <3>1. MayMove(d, c, p, 0)
        BY <1>4 DEF MayMove
      <3> QED
        BY <1>1, <2>2, <3>1, Relinked
    <2> DEFINE e == WithLinks(d, p, v + 1)
    <2>4. e.inode[p].links = v + 1 /\ Kids(e, p) = Kids(d, p)
      BY <1>0, <1>1, LinksFacts, Zenon
    <2> HIDE DEF e
    <2>5. Crowd(e, c, p) = Crowd(d, c, p)
      BY <2>4 DEF Crowd
    <2>6. Surplus(e, c, p)
      BY <1>1, <2>4, <2>5 DEF Surplus
    <2> QED
      BY <2>1, <2>3, <2>6 DEF e
  <1> QED
    BY <1>1, <1>2, <1>3, <1>4 DEF v

\* Once ".." is set, the inode in transit is at home.
LEMMA Home ==
    ASSUME NEW d \in Disks, NEW R, NEW c, Good(d, R, c), NEW q \in R, d.inode[q].mode = "dir",
           c.home = 0, c.n # 0, c.type = "dir", DotDot(d, c.n) = q, Surplus(d, c, q)
    PROVE  Good(d, R, At(c, q))
  <1> DEFINE v == d.inode[q].links
  <1>0. /\ R \in SUBSET InodeNos /\ q \in InodeNos /\ q # 0 /\ Typed(c)
    BY SlotFacts DEF Good
  <1>1. v \in Nat /\ Cardinality(Crowd(d, c, q)) \in Nat /\ d.inode[q] \in Inodes
        /\ d.inode \in [InodeNos -> Inodes]
    BY <1>0, DiskFacts, CrowdFacts DEF Inodes
  <1>2. v >= 2 + Cardinality(Crowd(d, At(c, q), q))
    BY <1>0, <1>1, CrowdSize DEF Surplus
  <1>3. WithLinks(d, q, v) = d
    BY <1>0, <1>1 DEF WithLinks, PutInode, Disks, Inodes
  <1> HIDE DEF v
  <1>4. Good(WithLinks(d, q, v), R, At(c, q))
    <2>1. MayMove(d, c, q, q)
      BY DEF MayMove
    <2> QED
      BY <1>1, <1>2, <2>1, Relinked
  <1> QED
    BY <1>3, <1>4

----------------------------------------------------------------------------
(* What a reader of a directory sees *)

LEMMA MaxFacts ==
    ASSUME NEW n \in Nat, NEW T, T \subseteq 0 .. n, T # {}
    PROVE  Max(T) \in T /\ \A y \in T : y <= Max(T)
  <1> DEFINE S == {n - y : y \in T}
  <1>1. S \subseteq Nat /\ S # {}
    <2>1. \A y \in T : n - y \in Nat
      OBVIOUS
    <2> QED
      BY <2>1
  <1> HIDE DEF S
  <1>2. PICK z \in S : \A y \in S : z <= y
    BY <1>1, SmallestOf, Zenon
  <1>3. PICK x \in T : z = n - x
    BY DEF S
  <1>4. ASSUME NEW y \in T
        PROVE  x >= y
    <2>1. n - y \in S
      BY DEF S
    <2>2. z <= n - y
      BY <1>2, <2>1
    <2> QED
      BY <1>3, <2>2
  <1>5. Max(T) = CHOOSE m \in T : \A y \in T : m >= y
    BY DEF Max
  <1>6. Max(T) \in T /\ \A y \in T : Max(T) >= y
    BY <1>4, <1>5, Zenon
  <1> QED
    BY <1>6

\* Block and offset of a position.
LEMMA Times ==
    ASSUME NEW a \in Int, NEW b \in Int, NEW u \in Nat, a <= b
    PROVE  a * u <= b * u
  OBVIOUS

LEMMA DivMod ==
    ASSUME NEW x \in Nat
    PROVE  /\ x \div BlockUnits \in Nat /\ x % BlockUnits \in Offs
           /\ x = (x \div BlockUnits) * BlockUnits + (x % BlockUnits)
           /\ \A l \in Nat, o \in Offs : x = l * BlockUnits + o =>
                 x \div BlockUnits = l /\ x % BlockUnits = o
           /\ \A y \in Nat : y <= x => y \div BlockUnits <= x \div BlockUnits
  <1> DEFINE u == BlockUnits
  <1>0. u \in Nat /\ u >= 3
    BY Numbers
  <1> HIDE DEF u
  <1>1. \A y \in Nat : /\ y \div u \in Nat /\ y % u \in 0 .. u - 1
                       /\ y = (y \div u) * u + (y % u)
    <2> SUFFICES ASSUME NEW y \in Nat
                 PROVE  /\ y \div u \in Nat /\ y % u \in 0 .. u - 1
                        /\ y = (y \div u) * u + (y % u)
      OBVIOUS
    <2>1. y % u \in 0 .. u - 1 /\ y \div u \in Int
      BY <1>0
    <2>2. y = (y \div u) * u + (y % u)
      BY <1>0
    <2>3. y \div u >= 0
      BY <1>0
    <2> QED
      BY <2>1, <2>2, <2>3
  <1>2. ASSUME NEW l \in Int, NEW k \in Int, NEW o \in 0 .. u - 1, NEW r \in 0 .. u - 1,
               l * u + o <= k * u + r
        PROVE  l <= k
    <2> SUFFICES ASSUME k + 1 <= l
                 PROVE  FALSE
      OBVIOUS
    <2>1. (k + 1) * u <= l * u
      BY <1>0, Times
    <2>2. (k + 1) * u = k * u + u
      BY <1>0
    <2>3. l * u \in Int /\ k * u \in Int
      BY <1>0
    <2> QED
      BY <1>0, <1>2, <2>1, <2>2, <2>3
  <1>3. ASSUME NEW l \in Nat, NEW o \in 0 .. u - 1, x = l * u + o
        PROVE  x \div u = l /\ x % u = o
    <2>1. x \div u \in Nat /\ x % u \in 0 .. u - 1 /\ x = (x \div u) * u + (x % u)
      BY <1>1
    <2>2. x \div u <= l /\ l <= x \div u
      BY <1>2, <1>3, <2>1
    <2>3. x \div u = l
      BY <2>1, <2>2
    <2>4. l * u \in Int
      BY <1>0
    <2> QED
      BY <1>0, <1>3, <2>1, <2>3, <2>4
  <1>4. ASSUME NEW y \in Nat, y <= x
        PROVE  y \div u <= x \div u
    BY <1>1, <1>2, <1>4
  <1> QED
    BY <1>1, <1>3, <1>4 DEF u, Offs

\* The entry at position x of directory p.
EntAt(d, p, x) == d.blk[Ptr(d, p, x \div BlockUnits)].ents[x % BlockUnits]

\* Position x is in a block before the first null pointer, and an entry begins there.
Visible(d, p, x) ==
    /\ x \in Nat /\ x < d.inode[p].size /\ x \div BlockUnits \in Logicals
    /\ \A j \in 0 .. x \div BlockUnits : Ptr(d, p, j) # 0
    /\ x % BlockUnits \in DOMAIN d.blk[Ptr(d, p, x \div BlockUnits)].ents

LEMMA SeenFacts ==
    ASSUME NEW d \in Disks, NEW p \in InodeNos
    PROVE  /\ \A x : x \in DOMAIN Seen(d, d.inode[p]) <=> Visible(d, p, x)
           /\ \A x \in DOMAIN Seen(d, d.inode[p]) :
                /\ Seen(d, d.inode[p])[x] = EntAt(d, p, x)
                /\ x \in Nat /\ x \div BlockUnits \in Logicals /\ x % BlockUnits \in Offs
                /\ x = (x \div BlockUnits) * BlockUnits + (x % BlockUnits)
                /\ Ptr(d, p, x \div BlockUnits) \in BlockNos
                /\ x % BlockUnits \in DOMAIN d.blk[Ptr(d, p, x \div BlockUnits)].ents
                /\ EntAt(d, p, x) \in Entries
                /\ Ptr(d, p, x \div BlockUnits)
                     = BlockLookup(d, d.inode[p], x \div BlockUnits)
  <1> DEFINE i == d.inode[p]
             B == DirBlocks(d, i)
             v == View(d, i)
  <1>0. i \in Inodes /\ i.size \in Nat
    BY DiskFacts DEF Inodes
  <1>1. \A l \in Logicals : Ptr(d, p, l) = BlockLookup(d, i, l)
    BY SlotFacts DEF Ptr, PtrOf
  <1>2. DOMAIN B = {k \in Logicals : \A j \in 0 .. k : Ptr(d, p, j) # 0}
    <2>1. \A k \in Logicals : \A j \in 0 .. k : j \in Logicals
      BY Numbers DEF Logicals
    <2> QED
      BY <1>1, <2>1 DEF DirBlocks, Logicals
  <1>3. \A l \in DOMAIN B : B[l] = Ptr(d, p, l) /\ l \in Logicals /\ l \in Nat
    BY <1>1, <1>2, Numbers DEF DirBlocks, Logicals
  <1>4. \A l \in DOMAIN B : B[l] \in BlockNos
    <2> SUFFICES ASSUME NEW l \in DOMAIN B
                 PROVE  B[l] \in BlockNos
      OBVIOUS
    <2>1. Ptr(d, p, l) # 0 /\ l \in Slots
      BY <1>2, <1>3, SlotFacts, Numbers DEF Logicals
    <2>2. Ptr(d, p, l) \in Refs
      BY <1>0, <2>1, PtrFacts DEF Ptr
    <2> QED
      BY <1>3, <2>1, <2>2, SlotFacts
  <1> HIDE DEF B
  <1>5. \A l \in DOMAIN B : /\ DOMAIN d.blk[B[l]].ents \in SUBSET Offs
                            /\ \A o \in DOMAIN d.blk[B[l]].ents : d.blk[B[l]].ents[o] \in Entries
    BY <1>4, DiskFacts, MapFacts
  <1>6. DOMAIN v = UNION {{l * BlockUnits + o : o \in DOMAIN d.blk[B[l]].ents} : l \in DOMAIN B}
    BY DEF View, EntriesIn, B
  <1>7. \A x \in DOMAIN v : v[x] = d.blk[B[x \div BlockUnits]].ents[x % BlockUnits]
    BY Zenon DEF View, EntriesIn, B
  <1>8. ASSUME NEW x \in DOMAIN v
        PROVE  /\ x \in Nat /\ x \div BlockUnits \in DOMAIN B
               /\ x % BlockUnits \in DOMAIN d.blk[B[x \div BlockUnits]].ents
    <2>1. PICK l \in DOMAIN B : \E o \in DOMAIN d.blk[B[l]].ents : x = l * BlockUnits + o
      BY <1>6
    <2>2. PICK o \in DOMAIN d.blk[B[l]].ents : x = l * BlockUnits + o
      BY <2>1
    <2>3. l \in Nat /\ o \in Offs /\ o \in Nat
      BY <1>3, <1>5, Numbers DEF Offs
    <2>4. x \in Nat
      BY <2>2, <2>3, Numbers
    <2> QED
      BY <2>2, <2>3, <2>4, DivMod
  <1>9. ASSUME NEW x, Visible(d, p, x)
        PROVE  x \in DOMAIN v /\ x < i.size
    <2>1. x \in Nat /\ x \div BlockUnits \in DOMAIN B
      BY <1>2, <1>9 DEF Visible
    <2>2. x % BlockUnits \in DOMAIN d.blk[B[x \div BlockUnits]].ents
      BY <1>3, <1>9, <2>1 DEF Visible
    <2>3. x = (x \div BlockUnits) * BlockUnits + (x % BlockUnits)
      BY <2>1, DivMod
    <2> QED
      BY <1>6, <1>9, <2>1, <2>2, <2>3 DEF Visible
  <1> HIDE DEF v
  <1>10. /\ DOMAIN Seen(d, i) = {y \in DOMAIN v : y < i.size}
         /\ \A x \in DOMAIN Seen(d, i) : Seen(d, i)[x] = v[x]
    BY DEF Seen, WithinSize, v
  <1>11. ASSUME NEW x \in DOMAIN Seen(d, i)
         PROVE  Visible(d, p, x)
    BY <1>2, <1>3, <1>8, <1>10, <1>11 DEF Visible
  <1>12. ASSUME NEW x \in DOMAIN Seen(d, i)
         PROVE  /\ Seen(d, i)[x] = EntAt(d, p, x)
                /\ x \in Nat /\ x \div BlockUnits \in Logicals /\ x % BlockUnits \in Offs
                /\ x = (x \div BlockUnits) * BlockUnits + (x % BlockUnits)
                /\ Ptr(d, p, x \div BlockUnits) \in BlockNos
                /\ x % BlockUnits \in DOMAIN d.blk[Ptr(d, p, x \div BlockUnits)].ents
                /\ EntAt(d, p, x) \in Entries
                /\ Ptr(d, p, x \div BlockUnits) = BlockLookup(d, i, x \div BlockUnits)
    <2>1. x \in DOMAIN v /\ Seen(d, i)[x] = v[x]
      BY <1>10
    <2>2. /\ x \in Nat /\ x \div BlockUnits \in DOMAIN B
          /\ x % BlockUnits \in DOMAIN d.blk[B[x \div BlockUnits]].ents
      BY <1>8, <2>1
    <2>3. B[x \div BlockUnits] = Ptr(d, p, x \div BlockUnits) /\ x \div BlockUnits \in Logicals
      BY <1>3, <2>2
    <2>4. v[x] = EntAt(d, p, x)
      BY <1>7, <2>1, <2>3 DEF EntAt
    <2> QED
      BY <1>1, <1>4, <1>5, <2>1, <2>2, <2>3, <2>4, DivMod DEF EntAt
  <1> QED
    BY <1>9, <1>10, <1>11, <1>12

SeenIn(d, p)      == Seen(d, d.inode[p])
First(d, p, name) == Min(LiveAt(SeenIn(d, p), name))
Hit(d, p, name)   == Min(NamedIn(SeenIn(d, p), name))
Place(p, x)       == <<p, x \div BlockUnits, x % BlockUnits>>

NotDots(name) == name # "." /\ name # ".."

LEMMA NamesFacts ==
    ASSUME NEW name \in Names
    PROVE  NotDots(name) /\ name \in AllNames /\ UnitsOf(name) \in Nat /\ UnitsOf(name) >= 1
  <1>1. name # "." /\ name # ".." /\ name \in AllNames
    BY Ext2DiskAssumption DEF AllNames
  <1> QED
    BY <1>1, Units1 DEF NotDots

\* Positions with a name.
LEMMA PositionFacts ==
    ASSUME NEW d \in Disks, NEW p \in InodeNos, NEW name \in Names
    PROVE  /\ \A x : x \in LiveAt(SeenIn(d, p), name) <=>
                 Visible(d, p, x) /\ EntAt(d, p, x).inode # 0 /\ EntAt(d, p, x).name = name
           /\ \A x : x \in NamedIn(SeenIn(d, p), name) <=>
                 Visible(d, p, x) /\ EntAt(d, p, x).name = name
           /\ LiveAt(SeenIn(d, p), name) # {} =>
                /\ First(d, p, name) \in LiveAt(SeenIn(d, p), name)
                /\ Hit(d, p, name) \in NamedIn(SeenIn(d, p), name)
                /\ Hit(d, p, name) <= First(d, p, name)
                /\ EntAt(d, p, Hit(d, p, name)).inode # 0 =>
                     Hit(d, p, name) = First(d, p, name)
  <1> DEFINE v == SeenIn(d, p)
             L == LiveAt(v, name)
             N == NamedIn(v, name)
  <1>1. \A x : x \in DOMAIN v <=> Visible(d, p, x)
    BY SeenFacts DEF SeenIn
  <1>2. \A x \in DOMAIN v : v[x] = EntAt(d, p, x) /\ x \in Nat
    BY SeenFacts DEF SeenIn
  <1>3. /\ \A x : x \in L <=>
             Visible(d, p, x) /\ EntAt(d, p, x).inode # 0 /\ EntAt(d, p, x).name = name
        /\ \A x : x \in N <=> Visible(d, p, x) /\ EntAt(d, p, x).name = name
    BY <1>1, <1>2 DEF LiveAt, NamedIn
  <1>4. L \subseteq N /\ N \subseteq Nat /\ L \subseteq Nat
    BY <1>2 DEF LiveAt, NamedIn
  <1> HIDE DEF v, L, N
  <1>5. ASSUME L # {}
        PROVE  /\ Min(L) \in L /\ Min(N) \in N /\ Min(N) <= Min(L)
               /\ EntAt(d, p, Min(N)).inode # 0 => Min(N) = Min(L)
    <2>1. N # {}
      BY <1>4, <1>5, Zenon
    <2>2. Min(L) \in L /\ \A y \in L : Min(L) <= y
      BY <1>4, <1>5, MinFacts, Zenon
    <2>3. Min(N) \in N /\ \A y \in N : Min(N) <= y
      BY <1>4, <2>1, MinFacts, Zenon
    <2>4. EntAt(d, p, Min(N)).inode # 0 => Min(N) \in L
      BY <1>3, <2>3
    <2>5. Min(L) \in Nat /\ Min(N) \in Nat /\ Min(N) <= Min(L)
      BY <1>4, <2>2, <2>3, Zenon
    <2>6. Min(N) \in L => Min(L) <= Min(N)
      BY <2>2
    <2>7. Min(N) \in L => Min(N) = Min(L)
      BY <2>5, <2>6
    <2> QED
      BY <2>2, <2>3, <2>4, <2>5, <2>7
  <1> QED
    BY <1>3, <1>5 DEF First, Hit, v, L, N

LEMMA VisibleFacts ==
    ASSUME NEW d \in Disks, NEW p \in InodeNos, NEW x, Visible(d, p, x)
    PROVE  /\ x \in Nat /\ x \div BlockUnits \in Logicals /\ x % BlockUnits \in Offs
           /\ x = (x \div BlockUnits) * BlockUnits + (x % BlockUnits)
           /\ Ptr(d, p, x \div BlockUnits) \in BlockNos
           /\ Ptr(d, p, x \div BlockUnits) # 0
           /\ x % BlockUnits \in DOMAIN d.blk[Ptr(d, p, x \div BlockUnits)].ents
           /\ EntAt(d, p, x) \in Entries
           /\ Ptr(d, p, x \div BlockUnits) = BlockLookup(d, d.inode[p], x \div BlockUnits)
           /\ Place(p, x) \in InodeNos \X Logicals \X Offs
  <1>1. x \in DOMAIN Seen(d, d.inode[p])
    BY SeenFacts
  <1>2. /\ x \in Nat /\ x \div BlockUnits \in Logicals /\ x % BlockUnits \in Offs
        /\ x = (x \div BlockUnits) * BlockUnits + (x % BlockUnits)
        /\ Ptr(d, p, x \div BlockUnits) \in BlockNos
        /\ x % BlockUnits \in DOMAIN d.blk[Ptr(d, p, x \div BlockUnits)].ents
        /\ EntAt(d, p, x) \in Entries
        /\ Ptr(d, p, x \div BlockUnits) = BlockLookup(d, d.inode[p], x \div BlockUnits)
    BY <1>1, SeenFacts
  <1> QED
    BY <1>2, SlotFacts DEF Place

\* What ext2_dir_lookup finds is a name of the directory.
LEMMA LookupFacts ==
    ASSUME NEW d \in Disks, NEW R, NEW c, Good(d, R, c), NEW p \in R, NEW name \in Names,
           DirLookup(d, p, name) # NoEntry
    PROVE  LET x == First(d, p, name)
               e == DirLookup(d, p, name)
               l == x \div BlockUnits
               o == x % BlockUnits
           IN  /\ d.inode[p].mode = "dir" /\ LiveAt(SeenIn(d, p), name) # {}
               /\ x \in LiveAt(SeenIn(d, p), name) /\ Visible(d, p, x)
               /\ l \in Logicals /\ o \in Offs /\ Live(d, p, l, o)
               /\ e = EntAt(d, p, x) /\ e.inode = To(d, p, l, o) /\ e.type = Kind(d, p, l, o)
               /\ e.inode \in R /\ e.inode \in InodeNos /\ e.inode # Root
               /\ e.type = d.inode[e.inode].mode
               /\ e.type \in {"file", "dir"}
  <1> DEFINE x == First(d, p, name)
             e == DirLookup(d, p, name)
             l == x \div BlockUnits
             o == x % BlockUnits
             v == SeenIn(d, p)
  <1>0. R \in SUBSET InodeNos /\ p \in InodeNos
    BY DEF Good
  <1>1. d.inode[p].mode = "dir" /\ e = FindIn(v, name)
    BY DEF DirLookup, SeenIn
  <1>2. LiveAt(v, name) # {} /\ e = v[Min(LiveAt(v, name))]
    BY <1>1 DEF FindIn, FirstOf
  <1>3. x \in LiveAt(v, name) /\ e = v[x]
    BY <1>0, <1>2, PositionFacts DEF First
  <1>4. /\ Visible(d, p, x) /\ EntAt(d, p, x).inode # 0 /\ EntAt(d, p, x).name = name
    BY <1>0, <1>3, PositionFacts
  <1>5. e = EntAt(d, p, x)
    <2>1. x \in DOMAIN v
      BY <1>3 DEF LiveAt
    <2> QED
      BY <1>0, <1>3, <2>1, SeenFacts DEF SeenIn
  <1>6. /\ l \in Logicals /\ o \in Offs /\ Ptr(d, p, l) # 0
        /\ o \in DOMAIN d.blk[Ptr(d, p, l)].ents
    BY <1>0, <1>4, VisibleFacts
  <1> HIDE DEF x, e, v
  <1>7. Live(d, p, l, o) /\ e.inode = To(d, p, l, o) /\ e.type = Kind(d, p, l, o)
    BY <1>1, <1>4, <1>5, <1>6, NamesFacts DEF Live, To, Kind, EntAt, NotDots
  <1> HIDE DEF l, o
  <1>8. /\ e.inode \in R /\ e.inode \in InodeNos /\ e.inode # Root
        /\ e.type = d.inode[e.inode].mode /\ e.type \in {"file", "dir"}
    BY <1>0, <1>6, <1>7 DEF Good, Leads, Used
  <1> QED
    BY <1>1, <1>2, <1>3, <1>4, <1>5, <1>6, <1>7, <1>8 DEF x, e, l, o, v

\* A place without a name of the inode in transit.
Minus(c, w) == [c EXCEPT !.at = @ \ {w}]

LEMMA Narrow ==
    ASSUME NEW d \in Disks, NEW R, NEW c, Good(d, R, c), NEW p, NEW l, NEW o,
           ~(Live(d, p, l, o) /\ To(d, p, l, o) = c.n)
    PROVE  /\ Good(d, R, Minus(c, <<p, l, o>>)) /\ Minus(c, <<p, l, o>>).at = c.at \ {<<p, l, o>>}
           /\ Minus(c, <<p, l, o>>).n = c.n /\ Minus(c, <<p, l, o>>).type = c.type
           /\ Minus(c, <<p, l, o>>).home = c.home
           /\ Settled(c) => Settled(Minus(c, <<p, l, o>>))
  <1> DEFINE w == <<p, l, o>>
             e == Minus(c, w)
  <1>1. c \in Transits /\ Typed(c)
    BY DEF Good, Typed
  <1>2. /\ e \in Transits /\ e.n = c.n /\ e.type = c.type /\ e.home = c.home
        /\ e.at = c.at \ {w}
    BY <1>1 DEF Transits, Minus
  <1> HIDE DEF e
  <1>3. Typed(e) /\ OneName(d, R, e) /\ Parents(d, R, e) /\ Carried(d, R, e)
    BY <1>1, <1>2 DEF Good, Typed, OneName, Parents, Carried
  <1>4. NamedAt(d, R, e)
    <2> SUFFICES ASSUME NEW q \in R, NEW h \in Logicals, NEW u \in Offs,
                        Live(d, q, h, u), To(d, q, h, u) = c.n
                 PROVE  <<q, h, u>> \in c.at /\ <<q, h, u>> # w
      BY <1>2 DEF NamedAt
    <2>1. <<q, h, u>> \in c.at
      BY DEF Good, NamedAt
    <2>2. <<q, h, u>> # w
      <3> SUFFICES ASSUME <<q, h, u>> = <<p, l, o>>
                   PROVE  FALSE
        OBVIOUS
      <3>1. q = p /\ h = l /\ u = o
        OBVIOUS
      <3> QED
        BY <3>1
    <2> QED
      BY <2>1, <2>2
  <1>5. Linked(d, R, e)
    BY <1>2 DEF Good, Linked, Crowd
  <1>6. Good(d, R, e)
    BY <1>3, <1>4, <1>5 DEF Good
  <1>7. Settled(c) => Settled(e)
    BY <1>2 DEF Settled
  <1> QED
    BY <1>2, <1>6, <1>7 DEF e

----------------------------------------------------------------------------
(* ext2_remove_dir_entry *)

\* Without the entry at o the others keep their names and their places.
LEMMA DropFacts ==
    ASSUME NEW f \in EntMaps, NEW o \in DOMAIN f, NotDots(f[o].name)
    PROVE  LET h == DropEntry(f, o)
           IN  /\ h \in EntMaps
               /\ \A y \in DOMAIN h : /\ y \in DOMAIN f /\ h[y].name = f[y].name
                                      /\ h[y].type = f[y].type
                                      /\ y # o => h[y].inode = f[y].inode
                                      /\ y = o => h[y].inode = 0
               /\ Headed(f) => Headed(h) /\ h[1].inode = f[1].inode
  <1> DEFINE h == DropEntry(f, o)
             B == Before(f, o)
  <1>0. /\ DOMAIN f \in SUBSET Offs /\ Tiled(f) /\ o \in Offs
        /\ \A y \in DOMAIN f : f[y] \in Entries /\ y \in Nat
    BY MapFacts
  <1>1. \A y \in DOMAIN f : /\ f[y].len \in 1 .. BlockUnits - y /\ f[y].len \in Nat
                            /\ f[y].inode \in 0 .. NInodes
                            /\ f[y].name \in AllNames /\ f[y].type \in Modes
    BY <1>0, Numbers DEF Tiled, Entries
  <1>2. CASE B = {}
    <2>1. h = [f EXCEPT ![o].inode = 0]
      BY <1>2 DEF DropEntry
    <2> DEFINE z == [f[o] EXCEPT !.inode = 0]
    <2>2. z \in Entries /\ z.name = f[o].name /\ z.type = f[o].type /\ z.inode = 0 /\ z.len = f[o].len
      BY <1>0, Numbers DEF Entries
    <2>3. h = [f EXCEPT ![o] = z]
      BY <2>1
    <2> HIDE DEF z, h
    <2>4. DOMAIN h = DOMAIN f /\ \A y \in DOMAIN f : h[y] = IF y = o THEN z ELSE f[y]
      BY <2>3
    <2>5. h \in [DOMAIN f -> Entries]
      BY <1>0, <2>2, <2>3, Zenon
    <2>6. Tiled(h)
      BY <1>0, <2>2, <2>4 DEF Tiled
    <2>7. h \in EntMaps
      BY <1>0, <2>5, <2>6, MapFacts
    <2>8. ~Headed(f)
      <3> SUFFICES ASSUME Headed(f)
                   PROVE  FALSE
        OBVIOUS
      <3>1. 0 \in DOMAIN f /\ f[0].name = "."
        BY DEF Headed
      <3>2. o # 0
        BY <3>1 DEF NotDots
      <3>3. 0 \in B
        BY <1>0, <3>1, <3>2 DEF Before
      <3> QED
        BY <1>2, <3>3
    <2> QED
      BY <2>2, <2>4, <2>7, <2>8 DEF h
  <1>3. CASE B # {}
    <2> DEFINE q == Max(B)
    <2>1. q \in B /\ \A y \in B : y <= q
      <3>1. B \subseteq 0 .. BlockUnits /\ BlockUnits \in Nat
        BY <1>0, Numbers DEF Before, Offs
      <3> HIDE DEF B
      <3> QED
        BY <1>3, <3>1, MaxFacts, Zenon
    <2>2. h = Merged(f, q, o)
      BY <1>3 DEF DropEntry
    <2> HIDE DEF q, h
    <2>3. q \in DOMAIN f /\ q < o /\ \A y \in DOMAIN f : y < o => y <= q
      BY <2>1 DEF Before
    <2> DEFINE z == [f[q] EXCEPT !.len = f[q].len + f[o].len]
               D == DOMAIN f \ {o}
    <2>4. /\ z \in Entries /\ z.name = f[q].name /\ z.type = f[q].type /\ z.inode = f[q].inode
          /\ z.len = f[q].len + f[o].len
      BY <1>0, <1>1, <2>3 DEF Entries
    <2>5. h = [y \in D |-> IF y = q THEN z ELSE f[y]]
      BY <2>2 DEF Merged
    <2> HIDE DEF z
    <2>6. DOMAIN h = D /\ \A y \in D : h[y] = IF y = q THEN z ELSE f[y]
      BY <2>5
    <2>7. h \in [D -> Entries] /\ D \in SUBSET Offs
      BY <1>0, <2>4, <2>5
    <2>8. q + f[q].len <= o /\ o + f[o].len <= BlockUnits
          /\ q \in Nat /\ o \in Nat /\ f[q].len \in Nat /\ f[o].len \in Nat
          /\ f[q].len >= 1 /\ f[o].len >= 1
      BY <1>0, <1>1, <2>3, Numbers DEF Tiled
    <2>9. Tiled(h)
      <3>1. ASSUME NEW y \in D
            PROVE  h[y].len \in 1 .. BlockUnits - y
        <4>1. CASE y = q
          BY <2>4, <2>6, <2>8, <4>1, Numbers
        <4>2. CASE y # q
          BY <1>1, <2>6, <4>2
        <4> QED
          BY <4>1, <4>2
      <3>2. ASSUME NEW y \in D, NEW u \in D, u < y
            PROVE  u + h[u].len <= y
        <4>1. u + f[u].len <= y
          BY <1>0, <3>2 DEF Tiled
        <4>2. CASE u # q
          BY <2>6, <4>1, <4>2
        <4>3. CASE u = q
          <5>1. y \in Nat /\ y # o /\ ~(y < o)
            <6>1. y < o => y <= q
              BY <2>3
            <6> QED
              BY <1>0, <2>8, <3>2, <4>3, <6>1
          <5>2. o < y
            BY <2>8, <5>1
          <5>3. o + f[o].len <= y
            BY <1>0, <5>2 DEF Tiled
          <5>4. h[u].len = f[q].len + f[o].len
            BY <2>4, <2>6, <4>3
          <5> QED
            BY <2>8, <4>3, <5>1, <5>3, <5>4
        <4> QED
          BY <4>2, <4>3
      <3> QED
        BY <2>6, <3>1, <3>2 DEF Tiled
    <2>10. h \in EntMaps
      BY <2>7, <2>9, MapFacts
    <2>11. \A y \in DOMAIN h : /\ y \in DOMAIN f /\ h[y].name = f[y].name
                               /\ h[y].type = f[y].type
                               /\ y # o /\ h[y].inode = f[y].inode
      BY <2>4, <2>6
    <2>12. ASSUME Headed(f)
           PROVE  Headed(h) /\ h[1].inode = f[1].inode
      <3>1. /\ 0 \in DOMAIN f /\ f[0].name = "." /\ f[0].len = 1
            /\ 1 \in DOMAIN f /\ f[1].name = ".."
        BY <2>12 DEF Headed
      <3>2. o # 0 /\ o # 1
        BY <3>1 DEF NotDots
      <3>3. 1 < o
        BY <2>8, <3>2
      <3>4. 1 <= q
        BY <2>3, <3>1, <3>3
      <3>5. q # 0
        BY <2>8, <3>4
      <3>6. 0 \in D /\ 1 \in D /\ h[0] = f[0]
        BY <2>6, <3>1, <3>2, <3>5
      <3> QED
        BY <2>6, <2>11, <3>1, <3>6 DEF Headed
    <2> QED
      BY <2>10, <2>11, <2>12 DEF h
  <1> QED
    BY <1>2, <1>3

\* Inodes other than p and all pointers are as they were.
KeepsOthers(d, e, p) ==
    /\ e.ibm = d.ibm /\ e.bbm = d.bbm
    /\ \A m \in InodeNos : /\ m # p => e.inode[m] = d.inode[m]
                           /\ e.inode[m].mode = d.inode[m].mode
                           /\ e.inode[m].links = d.inode[m].links
    /\ \A m \in InodeNos, k \in Slots : Ptr(e, m, k) = Ptr(d, m, k)

LEMMA UnlinkMid ==
    ASSUME NEW s \in Sessions, NEW R, NEW c, NEW g, NEW x, Mid(s, R, c, g, x),
           NEW p \in R, s.d.inode[p].mode = "dir", NEW l \in Logicals, NEW o,
           NEW b \in BlockNos, b = Ptr(s.d, p, l), o \in DOMAIN s.d.blk[b].ents,
           NotDots(s.d.blk[b].ents[o].name)
    PROVE  LET u == UnlinkEntry(s, b, o)
           IN  /\ Mid(u, R, c, g, x) /\ u \in Sessions /\ Alike(s, u)
               /\ u.d.inode = s.d.inode /\ KeepsOthers(s.d, u.d, p)
               /\ ~Live(u.d, p, l, o)
  <1> DEFINE d == s.d
             f == d.blk[b].ents
             h == DropEntry(f, o)
             y == [d.blk[b] EXCEPT !.ents = h]
             e == PutBlk(d, b, y)
             u == UnlinkEntry(s, b, o)
  <1>0. d \in Disks /\ Good(d, R, c) /\ R \in SUBSET InodeNos /\ (g => Settled(c)) /\ l \in Slots
    BY SessionFacts, SlotFacts DEF Mid, Good
  <1>1. f \in EntMaps /\ d.blk[b] \in Blocks
    BY <1>0, DiskFacts, SMTT(30)
  <1>2. /\ h \in EntMaps
        /\ \A z \in DOMAIN h : /\ z \in DOMAIN f /\ h[z].name = f[z].name
                               /\ h[z].type = f[z].type
                               /\ z # o => h[z].inode = f[z].inode
                               /\ z = o => h[z].inode = 0
        /\ Headed(f) => Headed(h) /\ h[1].inode = f[1].inode
    BY <1>1, DropFacts, SMTT(60)
  <1>3. u = WriteBlock(s, b, y)
    BY DEF UnlinkEntry
  <1> HIDE DEF h
  <1>4. y \in Blocks /\ y.ptrs = d.blk[b].ptrs /\ y.ents = h
    BY <1>1, <1>2, SMTT(60) DEF Blocks
  <1>5. KeptIn(f, h, c, p, l)
    BY <1>2, SMTT(60) DEF KeptIn
  <1>6. l = 0 => Headed(h) /\ h[1].inode = f[1].inode
    BY <1>0, <1>2 DEF Good, Heads
  <1>7. /\ Good(e, R, c)
        /\ \A m \in InodeNos, k \in Slots : Ptr(e, m, k) = Ptr(d, m, k)
    <2> HIDE DEF y
    <2> QED
      BY <1>0, <1>4, <1>5, <1>6, Rewrite
  <1>8. /\ e \in Disks /\ e.bbm = d.bbm /\ e.ibm = d.ibm /\ e.inode = d.inode
        /\ e.blk[b] = y
    BY ONLY <1>0, <1>4, b \in BlockNos, PutBlkFacts
  <1>9. ~Live(e, p, l, o)
    <2>1. Ptr(e, p, l) = b /\ p \in InodeNos
      BY <1>0, <1>7
    <2>2. e.blk[Ptr(e, p, l)].ents = h
      BY <1>4, <1>8, <2>1, Zenon
    <2> QED
      BY <1>2, <2>2, Zenon DEF Live
  <1> HIDE DEF e, y
  <1>10. /\ Mid(u, R, c, g, x) /\ u \in Sessions /\ u.d = e /\ Alike(s, u)
    BY <1>0, <1>3, <1>4, <1>7, WriteBlockMid DEF e
  <1>11. KeepsOthers(d, e, p)
    BY <1>7, <1>8 DEF KeepsOthers
  <1> QED
    BY <1>8, <1>9, <1>10, <1>11

LEMMA ShrinkMid ==
    ASSUME NEW s \in Sessions, NEW R, NEW c, NEW g, NEW x, Mid(s, R, c, g, x),
           NEW p \in R, NEW y, NEW e \in Entries
    PROVE  LET u == ShrinkDir(s, p, s.d.inode[p], y, e)
           IN  /\ Mid(u, R, c, g, x) /\ u \in Sessions /\ Alike(s, u)
               /\ KeepsOthers(s.d, u.d, p) /\ u.d.blk = s.d.blk
  <1> DEFINE d == s.d
             i == d.inode[p]
             j == [i EXCEPT !.size = (i.size - e.len) % SizeMod]
             u == ShrinkDir(s, p, i, y, e)
  <1>0. /\ d \in Disks /\ Good(d, R, c) /\ R \in SUBSET InodeNos /\ (g => Settled(c))
        /\ p \in InodeNos
    BY SessionFacts DEF Mid, Good
  <1>1. i \in Inodes /\ i.size \in Nat /\ e.len \in Nat
    BY <1>0, DiskFacts DEF Inodes, Entries
  <1>2. (i.size - e.len) % SizeMod \in Nat
    BY <1>1, Numbers
  <1>3. /\ j \in Inodes /\ j.mode = i.mode /\ j.links = i.links /\ j.block = i.block
        /\ j.ind = i.ind /\ j.blocks = i.blocks
    BY <1>1, <1>2, Zenon DEF Inodes
  <1>4. j.mode = "dir" => j.blocks >= 1
    BY <1>0, <1>3 DEF Good, Heads
  <1>5. u = IF y + e.len >= i.size THEN WriteInode(s, p, j) ELSE s
    BY DEF ShrinkDir
  <1> HIDE DEF j
  <1>6. /\ Good(PutInode(d, p, j), R, c)
        /\ \A m \in InodeNos, k \in Slots : Ptr(PutInode(d, p, j), m, k) = Ptr(d, m, k)
    BY <1>0, <1>3, <1>4, Resize
  <1>7. /\ PutInode(d, p, j).bbm = d.bbm /\ PutInode(d, p, j).ibm = d.ibm
        /\ PutInode(d, p, j).blk = d.blk
        /\ \A m \in InodeNos : PutInode(d, p, j).inode[m] = IF m = p THEN j ELSE d.inode[m]
    BY ONLY <1>0, <1>3, PutInodeFacts
  <1>8. KeepsOthers(d, PutInode(d, p, j), p) /\ KeepsOthers(d, d, p)
    BY <1>3, <1>6, <1>7 DEF KeepsOthers
  <1>9. /\ Mid(WriteInode(s, p, j), R, c, g, x) /\ WriteInode(s, p, j) \in Sessions
        /\ WriteInode(s, p, j).d = PutInode(d, p, j) /\ Alike(s, WriteInode(s, p, j))
    BY <1>0, <1>3, <1>6, WriteInodeMid
  <1>10. Alike(s, s)
    BY DEF Alike
  <1>11. CASE y + e.len >= i.size
    BY <1>5, <1>7, <1>8, <1>9, <1>11
  <1>12. CASE ~(y + e.len >= i.size)
    BY <1>5, <1>8, <1>10, <1>12
  <1> QED
    BY <1>11, <1>12

Marking(s, M) == [s EXCEPT !.marks = @ \cup M]

LEMMA MarkingMid ==
    ASSUME NEW s \in Sessions, NEW R, NEW c, NEW g, NEW x, Mid(s, R, c, g, x),
           NEW M \in SUBSET {"tombstone", "dotdot"}
    PROVE  LET t == Marking(s, M)
           IN  /\ Mid(t, R, c, g, x) /\ t \in Sessions /\ t.d = s.d /\ t.ok = s.ok
               /\ t.marks = s.marks \cup M
  <1> DEFINE t == Marking(s, M)
  <1>1. /\ t \in Sessions /\ t.d = s.d /\ t.m = s.m /\ t.log = s.log /\ t.ok = s.ok
        /\ t.marks = s.marks \cup M
    BY DEF Sessions, Marking
  <1> HIDE DEF t
  <1>2. Mid(t, R, c, g, x)
    BY <1>1 DEF Mid, Exact
  <1> QED
    BY <1>1, <1>2 DEF t

KeepsTwice(d, e, h, p) ==
    KeepsOthers(d, e, p) /\ KeepsOthers(e, h, p) => KeepsOthers(d, h, p)

LEMMA KeepsTrans ==
    ASSUME NEW d, NEW e, NEW h, NEW p
    PROVE  KeepsTwice(d, e, h, p)
  BY DEF KeepsTwice, KeepsOthers

\* Only the removal of a tombstone sets a mark.
Flags(s, r, e) ==
    /\ e.inode = 0 => "tombstone" \in r.marks
    /\ e.inode # 0 => r.marks = s.marks

LEMMA RemoveMid ==
    ASSUME NEW s \in Sessions, NEW R, NEW c, NEW g, NEW x, Mid(s, R, c, g, x),
           NEW p \in R, s.d.inode[p].mode = "dir", NEW name \in Names
    PROVE  LET r == RemoveDirEntry(s, p, name)
               h == Hit(s.d, p, name)
           IN  /\ Mid(r, R, c, g, x) /\ r \in Sessions /\ KeepsOthers(s.d, r.d, p)
               /\ LiveAt(SeenIn(s.d, p), name) = {} => r.marks = s.marks
               /\ LiveAt(SeenIn(s.d, p), name) # {} =>
                    /\ r.ok = TRUE
                    /\ Mid(r, R, Minus(c, Place(p, h)), g, x)
                    /\ Flags(s, r, EntAt(s.d, p, h))
  <1> DEFINE r == RemoveDirEntry(s, p, name)
             h == Hit(s.d, p, name)
             v == SeenIn(s.d, p)
             i == s.d.inode[p]
  <1>0. /\ s.d \in Disks /\ Good(s.d, R, c) /\ R \in SUBSET InodeNos /\ (g => Settled(c))
        /\ p \in InodeNos
    BY SessionFacts DEF Mid, Good
  <1>1. CASE LiveAt(v, name) = {}
    <2>1. r = Fail(s)
      BY <1>1 DEF RemoveDirEntry, RemoveSeeing, SeenIn
    <2>2. 0 \in Int
      OBVIOUS
    <2>3. /\ Mid(Fail(s), R, c, g, x) /\ Fail(s) \in Sessions
          /\ Fail(s).d = s.d /\ Fail(s).marks = s.marks
      BY <2>2, ReturnMid, ZenonT(60)
    <2>4. KeepsOthers(s.d, s.d, p)
      BY DEF KeepsOthers
    <2> QED
      BY <1>1, <2>1, <2>3, <2>4
  <1>2. CASE LiveAt(v, name) # {}
    <2> DEFINE e == v[h]
               l == h \div BlockUnits
               o == h % BlockUnits
               b == BlockLookup(s.d, i, l)
               u == UnlinkEntry(s, b, o)
               t == ShrinkDir(u, p, i, h, e)
               M == IF e.inode = 0 THEN {"tombstone"} ELSE {}
    <2>1. r = Marking(Return(t, 0), M)
      BY <1>2 DEF RemoveDirEntry, RemoveSeeing, RemoveFrom, RemoveAtOffset, Marking,
                  SeenIn, Hit
    <2>2. Visible(s.d, p, h) /\ EntAt(s.d, p, h).name = name /\ h \in DOMAIN v
      <3>1. h \in NamedIn(v, name)
        BY <1>0, <1>2, PositionFacts
      <3> QED
        BY <1>0, <3>1, PositionFacts DEF NamedIn
    <2>3. e = EntAt(s.d, p, h)
      BY <1>0, <2>2, SeenFacts, SMTT(30) DEF SeenIn
    <2>4. /\ l \in Logicals /\ o \in Offs /\ b = Ptr(s.d, p, l) /\ b \in BlockNos
          /\ o \in DOMAIN s.d.blk[b].ents /\ e \in Entries /\ e = s.d.blk[b].ents[o]
      BY <1>0, <2>2, <2>3, VisibleFacts, SMTT(60) DEF EntAt
    <2>5. Place(p, h) = <<p, l, o>>
      BY DEF Place
    <2>6. NotDots(s.d.blk[b].ents[o].name)
      BY <2>2, <2>3, <2>4, NamesFacts
    <2> HIDE DEF h, v, e, l, o, b, t, u
    <2>7. /\ Mid(u, R, c, g, x) /\ u \in Sessions /\ Alike(s, u)
          /\ u.d.inode = s.d.inode /\ KeepsOthers(s.d, u.d, p)
          /\ ~Live(u.d, p, l, o)
      BY <2>4, <2>6, UnlinkMid DEF u
    <2>8. t = ShrinkDir(u, p, u.d.inode[p], h, e)
      BY <2>7 DEF t
    <2>9. /\ Mid(t, R, c, g, x) /\ t \in Sessions /\ Alike(u, t)
          /\ KeepsOthers(u.d, t.d, p) /\ t.d.blk = u.d.blk
      BY <2>4, <2>7, <2>8, ShrinkMid, SMTT(60)
    <2>10. ~Live(t.d, p, l, o)
      <3>1. Ptr(t.d, p, l) = Ptr(u.d, p, l) /\ t.d.inode[p].mode = u.d.inode[p].mode
        BY <1>0, <2>4, <2>9, SlotFacts DEF KeepsOthers
      <3> QED
        BY <2>7, <2>9, <3>1 DEF Live
    <2> DEFINE z == Return(t, 0)
    <2>11. /\ Mid(z, R, c, g, x) /\ z \in Sessions /\ z.d = t.d /\ z.marks = t.marks
           /\ z.ok = TRUE
      <3>1. 0 \in Int
        OBVIOUS
      <3>2. /\ Mid(Return(t, 0), R, c, g, x) /\ Return(t, 0) \in Sessions
            /\ Return(t, 0).d = t.d /\ Return(t, 0).marks = t.marks
            /\ Return(t, 0).ok = TRUE
        <4>1. t \in Sessions /\ Mid(t, R, c, g, x)
          BY <2>9
        <4> QED
          BY ONLY <4>1, <3>1, ReturnMid, Zenon
      <3> QED
        BY <3>2
    <2>12. M \in SUBSET {"tombstone", "dotdot"}
      OBVIOUS
    <2> HIDE DEF z, M
    <2>13. /\ Mid(r, R, c, g, x) /\ r \in Sessions /\ r.d = z.d /\ r.ok = z.ok
           /\ r.marks = z.marks \cup M
      BY <2>1, <2>11, <2>12, MarkingMid DEF z
    <2>14. r.d = t.d /\ r.marks = s.marks \cup M /\ r.ok = TRUE
      BY <2>7, <2>9, <2>11, <2>13 DEF Alike
    <2>15. KeepsOthers(s.d, r.d, p)
      BY <2>7, <2>9, <2>14, KeepsTrans DEF KeepsTwice
    <2>16. r.d \in Disks /\ Good(r.d, R, c)
      BY <2>13, SessionFacts DEF Mid
    <2>17. Good(r.d, R, Minus(c, <<p, l, o>>)) /\ (g => Settled(Minus(c, <<p, l, o>>)))
      BY <1>0, <2>10, <2>14, <2>16, Narrow
    <2>18. Mid(r, R, Minus(c, Place(p, h)), g, x)
      BY <2>5, <2>13, <2>17, Recast
    <2>19. Flags(s, r, EntAt(s.d, p, h))
      BY <2>3, <2>14 DEF M, Flags
    <2> QED
      BY <1>2, <2>13, <2>14, <2>15, <2>18, <2>19 DEF h, v
  <1> QED
    BY <1>1, <1>2, Zenon

----------------------------------------------------------------------------
(* ext2_add_dir_entry *)

\* The new entry takes the slack of the one at o and moves no other.
LEMMA SplitFacts ==
    ASSUME NEW f \in EntMaps, NEW o \in DOMAIN f, NEW e \in Entries, NotDots(e.name),
           Slack(f[o]) >= UnitsOf(e.name)
    PROVE  LET n == o + UnitsOf(f[o].name)
               h == SplitEnts(f, o, UnitsOf(f[o].name), e)
           IN  /\ h \in EntMaps /\ n \in Offs /\ n \notin DOMAIN f
               /\ DOMAIN h = DOMAIN f \cup {n}
               /\ \A y \in DOMAIN f : /\ h[y].name = f[y].name /\ h[y].inode = f[y].inode
                                      /\ h[y].type = f[y].type
               /\ h[n].name = e.name /\ h[n].inode = e.inode /\ h[n].type = e.type
               /\ Headed(f) => Headed(h) /\ h[1].inode = f[1].inode
  <1> DEFINE k == UnitsOf(f[o].name)
             n == o + k
             h == SplitEnts(f, o, k, e)
             len == f[o].len
             y1 == [e EXCEPT !.len = len - k]
             y0 == [f[o] EXCEPT !.len = k]
             D == DOMAIN f \cup {n}
  <1>0. /\ DOMAIN f \in SUBSET Offs /\ Tiled(f) /\ o \in Offs
        /\ \A y \in DOMAIN f : f[y] \in Entries /\ y \in Nat
    BY MapFacts
  <1>1. \A y \in DOMAIN f : /\ f[y].len \in 1 .. BlockUnits - y /\ f[y].len \in Nat
                            /\ f[y].inode \in 0 .. NInodes
                            /\ f[y].name \in AllNames /\ f[y].type \in Modes
    BY <1>0, Numbers DEF Tiled, Entries
  <1>2. k \in Nat /\ k >= 1 /\ UnitsOf(e.name) \in Nat /\ UnitsOf(e.name) >= 1
    BY <1>1, Units1 DEF Entries
  <1>3. /\ len \in Nat /\ o \in Nat /\ k + 1 <= len /\ o + len <= BlockUnits
    <2>1. len - k >= UnitsOf(e.name)
      BY DEF Slack
    <2> HIDE DEF k
    <2> QED
      BY <1>0, <1>1, <1>2, <2>1, Numbers
  <1> HIDE DEF k, len
  <1>4. n \in Offs /\ n \in Nat /\ n > o
    BY <1>2, <1>3, Numbers DEF Offs
  <1>5. n \notin DOMAIN f
    <2> SUFFICES ASSUME n \in DOMAIN f
                 PROVE  FALSE
      OBVIOUS
    <2>1. o + f[o].len <= n
      BY <1>0, <1>4 DEF Tiled
    <2> QED
      BY <1>2, <1>3, <2>1 DEF len
  <1>6. /\ y1 \in Entries /\ y1.name = e.name /\ y1.inode = e.inode /\ y1.type = e.type
        /\ y1.len = len - k
    BY <1>2, <1>3 DEF Entries
  <1>7. /\ y0 \in Entries /\ y0.name = f[o].name /\ y0.inode = f[o].inode
        /\ y0.type = f[o].type /\ y0.len = k
    BY <1>0, <1>2 DEF Entries
  <1>8. h = [y \in D |-> CASE y = n -> y1 [] y = o -> y0 [] OTHER -> f[y]]
    BY DEF SplitEnts, len
  <1>9. n # o
    BY <1>3, <1>4
  <1> HIDE DEF n, h, y1, y0
  <1>10. /\ DOMAIN h = D /\ h[n] = y1 /\ h[o] = y0
         /\ \A y \in DOMAIN f : y # o => h[y] = f[y]
    BY <1>5, <1>8, <1>9
  <1>11. h \in [D -> Entries] /\ D \in SUBSET Offs
    <2>1. \A y \in D : h[y] \in Entries
      BY <1>0, <1>6, <1>7, <1>10
    <2> QED
      BY <1>0, <1>4, <1>8, <2>1
  <1>12. Tiled(h)
    <2>1. ASSUME NEW y \in D
          PROVE  h[y].len \in 1 .. BlockUnits - y
      <3>1. CASE y = n
        BY <1>2, <1>3, <1>4, <1>6, <1>10, <3>1, Numbers DEF n
      <3>2. CASE y = o
        BY <1>2, <1>3, <1>7, <1>10, <3>2, Numbers
      <3>3. CASE y # n /\ y # o
        BY <1>1, <1>10, <3>3
      <3> QED
        BY <3>1, <3>2, <3>3
    <2>2. ASSUME NEW y \in D, NEW u \in D, u < y
          PROVE  u + h[u].len <= y
      <3>0. y \in Nat /\ u \in Nat
        BY <1>0, <1>4
      <3>1. CASE u = n
        <4>1. y \in DOMAIN f /\ o < y
          BY <1>3, <1>4, <2>2, <3>0, <3>1
        <4>2. o + f[o].len <= y
          BY <1>0, <4>1 DEF Tiled
        <4>3. h[u].len = len - k
          BY <1>6, <1>10, <3>1
        <4>4. o + len <= y
          BY <4>2 DEF len
        <4> QED
          BY <1>2, <1>3, <3>0, <3>1, <4>3, <4>4 DEF n
      <3>2. CASE u = o
        <4>1. h[u].len = k
          BY <1>7, <1>10, <3>2
        <4>2. CASE y = n
          BY <1>2, <1>3, <3>2, <4>1, <4>2 DEF n
        <4>3. CASE y # n
          <5>1. o + f[o].len <= y
            BY <1>0, <2>2, <3>2, <4>3 DEF Tiled
          <5>2. o + len <= y
            BY <5>1 DEF len
          <5> QED
            BY <1>2, <1>3, <3>0, <3>2, <4>1, <5>2
        <4> QED
          BY <4>2, <4>3
      <3>3. CASE u # n /\ u # o
        <4>1. h[u] = f[u] /\ u \in DOMAIN f /\ f[u].len \in Nat
          BY <1>1, <1>10, <3>3
        <4>2. CASE y = n
          <5>1. u < o
            <6> SUFFICES ASSUME o < u
                         PROVE  FALSE
              BY <1>3, <3>0, <3>3
            <6>1. o + f[o].len <= u
              BY <1>0, <4>1 DEF Tiled
            <6>2. o + len <= u
              BY <6>1 DEF len
            <6> QED
              BY <1>2, <1>3, <2>2, <3>0, <4>2, <6>2 DEF n
          <5>2. u + f[u].len <= o
            BY <1>0, <4>1, <5>1 DEF Tiled
          <5> QED
            BY <1>3, <1>4, <3>0, <4>1, <4>2, <5>2
        <4>3. CASE y # n
          BY <1>0, <2>2, <4>1, <4>3 DEF Tiled
        <4> QED
          BY <4>2, <4>3
      <3> QED
        BY <3>1, <3>2, <3>3
    <2> QED
      BY <1>10, <2>1, <2>2 DEF Tiled
  <1>13. h \in EntMaps
    BY <1>11, <1>12, MapFacts
  <1>14. \A y \in DOMAIN f : /\ h[y].name = f[y].name /\ h[y].inode = f[y].inode
                             /\ h[y].type = f[y].type
    BY <1>7, <1>10
  <1>15. ASSUME Headed(f)
         PROVE  Headed(h) /\ h[1].inode = f[1].inode
    <2>1. /\ 0 \in DOMAIN f /\ f[0].name = "." /\ f[0].len = 1
          /\ 1 \in DOMAIN f /\ f[1].name = ".."
      BY <1>15 DEF Headed
    <2>2. o # 0
      <3> SUFFICES ASSUME o = 0
                   PROVE  FALSE
        OBVIOUS
      <3>1. len = 1
        BY <2>1 DEF len
      <3> QED
        BY <1>2, <1>3, <3>1
    <2>3. h[0] = f[0]
      BY <1>10, <2>1, <2>2
    <2> QED
      BY <1>10, <1>14, <2>1, <2>3 DEF Headed
  <1> QED
    BY <1>4, <1>5, <1>6, <1>10, <1>13, <1>14, <1>15 DEF n, h, k

\* The inode in transit is about to get a name in directory p.
Ready(c, g, p) ==
    /\ c.n # 0
    /\ g => c.at = {} /\ (c.type = "dir" => c.home = p)

Plus(c, p, l, o) ==
    IF l \in Logicals THEN [c EXCEPT !.at = @ \cup {<<p, l, o>>}] ELSE c

LEMMA PlusFacts ==
    ASSUME NEW d \in Disks, NEW R, NEW c, Good(d, R, c), NEW g, NEW p \in InodeNos,
           NEW l \in Nat, NEW o \in Offs, Ready(c, g, p)
    PROVE  /\ Good(d, R, Plus(c, p, l, o)) /\ (g => Settled(Plus(c, p, l, o)))
           /\ Plus(c, p, l, o).n = c.n /\ Plus(c, p, l, o).type = c.type
           /\ Plus(c, p, l, o).home = c.home
           /\ l \in Logicals => Plus(c, p, l, o).at = c.at \cup {<<p, l, o>>}
           /\ l \notin Logicals => Plus(c, p, l, o) = c
  <1> DEFINE t == Plus(c, p, l, o)
  <1>1. c \in Transits
    BY DEF Good, Typed
  <1>2. CASE l \notin Logicals
    <2>1. t = c
      BY <1>2 DEF Plus
    <2>2. g => Settled(c)
      BY DEF Ready, Settled
    <2> QED
      BY <1>2, <2>1, <2>2
  <1>3. CASE l \in Logicals
    <2> DEFINE w == <<p, l, o>>
    <2>1. w \in InodeNos \X Logicals \X Offs /\ w[1] = p
      BY <1>3
    <2>2. t = [c EXCEPT !.at = @ \cup {w}]
      BY <1>3 DEF Plus
    <2> HIDE DEF w
    <2>3. Good(d, R, t)
      BY <2>1, <2>2, Widen
    <2>4. t.n = c.n /\ t.type = c.type /\ t.home = c.home /\ t.at = c.at \cup {w}
      BY <1>1, <2>2 DEF Transits
    <2>5. g => Settled(t)
      BY <2>1, <2>4 DEF Ready, Settled
    <2> QED
      BY <1>3, <2>3, <2>4, <2>5 DEF w
  <1> QED
    BY <1>2, <1>3

\* Nothing that a reader sees changes but block l of directory q.
Others(d, e, R, q, l) ==
    /\ \A m \in R : /\ e.inode[m].mode = d.inode[m].mode
                    /\ m # q => e.inode[m] = d.inode[m]
    /\ \A m \in R, h \in Logicals : m # q \/ h # l =>
          /\ Ptr(e, m, h) = Ptr(d, m, h)
          /\ Ptr(d, m, h) # 0 => e.blk[Ptr(d, m, h)].ents = d.blk[Ptr(d, m, h)].ents
    /\ \A x : Visible(d, q, x) => x < e.inode[q].size

\* The entries h are one with the name, alone or besides those of f.
NewEnts(h, f, o, name, known) ==
    /\ o \in DOMAIN h /\ h[o].name = name
    /\ \/ DOMAIN h = {o}
       \/ /\ known /\ o \notin DOMAIN f /\ DOMAIN h = DOMAIN f \cup {o}
          /\ \A y \in DOMAIN f : h[y].name = f[y].name /\ h[y].inode = f[y].inode

\* The name is at o in block l of q; a block beyond the last pointer is lost.
Placed(d, e, q, l, o, name) ==
    l \in Logicals =>
        /\ Ptr(e, q, l) # 0
        /\ NewEnts(e.blk[Ptr(e, q, l)].ents, d.blk[Ptr(d, q, l)].ents, o, name,
                   Ptr(d, q, l) # 0)

Arrived(s, a, R, c, g, x, p, l, o, name) ==
    /\ Mid(a, R, Plus(c, p, l, o), g, x)
    /\ Others(s.d, a.d, R, p, l) /\ Placed(s.d, a.d, p, l, o, name)

Refused(s, a, R, c, g, x) ==
    /\ Mid(a, R, c, g, x)
    /\ a.d.inode = s.d.inode /\ s.d.bbm \subseteq a.d.bbm
    /\ \A m \in R, k \in Slots : Ptr(a.d, m, k) = Ptr(s.d, m, k)

Adds(s, a, R, c, g, x, p, name) ==
    /\ a \in Sessions /\ a.marks = s.marks /\ a.d.ibm = s.d.ibm
    /\ a.ok => \E l \in Nat, o \in Offs : Arrived(s, a, R, c, g, x, p, l, o, name)
    /\ ~a.ok => Refused(s, a, R, c, g, x)

LEMMA SplitMid ==
    ASSUME NEW s \in Sessions, NEW R, NEW c, NEW g, NEW x, Mid(s, R, c, g, x),
           NEW p \in R, s.d.inode[p].mode = "dir", Ready(c, g, p), NEW name \in Names,
           NEW y, Visible(s.d, p, y), Slack(EntAt(s.d, p, y)) >= UnitsOf(name)
    PROVE  Adds(s, Return(SplitEntry(s, BlockLookup(s.d, s.d.inode[p], y \div BlockUnits),
                                     y % BlockUnits, DirEntry(name, c.n, c.type, 0)), 0),
                R, c, g, x, p, name)
  <1> DEFINE d == s.d
             l == y \div BlockUnits
             o == y % BlockUnits
             b == BlockLookup(d, d.inode[p], l)
             f == d.blk[b].ents
             e == DirEntry(name, c.n, c.type, 0)
             k == UnitsOf(f[o].name)
             n == o + k
             h == SplitEnts(f, o, k, e)
             z == [d.blk[b] EXCEPT !.ents = h]
             t == Plus(c, p, l, n)
             v == PutBlk(d, b, z)
             u == SplitEntry(s, b, o, e)
  <1>0. /\ d \in Disks /\ Good(d, R, c) /\ R \in SUBSET InodeNos
        /\ p \in InodeNos /\ c \in Transits
    BY SessionFacts DEF Mid, Good, Typed
  <1>1. /\ l \in Logicals /\ l \in Nat /\ l \in Slots /\ o \in Offs /\ b = Ptr(d, p, l) /\ b \in BlockNos
        /\ b # 0 /\ o \in DOMAIN f /\ EntAt(d, p, y) = f[o]
    BY <1>0, VisibleFacts, SlotFacts, Numbers, SMTT(60) DEF EntAt, Logicals
  <1>2. e \in Entries /\ e.name = name /\ e.inode = c.n /\ e.type = c.type /\ NotDots(e.name)
    BY <1>0, NamesFacts DEF Entries, DirEntry, Transits
  <1>3. f \in EntMaps /\ d.blk[b] \in Blocks
    BY <1>0, <1>1, DiskFacts
  <1>4. Slack(f[o]) >= UnitsOf(e.name)
    BY <1>1, <1>2
  <1>5. u = WriteBlock(s, b, z)
    BY DEF SplitEntry
  <1> HIDE DEF e, b, l, o
  <1>6. /\ h \in EntMaps /\ n \in Offs /\ n \notin DOMAIN f
        /\ DOMAIN h = DOMAIN f \cup {n}
        /\ \A q \in DOMAIN f : /\ h[q].name = f[q].name /\ h[q].inode = f[q].inode
                               /\ h[q].type = f[q].type
        /\ h[n].name = e.name /\ h[n].inode = e.inode /\ h[n].type = e.type
        /\ Headed(f) => Headed(h) /\ h[1].inode = f[1].inode
    <2>1. f \in EntMaps /\ o \in DOMAIN f /\ e \in Entries /\ NotDots(e.name)
          /\ Slack(f[o]) >= UnitsOf(e.name)
      BY <1>1, <1>2, <1>3, <1>4
    <2> HIDE DEF f
    <2> QED
      BY ONLY <2>1, SplitFacts, Zenon
  <1> HIDE DEF h, n, k
  <1>7. z \in Blocks /\ z.ptrs = d.blk[b].ptrs /\ z.ents = h
    BY <1>3, <1>6 DEF Blocks
  <1> HIDE DEF z
  <1>8. /\ Good(d, R, t) /\ (g => Settled(t)) /\ t.n = c.n /\ t.type = c.type
        /\ t.at = c.at \cup {<<p, l, n>>}
    <2> HIDE DEF d
    <2> QED
      BY <1>0, <1>1, <1>6, PlusFacts
  <1> HIDE DEF t
  <1>9. KeptIn(f, h, t, p, l)
    BY <1>2, <1>6, <1>8 DEF KeptIn, Ready
  <1>10. l = 0 => Headed(h) /\ h[1].inode = f[1].inode
    BY <1>0, <1>1, <1>6 DEF Good, Heads
  <1>11. /\ Good(v, R, t)
         /\ \A m \in InodeNos, q \in Slots : Ptr(v, m, q) = Ptr(d, m, q)
    BY <1>0, <1>1, <1>7, <1>8, <1>9, <1>10, Rewrite
  <1>12. /\ v \in Disks /\ v.bbm = d.bbm /\ v.ibm = d.ibm /\ v.inode = d.inode
         /\ \A a \in BlockNos : v.blk[a] = IF a = b THEN z ELSE d.blk[a]
    BY ONLY <1>0, <1>1, <1>7, PutBlkFacts
  <1>13. /\ Mid(u, R, t, g, x) /\ u \in Sessions /\ u.d = v /\ Alike(s, u)
    BY <1>1, <1>5, <1>7, <1>8, <1>11, WriteBlockMid
  <1>14. Others(d, v, R, p, l)
    <2>1. \A m \in R, q \in Logicals : m # p \/ q # l =>
             /\ Ptr(v, m, q) = Ptr(d, m, q)
             /\ Ptr(d, m, q) # 0 => v.blk[Ptr(d, m, q)].ents = d.blk[Ptr(d, m, q)].ents
      <3> SUFFICES ASSUME NEW m \in R, NEW q \in Logicals, m # p \/ q # l, Ptr(d, m, q) # 0
                   PROVE  v.blk[Ptr(d, m, q)].ents = d.blk[Ptr(d, m, q)].ents
        BY <1>0, <1>11, SlotFacts
      <3>1. Ptr(d, m, q) \in BlockNos /\ Ptr(d, m, q) # b
        BY <1>0, <1>1, Owned, SlotFacts
      <3> QED
        BY <1>12, <3>1
    <2>2. \A q : Visible(d, p, q) => q < v.inode[p].size
      BY <1>12 DEF Visible
    <2> QED
      BY <1>12, <2>1, <2>2 DEF Others
  <1>15. Placed(d, v, p, l, n, name)
    <2>1. Ptr(v, p, l) = b
      BY <1>0, <1>1, <1>11
    <2>2. v.blk[Ptr(v, p, l)].ents = h /\ d.blk[Ptr(d, p, l)].ents = f
      BY <1>1, <1>7, <1>12, <2>1, SMTT(30)
    <2>3. NewEnts(h, f, n, name, Ptr(d, p, l) # 0)
      BY <1>1, <1>2, <1>6 DEF NewEnts
    <2> QED
      BY <1>1, <2>1, <2>2, <2>3 DEF Placed
  <1> DEFINE a == Return(u, 0)
  <1>16. /\ Mid(a, R, t, g, x) /\ a \in Sessions
         /\ a.d = u.d /\ a.marks = u.marks /\ a.ok = TRUE
    <2>1. 0 \in Int
      OBVIOUS
    <2>2. u \in Sessions /\ Mid(u, R, t, g, x)
      BY <1>13
    <2> HIDE DEF u
    <2>3. /\ Mid(Return(u, 0), R, t, g, x) /\ Return(u, 0) \in Sessions
          /\ Return(u, 0).d = u.d /\ Return(u, 0).marks = u.marks
          /\ Return(u, 0).ok = TRUE
      BY ONLY <2>1, <2>2, ReturnMid, ZenonT(60)
    <2> QED
      BY <2>3
  <1> HIDE DEF a, u, v
  <1>17. Arrived(s, a, R, c, g, x, p, l, n, name)
    BY <1>13, <1>14, <1>15, <1>16 DEF Arrived, t
  <1>18. Adds(s, a, R, c, g, x, p, name)
    BY <1>1, <1>6, <1>12, <1>13, <1>16, <1>17 DEF Adds, Alike
  <1> QED
    BY <1>18 DEF a, u, b, l, o, e

LEMMA ZeroFacts ==
    /\ ZeroBlock \in Blocks /\ DOMAIN ZeroBlock.ents = {}
    /\ \A j \in 0 .. PtrsPerBlock - 1 : ZeroBlock.ptrs[j] = 0
    /\ \A f \in EntMaps : /\ [ZeroBlock EXCEPT !.ents = f] \in Blocks
                          /\ [ZeroBlock EXCEPT !.ents = f].ents = f
  <1> DEFINE z == [o \in {} |-> NoEntry]
             y == [i \in 0 .. PtrsPerBlock - 1 |-> 0]
  <1>1. ZeroBlock = [ents |-> z, ptrs |-> y]
    BY DEF ZeroBlock
  <1>2. DOMAIN z = {} /\ z \in [{} -> Entries] /\ {} \in SUBSET Offs
    OBVIOUS
  <1>3. Tiled(z)
    BY <1>2 DEF Tiled
  <1>4. z \in EntMaps
    BY <1>2, <1>3, MapFacts, Zenon
  <1>5. /\ y \in [0 .. PtrsPerBlock - 1 -> Refs]
        /\ \A j \in 0 .. PtrsPerBlock - 1 : y[j] = 0
    BY SlotFacts
  <1> HIDE DEF z, y
  <1> QED
    BY <1>1, <1>2, <1>4, <1>5 DEF Blocks

OneEntry(e) == [o \in {0} |-> [e EXCEPT !.len = BlockUnits]]

LEMMA OneEntryFacts ==
    ASSUME NEW e \in Entries
    PROVE  /\ OneEntry(e) \in EntMaps /\ DOMAIN OneEntry(e) = {0}
           /\ OneEntry(e)[0].name = e.name /\ OneEntry(e)[0].inode = e.inode
           /\ OneEntry(e)[0].type = e.type
  <1> DEFINE z == [e EXCEPT !.len = BlockUnits]
             f == [o \in {0} |-> z]
  <1>1. /\ z \in Entries /\ z.name = e.name /\ z.inode = e.inode /\ z.type = e.type
        /\ z.len = BlockUnits
    BY Numbers DEF Entries
  <1>2. OneEntry(e) = f
    BY DEF OneEntry
  <1> HIDE DEF z
  <1>3. f \in [{0} -> Entries] /\ {0} \in SUBSET Offs /\ DOMAIN f = {0} /\ f[0] = z
    BY <1>1, SlotFacts
  <1>4. Tiled(f)
    BY <1>1, <1>3, Numbers DEF Tiled
  <1>5. f \in EntMaps
    BY <1>3, <1>4, MapFacts
  <1> HIDE DEF f
  <1> QED
    BY <1>1, <1>2, <1>3, <1>5

\* On the disk e, the block b holds a name of the inode in transit and is not linked yet.
Prepared(d, e, R, b, c, name) ==
    /\ b \in BlockNos /\ b \in e.bbm /\ Unowned(e, R, b)
    /\ e.inode = d.inode /\ e.ibm = d.ibm /\ d.bbm \subseteq e.bbm
    /\ \A m \in R, k \in Slots :
          /\ Ptr(e, m, k) = Ptr(d, m, k)
          /\ Ptr(d, m, k) # 0 => e.blk[Ptr(d, m, k)] = d.blk[Ptr(d, m, k)]
    /\ DOMAIN e.blk[b].ents = {0}
    /\ e.blk[b].ents[0].name = name /\ e.blk[b].ents[0].inode = c.n
    /\ e.blk[b].ents[0].type = c.type

LEMMA SameDisks ==
    ASSUME NEW d, NEW e, e.inode = d.inode, e.blk = d.blk
    PROVE  \A m, k : Ptr(e, m, k) = Ptr(d, m, k)
  BY DEF Ptr, PtrOf, BlockLookup

\* A block that was free is taken and written.
LEMMA PrepareMid ==
    ASSUME NEW s \in Sessions, NEW R, NEW c, NEW g, NEW x, Mid(s, R, c, g, x),
           NEW y \in Blocks, AllocBlock(s).ok
    PROVE  LET a == AllocBlock(s)
               t == WriteBlock(a, a.out, y)
           IN  /\ Mid(t, R, c, g, x) /\ t \in Sessions /\ Alike(a, t) /\ t.marks = s.marks
               /\ a.out \in BlockNos /\ a.out \in t.d.bbm /\ Unowned(t.d, R, a.out)
               /\ a.out \notin s.d.bbm
               /\ t.d.inode = s.d.inode /\ t.d.ibm = s.d.ibm /\ t.d.bbm = s.d.bbm \cup {a.out}
               /\ \A m \in R, k \in Slots : Ptr(t.d, m, k) = Ptr(s.d, m, k)
               /\ \A q \in BlockNos : t.d.blk[q] = IF q = a.out THEN y ELSE s.d.blk[q]
  <1> DEFINE a == AllocBlock(s)
             b == a.out
             t == WriteBlock(a, b, y)
             e == PutBlk(a.d, b, y)
  <1>1. /\ Mid(a, R, c, g, x) /\ a \in Sessions /\ a.marks = s.marks
        /\ a.d.ibm = s.d.ibm /\ a.d.inode = s.d.inode /\ a.d.blk = s.d.blk
        /\ b \in BlockNos /\ b \notin s.d.bbm /\ a.d.bbm = s.d.bbm \cup {b}
    BY AllocBlockMid
  <1> HIDE DEF a, b
  <1>2. /\ s.d \in Disks /\ a.d \in Disks /\ Good(s.d, R, c) /\ Good(a.d, R, c)
        /\ R \in SUBSET InodeNos /\ (g => Settled(c)) /\ b # 0
    BY <1>1, SessionFacts, SlotFacts DEF Mid, Good
  <1>3. Unowned(s.d, R, b)
    BY <1>1, <1>2, FreeUnowned
  <1>4. \A m, k : Ptr(a.d, m, k) = Ptr(s.d, m, k)
    BY <1>1, SameDisks
  <1>5. Unowned(a.d, R, b)
    BY <1>3, <1>4 DEF Unowned
  <1>6. Good(e, R, c)
    BY <1>1, <1>2, <1>5, OtherBlock
  <1>7. /\ Mid(t, R, c, g, x) /\ t \in Sessions /\ t.d = e /\ Alike(a, t)
    BY <1>1, <1>2, <1>6, WriteBlockMid
  <1>8. /\ e \in Disks /\ e.bbm = a.d.bbm /\ e.ibm = a.d.ibm /\ e.inode = a.d.inode
        /\ \A q \in BlockNos : e.blk[q] = IF q = b THEN y ELSE a.d.blk[q]
    BY ONLY <1>1, <1>2, y \in Blocks, PutBlkFacts
  <1>9. ASSUME NEW m \in R, NEW k \in Slots
        PROVE  Ptr(e, m, k) = Ptr(a.d, m, k)
    <2>1. m \in InodeNos /\ a.d.inode[m].ind # b
      <3>1. Ptr(a.d, m, MaxLen) = a.d.inode[m].ind
        BY DEF Ptr, PtrOf
      <3> QED
        BY <1>2, <1>5, <3>1, SlotFacts DEF Unowned
    <2> QED
      BY <1>1, <1>2, <2>1, PutBlkPtrs
  <1>10. Unowned(e, R, b)
    BY <1>5, <1>9 DEF Unowned
  <1> HIDE DEF e, t
  <1> QED
    BY <1>1, <1>4, <1>7, <1>8, <1>9, <1>10 DEF Alike, a, b, t

\* The new size of the directory is beyond all that was seen in it.
LEMMA EndFacts ==
    ASSUME NEW d \in Disks, NEW p \in InodeNos
    PROVE  /\ EndOf(DOMAIN SeenIn(d, p)) + BlockUnits \in Nat
           /\ \A x : Visible(d, p, x) => x < EndOf(DOMAIN SeenIn(d, p)) + BlockUnits
  <1> DEFINE T == DOMAIN SeenIn(d, p)
  <1>1. \A x : x \in T <=> Visible(d, p, x)
    BY SeenFacts DEF SeenIn
  <1>2. d.inode[p].size \in Nat
    BY DiskFacts DEF Inodes
  <1>3. \A x \in T : x \in 0 .. d.inode[p].size
    BY <1>1, <1>2 DEF Visible
  <1> HIDE DEF T
  <1>4. CASE T = {}
    BY <1>1, <1>4, Numbers DEF EndOf, T
  <1>5. CASE T # {}
    <2> DEFINE m == Max(T)
               q == m \div BlockUnits
    <2>1. m \in T /\ \A x \in T : x <= m
      BY <1>2, <1>3, <1>5, MaxFacts
    <2> HIDE DEF m
    <2>2. m \in Nat
      BY <1>2, <1>3, <2>1
    <2>3. q \in Nat /\ m % BlockUnits \in Offs /\ m = q * BlockUnits + (m % BlockUnits)
      BY <2>2, DivMod
    <2>4. EndOf(T) = (q + 1) * BlockUnits
      BY <1>5 DEF EndOf, m
    <2> HIDE DEF q
    <2>5. q * BlockUnits \in Nat /\ (q + 1) * BlockUnits = q * BlockUnits + BlockUnits
      BY <2>3, Numbers
    <2>6. m < EndOf(T)
      BY <2>3, <2>4, <2>5, Numbers DEF Offs
    <2>7. EndOf(T) + BlockUnits \in Nat /\ EndOf(T) \in Nat
      BY <2>4, <2>5, Numbers
    <2>8. ASSUME NEW x \in T
          PROVE  x < EndOf(T) + BlockUnits
      <3>1. x <= m /\ x \in Nat
        BY <1>2, <1>3, <2>1
      <3> QED
        BY <2>2, <2>6, <2>7, <3>1, Numbers
    <2> QED
      BY <1>1, <2>7, <2>8 DEF T
  <1> QED
    BY <1>4, <1>5

\* The block b is linked at k of directory p, which has the size sz now.
LinkDone(d, e, R, p, k, b, sz) ==
    /\ e.ibm = d.ibm
    /\ \A m \in R : /\ e.inode[m].mode = d.inode[m].mode
                    /\ m # p => e.inode[m] = d.inode[m]
    /\ e.inode[p].size = sz
    /\ \A m \in R, h \in Logicals : m # p \/ h # k => Ptr(e, m, h) = Ptr(d, m, h)
    /\ k \in Logicals => Ptr(e, p, k) = b
    /\ \A a \in BlockNos : e.blk[a].ents = d.blk[a].ents

Covers(d, p, sz) == \A x : Visible(d, p, x) => x < sz

LEMMA Finish ==
    ASSUME NEW d \in Disks, NEW R, NEW c, Good(d, R, c), NEW p \in R, NEW e, NEW f,
           NEW b, NEW name, Prepared(d, e, R, b, c, name),
           NEW k, NEW sz, LinkDone(e, f, R, p, k, b, sz), Covers(d, p, sz)
    PROVE  Others(d, f, R, p, k) /\ Placed(d, f, p, k, 0, name)
  <1>1. ASSUME NEW m \in R, NEW h \in Logicals, m # p \/ h # k
        PROVE  /\ Ptr(f, m, h) = Ptr(d, m, h)
               /\ Ptr(d, m, h) # 0 => f.blk[Ptr(d, m, h)].ents = d.blk[Ptr(d, m, h)].ents
    <2>1. Ptr(f, m, h) = Ptr(e, m, h) /\ h \in Slots
      BY <1>1, SlotFacts DEF LinkDone
    <2>2. Ptr(e, m, h) = Ptr(d, m, h)
      BY <2>1 DEF Prepared
    <2>3. Ptr(d, m, h) # 0 => Ptr(d, m, h) \in BlockNos
      BY <2>1, Owned
    <2> QED
      BY <2>1, <2>2, <2>3 DEF Prepared, LinkDone
  <1>2. Others(d, f, R, p, k)
    BY <1>1 DEF Others, LinkDone, Prepared, Covers
  <1>3. Placed(d, f, p, k, 0, name)
    <2> SUFFICES ASSUME k \in Logicals
                 PROVE  /\ Ptr(f, p, k) # 0
                        /\ NewEnts(f.blk[Ptr(f, p, k)].ents, d.blk[Ptr(d, p, k)].ents, 0, name,
                                   Ptr(d, p, k) # 0)
      BY DEF Placed
    <2>1. Ptr(f, p, k) = b /\ b \in BlockNos /\ b # 0
      BY SlotFacts DEF LinkDone, Prepared
    <2>2. f.blk[b].ents = e.blk[b].ents
      BY <2>1 DEF LinkDone
    <2> QED
      BY <2>1, <2>2 DEF NewEnts, Prepared
  <1> QED
    BY <1>2, <1>3

\* The pointers of p after the write of its inode.
LEMMA LinkDirectMid ==
    ASSUME NEW s \in Sessions, NEW R, NEW c, NEW g, NEW x, Mid(s, R, c, g, x),
           NEW p \in R, s.d.inode[p].mode = "dir", Ready(c, g, p),
           NEW d, NEW b, NEW name, Prepared(d, s.d, R, b, c, name), NEW sz \in Nat,
           s.d.inode[p].blocks < NDirect
    PROVE  LET k == s.d.inode[p].blocks
               u == LinkDirect(s, p, [s.d.inode[p] EXCEPT !.size = sz], b)
           IN  /\ Mid(u, R, Plus(c, p, k, 0), g, x) /\ u \in Sessions /\ Alike(s, u)
               /\ LinkDone(s.d, u.d, R, p, k, b, sz)
  <1> DEFINE e == s.d
             i == e.inode[p]
             k == i.blocks
             j == [i EXCEPT !.size = sz, !.block[k] = b, !.blocks = @ + 1]
             u == LinkDirect(s, p, [i EXCEPT !.size = sz], b)
             t == Plus(c, p, k, 0)
             f == PutInode(e, p, j)
  <1>0. /\ e \in Disks /\ Good(e, R, c) /\ R \in SUBSET InodeNos /\ p \in InodeNos
    BY SessionFacts DEF Mid, Good
  <1>1. /\ i \in Inodes /\ k \in Nat /\ k >= 1 /\ k \in 0 .. NDirect - 1
        /\ k \in Logicals /\ k \in Slots /\ k # MaxLen /\ k # 0
    <2>1. i \in Inodes /\ k \in Nat
      BY <1>0, DiskFacts DEF Inodes
    <2>2. k >= 1
      BY <1>0 DEF Good, Heads
    <2> HIDE DEF i, k
    <2> QED
      BY <2>1, <2>2, Numbers DEF Logicals, Slots, k, i
  <1>2. /\ b \in BlockNos /\ b \in e.bbm /\ Unowned(e, R, b) /\ b # 0 /\ b \in Refs
        /\ DOMAIN e.blk[b].ents = {0} /\ e.blk[b].ents[0].inode = c.n
        /\ e.blk[b].ents[0].type = c.type
    BY SlotFacts DEF Prepared
  <1>3. i.block \in [0 .. NDirect - 1 -> Refs] /\ i.size \in Nat
    BY <1>1, Zenon DEF Inodes
  <1>4. u = WriteInode(s, p, j)
    <2>1. [[i EXCEPT !.size = sz] EXCEPT !.block[[i EXCEPT !.size = sz].blocks] = b,
                                         !.blocks = @ + 1] = j
      BY <1>1 DEF Inodes
    <2> QED
      BY <2>1 DEF LinkDirect
  <1>5. /\ j \in Inodes /\ j.size = sz /\ j.mode = i.mode /\ j.links = i.links
        /\ j.blocks = k + 1 /\ j.ind = i.ind
        /\ \A h \in 0 .. NDirect - 1 : j.block[h] = IF h = k THEN b ELSE i.block[h]
    <2> DEFINE w == [i.block EXCEPT ![k] = b]
    <2>1. /\ w \in [0 .. NDirect - 1 -> Refs]
          /\ \A h \in 0 .. NDirect - 1 : w[h] = IF h = k THEN b ELSE i.block[h]
      BY <1>1, <1>2, <1>3, Zenon
    <2>2. j = [i EXCEPT !.size = sz, !.block = w, !.blocks = k + 1]
      OBVIOUS
    <2>3. k + 1 \in Nat
      BY <1>1
    <2> HIDE DEF w, k, i, j
    <2> QED
      BY <1>1, <2>1, <2>2, <2>3, Zenon DEF Inodes
  <1> HIDE DEF j
  <1>6. /\ f \in Disks /\ f.bbm = e.bbm /\ f.ibm = e.ibm /\ f.blk = e.blk
        /\ \A m \in InodeNos : f.inode[m] = IF m = p THEN j ELSE e.inode[m]
    BY ONLY <1>0, <1>5, PutInodeFacts
  <1>7. /\ \A m \in InodeNos \ {p}, h \in Slots : Ptr(f, m, h) = Ptr(e, m, h)
        /\ \A h \in Slots : Ptr(f, p, h) = PtrOf(e, j, h)
    BY ONLY <1>0, <1>5, PutInodePtrs
  <1>8. ASSUME NEW h \in Slots
        PROVE  PtrOf(e, j, h) = IF h = k THEN b ELSE Ptr(e, p, h)
    <2>1. h < NDirect \/ h \in NDirect .. MaxLen - 1 \/ h = MaxLen
      BY Numbers DEF Slots
    <2>2. CASE h < NDirect
      <3>1. h \in 0 .. NDirect - 1
        BY <2>2, Numbers DEF Slots
      <3>2. PtrOf(e, j, h) = j.block[h] /\ PtrOf(e, i, h) = i.block[h]
        BY <1>0, <1>1, <1>5, <2>2, PtrFacts
      <3> QED
        BY <1>5, <3>1, <3>2 DEF Ptr
    <2>3. CASE h \in NDirect .. MaxLen - 1
      <3>1. h # k
        BY <1>1, <2>3, Numbers
      <3>2. PtrOf(e, j, h) = PtrOf(e, i, h)
        BY <1>0, <1>1, <1>5, <2>3, PtrFacts
      <3> QED
        BY <3>1, <3>2 DEF Ptr
    <2>4. CASE h = MaxLen
      BY <1>1, <1>5, <2>4 DEF Ptr, PtrOf
    <2> QED
      BY <2>1, <2>2, <2>3, <2>4
  <1>9. /\ Good(e, R, t) /\ (g => Settled(t)) /\ t.n = c.n /\ t.type = c.type
        /\ t.at = c.at \cup {<<p, k, 0>>}
    <2>1. 0 \in Offs
      BY SlotFacts
    <2> HIDE DEF e, k
    <2> QED
      BY <1>0, <1>1, <2>1, PlusFacts
  <1> HIDE DEF t, f
  <1>10. Repointed(e, f, R, p, k, b, MaxLen, 0)
    BY <1>0, <1>7, <1>8 DEF Repointed
  <1>11. Fresh(e, f, R, b) /\ Fresh(e, f, R, 0)
    BY <1>2, <1>6 DEF Fresh
  <1>12. Holds(f, b, t, p, k)
    BY <1>2, <1>6, <1>9 DEF Holds, Ready
  <1>13. SameEnts(e, f, R)
    BY <1>6 DEF SameEnts
  <1>14. SameInodes(e, f, R)
    BY <1>0, <1>5, <1>6 DEF SameInodes
  <1>15. SameHeads(e, f, R)
    <2> SUFFICES ASSUME NEW m \in R, e.inode[m].mode = "dir"
                 PROVE  f.inode[m].blocks >= 1 /\ Ptr(f, m, 0) = Ptr(e, m, 0)
      BY DEF SameHeads
    <2>1. CASE m = p
      BY <1>0, <1>1, <1>5, <1>6, <1>7, <1>8, <2>1, SlotFacts
    <2>2. CASE m # p
      BY <1>0, <1>6, <1>7, <2>2, SlotFacts DEF Good, Heads
    <2> QED
      BY <2>1, <2>2
  <1>16. Good(f, R, t)
    <2>1. b # 0 \/ 0 = 0
      OBVIOUS
    <2> HIDE DEF e, k
    <2> QED
      BY <1>0, <1>1, <1>2, <1>6, <1>9, <1>10, <1>11, <1>12, <1>13, <1>14, <1>15, Attach
  <1>17. /\ Mid(u, R, t, g, x) /\ u \in Sessions /\ u.d = f /\ Alike(s, u)
    BY <1>0, <1>4, <1>5, <1>9, <1>16, WriteInodeMid DEF f
  <1>18. LinkDone(e, f, R, p, k, b, sz)
    BY <1>0, <1>1, <1>5, <1>6, <1>7, <1>8, SlotFacts DEF LinkDone
  <1> QED
    BY <1>17, <1>18 DEF t

\* A pointer is stored in the table of an inode in use.
WithPtr(y, j, b)    == [y EXCEPT !.ptrs[j] = b]
Pointed(d, a, j, b) == PutBlk(d, a, WithPtr(d.blk[a], j, b))

LEMMA PointedFacts ==
    ASSUME NEW d \in Disks, NEW a \in BlockNos, NEW j \in 0 .. PtrsPerBlock - 1, NEW b \in Refs
    PROVE  LET e == Pointed(d, a, j, b)
               y == WithPtr(d.blk[a], j, b)
           IN  /\ e \in Disks /\ e.bbm = d.bbm /\ e.ibm = d.ibm /\ e.inode = d.inode
               /\ y \in Blocks /\ e.blk[a] = y
               /\ \A q \in BlockNos : /\ e.blk[q].ents = d.blk[q].ents
                                      /\ q # a => e.blk[q] = d.blk[q]
               /\ \A i \in 0 .. PtrsPerBlock - 1 :
                     e.blk[a].ptrs[i] = IF i = j THEN b ELSE d.blk[a].ptrs[i]
  <1> DEFINE w == [d.blk[a].ptrs EXCEPT ![j] = b]
             y == WithPtr(d.blk[a], j, b)
             e == Pointed(d, a, j, b)
  <1>1. d.blk[a] \in Blocks /\ d.blk[a].ptrs \in [0 .. PtrsPerBlock - 1 -> Refs]
    BY DiskFacts
  <1>2. /\ w \in [0 .. PtrsPerBlock - 1 -> Refs]
        /\ \A i \in 0 .. PtrsPerBlock - 1 : w[i] = IF i = j THEN b ELSE d.blk[a].ptrs[i]
    BY <1>1, Zenon
  <1>3. y = [d.blk[a] EXCEPT !.ptrs = w]
    BY DEF WithPtr
  <1> HIDE DEF w
  <1>4. y \in Blocks /\ y.ptrs = w /\ y.ents = d.blk[a].ents
    BY <1>1, <1>2, <1>3 DEF Blocks
  <1>5. e = PutBlk(d, a, y)
    BY DEF Pointed
  <1> HIDE DEF y, e
  <1>6. /\ e \in Disks /\ e.bbm = d.bbm /\ e.ibm = d.ibm /\ e.inode = d.inode
        /\ \A q \in BlockNos : e.blk[q] = IF q = a THEN y ELSE d.blk[q]
    BY ONLY d \in Disks, a \in BlockNos, <1>4, <1>5, PutBlkFacts
  <1> QED
    BY <1>2, <1>4, <1>6, Zenon DEF y, e

LEMMA PointedPtrs ==
    ASSUME NEW d \in Disks, NEW R, NEW c, Good(d, R, c), NEW n \in R, d.inode[n].ind # 0,
           NEW j \in 0 .. PtrsPerBlock - 1, NEW b \in Refs
    PROVE  \A m \in R, h \in Slots :
              Ptr(Pointed(d, d.inode[n].ind, j, b), m, h)
                = IF m = n /\ h = j + NDirect THEN b ELSE Ptr(d, m, h)
  <1> DEFINE a == d.inode[n].ind
             e == Pointed(d, a, j, b)
  <1>0. R \in SUBSET InodeNos /\ n \in InodeNos
    BY DEF Good
  <1>1. a \in BlockNos /\ Ptr(d, n, MaxLen) = a
    <2>1. d.inode[n] \in Inodes /\ MaxLen \in Slots
      BY <1>0, DiskFacts, SlotFacts
    <2> QED
      BY <2>1, PtrFacts DEF Ptr, PtrOf
  <1>2. /\ e \in Disks /\ e.inode = d.inode
        /\ \A q \in BlockNos : q # a => e.blk[q] = d.blk[q]
        /\ \A i \in 0 .. PtrsPerBlock - 1 :
              e.blk[a].ptrs[i] = IF i = j THEN b ELSE d.blk[a].ptrs[i]
    <2> HIDE DEF a
    <2> QED
      BY <1>1, PointedFacts
  <1> HIDE DEF e
  <1> SUFFICES ASSUME NEW m \in R, NEW h \in Slots
               PROVE  Ptr(e, m, h) = IF m = n /\ h = j + NDirect THEN b ELSE Ptr(d, m, h)
    BY DEF e
  <1>3. d.inode[m] \in Inodes /\ m \in InodeNos
    BY <1>0, DiskFacts
  <1>4. CASE m # n
    <2>1. d.inode[m].ind # a
      <3>1. Ptr(d, m, MaxLen) = d.inode[m].ind
        BY DEF Ptr, PtrOf
      <3> QED
        BY <1>1, <1>4, <3>1, Owned, SlotFacts
    <2>2. d.inode[m].ind # 0 => d.inode[m].ind \in BlockNos
      BY <1>3, PtrFacts
    <2>3. Ptr(e, m, h) = Ptr(d, m, h)
      BY <1>2, <1>3, <2>1, <2>2, SamePtrs, Zenon
    <2> QED
      BY <1>4, <2>3
  <1>5. CASE m = n
    <2>1. h < NDirect \/ h \in NDirect .. MaxLen - 1 \/ h = MaxLen
      BY Numbers DEF Slots
    <2>2. CASE h \in NDirect .. MaxLen - 1
      <3>1. h - NDirect \in 0 .. PtrsPerBlock - 1 /\ (h = j + NDirect <=> h - NDirect = j)
        BY <2>2, Numbers
      <3>2. Ptr(e, n, h) = e.blk[a].ptrs[h - NDirect]
        BY <1>2, <1>3, <1>5, <2>2, PtrFacts DEF Ptr
      <3>3. Ptr(d, n, h) = d.blk[a].ptrs[h - NDirect]
        BY <1>3, <1>5, <2>2, PtrFacts DEF Ptr
      <3> QED
        BY <1>2, <1>5, <3>1, <3>2, <3>3, Zenon
    <2>3. CASE h < NDirect
      <3>1. h # j + NDirect
        BY <2>3, Numbers DEF Slots
      <3>2. Ptr(e, n, h) = d.inode[n].block[h] /\ Ptr(d, n, h) = d.inode[n].block[h]
        BY <1>2, <1>3, <1>5, <2>3, PtrFacts DEF Ptr
      <3> QED
        BY <1>5, <3>1, <3>2
    <2>4. CASE h = MaxLen
      <3>1. h # j + NDirect
        BY <2>4, Numbers
      <3> QED
        BY <1>2, <1>5, <2>4, <3>1 DEF Ptr, PtrOf
    <2> QED
      BY <2>1, <2>2, <2>3, <2>4
  <1> QED
    BY <1>4, <1>5

\* A block that may be linked: in use, owned by nobody, with names in transit only.
Linkable(d, R, c, n, k, b) ==
    /\ b \in BlockNos /\ b \in d.bbm /\ Unowned(d, R, b)
    /\ d.inode[n].mode = "dir" => Holds(d, b, c, n, k)

LEMMA PointedGood ==
    ASSUME NEW d \in Disks, NEW R, NEW c, Good(d, R, c), NEW n \in R, d.inode[n].ind # 0,
           NEW j \in 0 .. PtrsPerBlock - 1, NEW b, Linkable(d, R, c, n, j + NDirect, b)
    PROVE  Good(Pointed(d, d.inode[n].ind, j, b), R, c)
  <1> DEFINE a == d.inode[n].ind
             e == Pointed(d, a, j, b)
             k == j + NDirect
  <1>0. /\ R \in SUBSET InodeNos /\ n \in InodeNos /\ b \in Refs /\ b # 0
        /\ k \in Slots /\ k # 0 /\ k # MaxLen
    BY SlotFacts, Numbers DEF Good, Linkable, Slots
  <1>1. a \in BlockNos
    BY <1>0, DiskFacts, PtrFacts, SlotFacts
  <1>2. /\ e \in Disks /\ e.bbm = d.bbm /\ e.ibm = d.ibm /\ e.inode = d.inode
        /\ \A q \in BlockNos : e.blk[q].ents = d.blk[q].ents
    <2> HIDE DEF a
    <2> QED
      BY <1>0, <1>1, PointedFacts
  <1>3. \A m \in R, h \in Slots :
           Ptr(e, m, h) = IF m = n /\ h = k THEN b ELSE Ptr(d, m, h)
    BY <1>0, PointedPtrs
  <1> HIDE DEF e, k, a
  <1>4. Repointed(d, e, R, n, k, b, MaxLen, 0)
    BY <1>3 DEF Repointed
  <1>5. Fresh(d, e, R, b) /\ Fresh(d, e, R, 0)
    BY <1>2 DEF Fresh, Linkable
  <1>6. d.inode[n].mode = "dir" => Holds(e, b, c, n, k)
    <2>1. e.blk[b].ents = d.blk[b].ents
      BY <1>2 DEF Linkable
    <2> QED
      BY <2>1 DEF Holds, Linkable, k
  <1>7. SameEnts(d, e, R)
    BY <1>2, Owned, SlotFacts DEF SameEnts
  <1>8. SameHeads(d, e, R) /\ SameInodes(d, e, R)
    BY <1>0, <1>2, <1>3, SlotFacts DEF SameHeads, SameInodes, Good, Heads
  <1>9. b # 0 \/ 0 = 0
    OBVIOUS
  <1>10. Good(e, R, c)
    BY <1>0, <1>2, <1>4, <1>5, <1>6, <1>7, <1>8, <1>9, Attach
  <1> QED
    BY <1>10 DEF e, a

\* The inode of p after a link in its table.
Tabled(i, sz, a) == [[i EXCEPT !.size = sz] EXCEPT !.ind = a, !.blocks = @ + 1]

LEMMA TabledFacts ==
    ASSUME NEW i \in Inodes, NEW sz \in Nat, NEW a \in Refs
    PROVE  /\ Tabled(i, sz, a) \in Inodes /\ Tabled(i, sz, a).size = sz
           /\ Tabled(i, sz, a).mode = i.mode /\ Tabled(i, sz, a).links = i.links
           /\ Tabled(i, sz, a).block = i.block /\ Tabled(i, sz, a).ind = a
           /\ Tabled(i, sz, a).blocks = i.blocks + 1
  <1> DEFINE j == [i EXCEPT !.size = sz]
             h == [j EXCEPT !.ind = a]
  <1>1. /\ j \in Inodes /\ j.size = sz /\ j.mode = i.mode /\ j.links = i.links
        /\ j.block = i.block /\ j.blocks = i.blocks
    BY DEF Inodes
  <1> HIDE DEF j
  <1>2. /\ h \in Inodes /\ h.size = sz /\ h.mode = i.mode /\ h.links = i.links
        /\ h.block = i.block /\ h.blocks = i.blocks /\ h.ind = a
    BY <1>1 DEF Inodes
  <1>3. Tabled(i, sz, a) = [h EXCEPT !.blocks = h.blocks + 1]
    BY <1>1, <1>2 DEF Tabled, j, Inodes
  <1> HIDE DEF h
  <1>4. h.blocks + 1 \in Nat
    BY <1>2 DEF Inodes
  <1> QED
    BY <1>2, <1>3, <1>4 DEF Inodes

LEMMA PutSame ==
    ASSUME NEW d \in Disks, NEW a \in BlockNos
    PROVE  PutBlk(d, a, d.blk[a]) = d
  BY DEF PutBlk, Disks

\* The block is linked in a table that the directory has.
LEMMA OldTableMid ==
    ASSUME NEW s \in Sessions, NEW R, NEW c, NEW g, NEW x, Mid(s, R, c, g, x),
           NEW p \in R, s.d.inode[p].mode = "dir", Ready(c, g, p),
           NEW d, NEW b, NEW name, Prepared(d, s.d, R, b, c, name), NEW sz \in Nat,
           s.d.inode[p].blocks >= NDirect, s.d.inode[p].ind # 0
    PROVE  LET i == s.d.inode[p]
               k == i.blocks
               u == WriteInode(SetPointer(s, i.ind, k - NDirect, b), p, Tabled(i, sz, i.ind))
           IN  /\ Mid(u, R, Plus(c, p, k, 0), g, x) /\ u \in Sessions /\ Alike(s, u)
               /\ LinkDone(s.d, u.d, R, p, k, b, sz)
  <1> DEFINE e == s.d
             i == e.inode[p]
             a == i.ind
             k == i.blocks
             n == k - NDirect
             j == Tabled(i, sz, a)
             q == SetPointer(s, a, n, b)
             u == WriteInode(q, p, j)
             t == Plus(c, p, k, 0)
             y == IF n < PtrsPerBlock THEN WithPtr(e.blk[a], n, b) ELSE e.blk[a]
             f == PutBlk(e, a, y)
  <1>0. /\ e \in Disks /\ Good(e, R, c) /\ R \in SUBSET InodeNos /\ p \in InodeNos
    BY SessionFacts DEF Mid, Good
  <1>1. i \in Inodes /\ k \in Nat /\ a \in BlockNos /\ a \in Refs /\ k >= NDirect
    <2>1. i \in Inodes /\ 0 \in Slots
      BY <1>0, DiskFacts, SlotFacts
    <2> QED
      BY <1>0, <2>1, PtrFacts, SlotFacts, Zenon DEF Inodes
  <1>2. /\ b \in BlockNos /\ b \in e.bbm /\ Unowned(e, R, b) /\ b # 0 /\ b \in Refs
        /\ DOMAIN e.blk[b].ents = {0} /\ e.blk[b].ents[0].inode = c.n
        /\ e.blk[b].ents[0].type = c.type
    BY SlotFacts DEF Prepared
  <1>3. /\ j \in Inodes /\ j.size = sz /\ j.mode = i.mode /\ j.links = i.links
        /\ j.block = i.block /\ j.ind = i.ind /\ j.blocks = k + 1
    <2> HIDE DEF i, a
    <2> QED
      BY <1>1, TabledFacts DEF a
  <1>4. /\ Good(e, R, t) /\ (g => Settled(t)) /\ t.n = c.n
        /\ k \in Logicals => t.type = c.type /\ t.at = c.at \cup {<<p, k, 0>>}
    <2>1. 0 \in Offs
      BY SlotFacts
    <2> HIDE DEF e, k
    <2> QED
      BY <1>0, <1>1, <2>1, PlusFacts
  <1>5. q = WriteBlock(s, a, y)
    BY DEF SetPointer, WithPtr
  <1> HIDE DEF t, j
  <1>6. /\ Good(f, R, t) /\ f \in Disks /\ f.bbm = e.bbm /\ f.ibm = e.ibm /\ f.inode = e.inode
        /\ y \in Blocks
        /\ \A z \in BlockNos : f.blk[z].ents = e.blk[z].ents
        /\ \A m \in R, h \in Logicals : m # p \/ h # k => Ptr(f, m, h) = Ptr(e, m, h)
        /\ k \in Logicals => Ptr(f, p, k) = b
    <2>1. CASE n < PtrsPerBlock
      <3>1. n \in 0 .. PtrsPerBlock - 1 /\ n + NDirect = k /\ k \in Logicals /\ k \in Slots
        <4> HIDE DEF k
        <4> QED
          BY <1>1, <2>1, Numbers DEF Logicals, Slots
      <3>2. f = Pointed(e, a, n, b) /\ y = WithPtr(e.blk[a], n, b)
        BY <2>1 DEF Pointed
      <3>3. Linkable(e, R, t, p, k, b)
        <4>1. Holds(e, b, t, p, k)
          BY <1>2, <1>4, <3>1 DEF Holds, Ready
        <4> QED
          BY <1>2, <4>1 DEF Linkable
      <3> HIDE DEF f, y
      <3>4. /\ f \in Disks /\ f.bbm = e.bbm /\ f.ibm = e.ibm /\ f.inode = e.inode
            /\ y \in Blocks
            /\ \A z \in BlockNos : f.blk[z].ents = e.blk[z].ents
        <4> HIDE DEF a, n, e
        <4> QED
          BY <1>0, <1>1, <1>2, <3>1, <3>2, PointedFacts
      <3>5. \A m \in R, h \in Slots : Ptr(f, m, h) = IF m = p /\ h = k THEN b ELSE Ptr(e, m, h)
        <4> HIDE DEF n, e
        <4>1. \A m \in R, h \in Slots :
                Ptr(f, m, h) = IF m = p /\ h = n + NDirect THEN b ELSE Ptr(e, m, h)
          BY <1>0, <1>2, <3>1, <3>2, PointedPtrs DEF e
        <4> QED
          BY <3>1, <4>1
      <3>6. Good(f, R, t)
        <4> HIDE DEF n
        <4> QED
          BY <1>0, <1>4, <3>1, <3>2, <3>3, PointedGood
      <3> QED
        BY <3>1, <3>4, <3>5, <3>6, SlotFacts
    <2>2. CASE ~(n < PtrsPerBlock)
      <3>1. k \notin Logicals
        <4> HIDE DEF k
        <4> QED
          BY <1>1, <2>2, Numbers DEF Logicals
      <3>2. f = e /\ y = e.blk[a]
        BY <1>0, <1>1, <2>2, PutSame
      <3>3. y \in Blocks
        BY <1>0, <1>1, <3>2, DiskFacts
      <3> QED
        BY <1>0, <1>4, <3>1, <3>2, <3>3, Zenon
    <2> QED
      BY <2>1, <2>2, Zenon
  <1> HIDE DEF y
  <1>7. /\ Mid(q, R, t, g, x) /\ q \in Sessions /\ q.d = f /\ Alike(s, q)
    BY <1>1, <1>4, <1>5, <1>6, WriteBlockMid, SMTT(60)
  <1> HIDE DEF f, q
  <1>8. /\ Good(PutInode(f, p, j), R, t)
        /\ \A m \in InodeNos, h \in Slots : Ptr(PutInode(f, p, j), m, h) = Ptr(f, m, h)
    <2>1. j.blocks >= 1
      BY <1>1, <1>3
    <2> QED
      BY <1>3, <1>6, <2>1, Resize
  <1>9. /\ Mid(u, R, t, g, x) /\ u \in Sessions /\ u.d = PutInode(f, p, j) /\ Alike(q, u)
    BY <1>0, <1>3, <1>4, <1>7, <1>8, WriteInodeMid
  <1>10. /\ PutInode(f, p, j).ibm = f.ibm
         /\ PutInode(f, p, j).blk = f.blk
         /\ \A m \in InodeNos : PutInode(f, p, j).inode[m] = IF m = p THEN j ELSE f.inode[m]
    BY ONLY <1>0, <1>3, <1>6, PutInodeFacts
  <1>11. LinkDone(e, u.d, R, p, k, b, sz)
    BY <1>0, <1>3, <1>6, <1>8, <1>9, <1>10, SlotFacts DEF LinkDone
  <1> QED
    BY <1>7, <1>9, <1>11, Zenon DEF t, Alike, q, j

\* The block a becomes the table of directory p, with the block b in it.
TableFor(d, R, a, k, b) ==
    /\ a \in BlockNos /\ a \in d.bbm /\ Unowned(d, R, a)
    /\ b \in BlockNos /\ b \in d.bbm /\ Unowned(d, R, b) /\ b # a
    /\ \A j \in 0 .. PtrsPerBlock - 1 : d.blk[a].ptrs[j] = IF j + NDirect = k THEN b ELSE 0

LEMMA NewTablePtrs ==
    ASSUME NEW d \in Disks, NEW R, NEW c, Good(d, R, c),
           NEW p \in R, d.inode[p].ind = 0,
           NEW k \in Nat, k >= NDirect, NEW a, NEW b, TableFor(d, R, a, k, b),
           NEW i \in Inodes, i.block = d.inode[p].block, i.ind = a
    PROVE  /\ \A m \in R, h \in Slots : m # p => Ptr(PutInode(d, p, i), m, h) = Ptr(d, m, h)
           /\ Ptr(PutInode(d, p, i), p, MaxLen) = a
           /\ \A h \in Logicals : Ptr(PutInode(d, p, i), p, h) = IF h = k THEN b ELSE Ptr(d, p, h)
  <1> DEFINE e == PutInode(d, p, i)
  <1>0. R \in SUBSET InodeNos /\ p \in InodeNos /\ d.inode[p] \in Inodes
    BY DiskFacts DEF Good
  <1>1. /\ \A m \in InodeNos \ {p}, h \in Slots : Ptr(e, m, h) = Ptr(d, m, h)
        /\ \A h \in Slots : Ptr(e, p, h) = PtrOf(d, i, h)
    BY <1>0, PutInodePtrs
  <1>2. MaxLen \in Slots /\ a \in BlockNos /\ a # 0
    BY SlotFacts DEF TableFor
  <1>3. PtrOf(d, i, MaxLen) = a
    BY <1>2, PtrFacts
  <1>4. ASSUME NEW h \in Logicals
        PROVE  PtrOf(d, i, h) = IF h = k THEN b ELSE Ptr(d, p, h)
    <2>0. h \in Slots
      BY SlotFacts
    <2>1. CASE h < NDirect
      <3>1. PtrOf(d, i, h) = i.block[h] /\ PtrOf(d, d.inode[p], h) = d.inode[p].block[h]
        BY <1>0, <2>0, <2>1, PtrFacts
      <3>2. h # k
        BY <2>1, Numbers DEF Logicals
      <3> QED
        BY <3>1, <3>2 DEF Ptr
    <2>2. CASE ~(h < NDirect)
      <3>1. h \in NDirect .. MaxLen - 1 /\ h - NDirect \in 0 .. PtrsPerBlock - 1
            /\ (h - NDirect) + NDirect = h
        BY <2>2, Numbers DEF Logicals
      <3>2. PtrOf(d, i, h) = d.blk[a].ptrs[h - NDirect]
        BY <1>2, <2>0, <3>1, PtrFacts
      <3>3. PtrOf(d, d.inode[p], h) = 0
        BY <1>0, <2>0, <3>1, PtrFacts
      <3> QED
        BY <3>1, <3>2, <3>3 DEF Ptr, TableFor
    <2> QED
      BY <2>1, <2>2
  <1> QED
    BY <1>0, <1>1, <1>2, <1>3, <1>4, SlotFacts

LEMMA NewTableGood ==
    ASSUME NEW d \in Disks, NEW R, NEW c, Good(d, R, c),
           NEW p \in R, d.inode[p].mode = "dir", d.inode[p].ind = 0,
           NEW k \in Nat, k >= NDirect, NEW a, NEW b, TableFor(d, R, a, k, b),
           k \in Logicals => Holds(d, b, c, p, k),
           NEW i \in Inodes, i.block = d.inode[p].block, i.ind = a, i.mode = d.inode[p].mode,
           i.links = d.inode[p].links, i.blocks >= 1
    PROVE  Good(PutInode(d, p, i), R, c)
  <1> DEFINE e == PutInode(d, p, i)
             h == IF k \in Logicals THEN k ELSE 0
             y == IF k \in Logicals THEN b ELSE 0
  <1>0. R \in SUBSET InodeNos /\ p \in InodeNos /\ MaxLen \in Slots /\ h \in Slots
    BY SlotFacts DEF Good
  <1>1. /\ e \in Disks /\ e.bbm = d.bbm /\ e.ibm = d.ibm /\ e.blk = d.blk
        /\ \A m \in InodeNos : e.inode[m] = IF m = p THEN i ELSE d.inode[m]
    BY <1>0, PutInodeFacts
  <1>2. /\ \A m \in R, q \in Slots : m # p => Ptr(e, m, q) = Ptr(d, m, q)
        /\ Ptr(e, p, MaxLen) = a
        /\ \A q \in Logicals : Ptr(e, p, q) = IF q = k THEN b ELSE Ptr(d, p, q)
    BY NewTablePtrs
  <1> HIDE DEF e
  <1>3. Repointed(d, e, R, p, h, y, MaxLen, a)
    <2>1. ASSUME NEW m \in R, NEW q \in Slots
          PROVE  \/ Ptr(e, m, q) = 0 \/ Ptr(e, m, q) = Ptr(d, m, q)
                 \/ m = p /\ q = h /\ Ptr(e, m, q) = y
                 \/ m = p /\ q = MaxLen /\ Ptr(e, m, q) = a
      <3>1. q = MaxLen \/ q \in Logicals
        BY Numbers DEF Slots, Logicals
      <3> QED
        BY <1>2, <3>1
    <2> QED
      BY <2>1 DEF Repointed
  <1>4. Fresh(d, e, R, y) /\ Fresh(d, e, R, a) /\ (y # a \/ a = 0)
    BY <1>1, SlotFacts DEF Fresh, TableFor
  <1>5. y # 0 => Holds(e, y, c, p, h)
    BY <1>1 DEF Holds
  <1>6. SameEnts(d, e, R)
    BY <1>1 DEF SameEnts
  <1>7. SameHeads(d, e, R)
    <2>1. 0 \in Logicals /\ 0 # k
      BY SlotFacts, Numbers
    <2>2. \A m \in R : Ptr(e, m, 0) = Ptr(d, m, 0)
      BY <1>2, <2>1, SlotFacts
    <2>3. \A m \in R : d.inode[m].mode = "dir" => e.inode[m].blocks >= 1
      BY <1>0, <1>1 DEF Good, Heads
    <2> QED
      BY <2>2, <2>3 DEF SameHeads
  <1>8. SameInodes(d, e, R)
    BY <1>0, <1>1, SMTT(30) DEF SameInodes
  <1> HIDE DEF h, y
  <1> QED
    BY <1>0, <1>1, <1>3, <1>4, <1>5, <1>6, <1>7, <1>8, Attach DEF e

\* The block is linked in a table that the directory gets with it.
LEMMA NewTableMid ==
    ASSUME NEW s \in Sessions, NEW R, NEW c, NEW g, NEW x, Mid(s, R, c, g, x),
           NEW p \in R, s.d.inode[p].mode = "dir", Ready(c, g, p),
           NEW d, NEW b, NEW name, Prepared(d, s.d, R, b, c, name), NEW sz \in Nat,
           s.d.inode[p].blocks >= NDirect, s.d.inode[p].ind = 0, AllocBlock(s).ok
    PROVE  LET i == s.d.inode[p]
               k == i.blocks
               o == AllocBlock(s).out
               t == WriteBlock(AllocBlock(s), o, ZeroBlock)
               u == WriteInode(SetPointer(t, o, k - NDirect, b), p, Tabled(i, sz, o))
           IN  /\ Mid(u, R, Plus(c, p, k, 0), g, x) /\ u \in Sessions
               /\ u.ok = TRUE /\ u.marks = s.marks
               /\ Prepared(d, t.d, R, b, c, name) /\ LinkDone(t.d, u.d, R, p, k, b, sz)
  <1> DEFINE i == s.d.inode[p]
             k == i.blocks
             n == k - NDirect
             o == AllocBlock(s).out
             t == WriteBlock(AllocBlock(s), o, ZeroBlock)
             e == t.d
             j == Tabled(i, sz, o)
             q == SetPointer(t, o, n, b)
             u == WriteInode(q, p, j)
             y == IF n < PtrsPerBlock THEN WithPtr(e.blk[o], n, b) ELSE e.blk[o]
             f == PutBlk(e, o, y)
             z == Plus(c, p, k, 0)
  <1>0. /\ s.d \in Disks /\ Good(s.d, R, c) /\ R \in SUBSET InodeNos /\ p \in InodeNos
        /\ (g => Settled(c))
    BY SessionFacts DEF Mid, Good
  <1>1. i \in Inodes /\ k \in Nat /\ k >= NDirect
    BY <1>0, DiskFacts DEF Inodes
  <1>2. /\ b \in BlockNos /\ b \in s.d.bbm /\ Unowned(s.d, R, b) /\ b # 0 /\ b \in Refs
        /\ DOMAIN s.d.blk[b].ents = {0} /\ s.d.blk[b].ents[0].inode = c.n
        /\ s.d.blk[b].ents[0].type = c.type
    BY SlotFacts DEF Prepared
  <1>3. /\ Mid(t, R, c, g, x) /\ t \in Sessions /\ t.ok = TRUE /\ t.marks = s.marks
        /\ o \in BlockNos /\ o \in e.bbm /\ Unowned(e, R, o) /\ o \notin s.d.bbm
        /\ e.inode = s.d.inode /\ e.ibm = s.d.ibm /\ e.bbm = s.d.bbm \cup {o}
        /\ \A m \in R, h \in Slots : Ptr(e, m, h) = Ptr(s.d, m, h)
        /\ \A v \in BlockNos : e.blk[v] = IF v = o THEN ZeroBlock ELSE s.d.blk[v]
    <2>1. ZeroBlock \in Blocks
      BY ZeroFacts
    <2>2. AllocBlock(s).ok \in BOOLEAN
      BY AllocBlockMid DEF Sessions
    <2> QED
      BY <2>1, <2>2, PrepareMid DEF Alike
  <1> HIDE DEF t, e, o
  <1>4. b # o /\ o \in Refs /\ e \in Disks /\ Good(e, R, c) /\ b \in e.bbm /\ Unowned(e, R, b)
        /\ e.blk[b] = s.d.blk[b] /\ i = e.inode[p]
    <2>1. b # o
      BY <1>2, <1>3
    <2>2. e \in Disks /\ Good(e, R, c)
      BY <1>3, SessionFacts DEF Mid, e
    <2> QED
      BY <1>2, <1>3, <2>1, <2>2, SlotFacts DEF Unowned
  <1>5. Prepared(d, e, R, b, c, name)
    <2>1. \A m \in R, h \in Slots : Ptr(d, m, h) # 0 => e.blk[Ptr(d, m, h)] = s.d.blk[Ptr(d, m, h)]
      <3>1. SUFFICES ASSUME NEW m \in R, NEW h \in Slots, Ptr(d, m, h) # 0
                     PROVE  e.blk[Ptr(d, m, h)] = s.d.blk[Ptr(d, m, h)]
        OBVIOUS
      <3>2. Ptr(s.d, m, h) = Ptr(d, m, h)
        BY DEF Prepared
      <3>3. Ptr(s.d, m, h) \in BlockNos /\ Ptr(s.d, m, h) \in s.d.bbm
        BY <1>0, <3>1, <3>2, Owned
      <3> QED
        BY <1>3, <3>2, <3>3
    <2> QED
      BY <1>2, <1>3, <1>4, <2>1 DEF Prepared
  <1>6. /\ Good(e, R, z) /\ (g => Settled(z)) /\ z.n = c.n /\ z.type = c.type
        /\ k \in Logicals => z.at = c.at \cup {<<p, k, 0>>}
    <2>1. 0 \in Offs
      BY SlotFacts
    <2> HIDE DEF k
    <2> QED
      BY <1>0, <1>1, <1>4, <2>1, PlusFacts
  <1>7. /\ j \in Inodes /\ j.size = sz /\ j.mode = i.mode /\ j.links = i.links
        /\ j.block = i.block /\ j.ind = o /\ j.blocks = k + 1
    <2> HIDE DEF i
    <2> QED
      BY <1>1, <1>4, TabledFacts
  <1> HIDE DEF j, z
  <1>8. /\ y \in Blocks /\ y.ents = e.blk[o].ents
        /\ \A v \in 0 .. PtrsPerBlock - 1 : y.ptrs[v] = IF v + NDirect = k THEN b ELSE 0
    <2>1. e.blk[o] = ZeroBlock /\ ZeroBlock \in Blocks
          /\ \A v \in 0 .. PtrsPerBlock - 1 : ZeroBlock.ptrs[v] = 0
      BY <1>3, ZeroFacts
    <2>2. CASE n < PtrsPerBlock
      <3>1. n \in 0 .. PtrsPerBlock - 1 /\ \A v \in 0 .. PtrsPerBlock - 1 : v + NDirect = k <=> v = n
        <4> HIDE DEF k
        <4> QED
          BY <1>1, <2>2, Numbers
      <3>2. y = WithPtr(ZeroBlock, n, b)
        BY <2>1, <2>2
      <3> HIDE DEF n, y, k
      <3>3. y \in Blocks /\ y.ents = ZeroBlock.ents
            /\ \A v \in 0 .. PtrsPerBlock - 1 : y.ptrs[v] = IF v = n THEN b ELSE ZeroBlock.ptrs[v]
        BY <1>2, <2>1, <3>1, <3>2, Zenon DEF WithPtr, Blocks
      <3> QED
        BY <2>1, <3>1, <3>3
    <2>3. CASE ~(n < PtrsPerBlock)
      <3>1. \A v \in 0 .. PtrsPerBlock - 1 : v + NDirect # k
        <4> HIDE DEF k
        <4> QED
          BY <1>1, <2>3, Numbers
      <3> QED
        BY <2>1, <2>3, <3>1
    <2> QED
      BY <2>2, <2>3
  <1>9. q = WriteBlock(t, o, y)
    BY DEF SetPointer, WithPtr, e
  <1> HIDE DEF y
  <1>10. /\ Good(f, R, z) /\ f \in Disks /\ f.bbm = e.bbm /\ f.ibm = e.ibm /\ f.inode = e.inode
         /\ \A v \in BlockNos : f.blk[v] = IF v = o THEN y ELSE e.blk[v]
         /\ \A m \in R, h \in Slots : Ptr(f, m, h) = Ptr(e, m, h)
    <2>1. Good(f, R, z)
      BY <1>3, <1>4, <1>6, <1>8, OtherBlock
    <2>2. /\ f \in Disks /\ f.bbm = e.bbm /\ f.ibm = e.ibm /\ f.inode = e.inode
          /\ \A v \in BlockNos : f.blk[v] = IF v = o THEN y ELSE e.blk[v]
      BY <1>3, <1>4, <1>8, PutBlkFacts
    <2>3. ASSUME NEW m \in R, NEW h \in Slots PROVE Ptr(f, m, h) = Ptr(e, m, h)
      <3>1. m \in InodeNos /\ e.inode[m] \in Inodes
        BY <1>0, <1>4, DiskFacts
      <3>2. e.inode[m].ind # o
        <4>1. Ptr(e, m, MaxLen) = e.inode[m].ind /\ MaxLen \in Slots
          BY <1>4, <3>1, SlotFacts, PtrFacts DEF Ptr
        <4> QED
          BY <1>3, <4>1 DEF Unowned
      <3> QED
        BY <1>3, <1>4, <1>8, <3>1, <3>2, PutBlkPtrs
    <2> QED
      BY <2>1, <2>2, <2>3
  <1>11. /\ Mid(q, R, z, g, x) /\ q \in Sessions /\ q.d = f /\ Alike(t, q)
    BY <1>3, <1>6, <1>8, <1>9, <1>10, WriteBlockMid DEF e
  <1> HIDE DEF f, q
  <1>12. TableFor(f, R, o, k, b)
    <2>1. Unowned(f, R, o) /\ Unowned(f, R, b)
      BY <1>3, <1>4, <1>10 DEF Unowned
    <2> QED
      BY <1>2, <1>3, <1>4, <1>8, <1>10, <2>1 DEF TableFor
  <1>13. k \in Logicals => Holds(f, b, z, p, k)
    BY <1>2, <1>3, <1>4, <1>6, <1>10 DEF Holds, Ready
  <1>14. f.inode[p] = i
    BY <1>3, <1>10
  <1>15. j.blocks >= 1
    BY <1>1, <1>7
  <1>16. Good(PutInode(f, p, j), R, z)
    <2> HIDE DEF k
    <2> QED
      BY <1>1, <1>7, <1>10, <1>12, <1>13, <1>14, <1>15, NewTableGood
  <1>17. /\ \A m \in R, h \in Slots : m # p => Ptr(PutInode(f, p, j), m, h) = Ptr(f, m, h)
         /\ \A h \in Logicals : Ptr(PutInode(f, p, j), p, h) = IF h = k THEN b ELSE Ptr(f, p, h)
    <2> HIDE DEF k
    <2> QED
      BY <1>1, <1>7, <1>10, <1>12, <1>14, NewTablePtrs
  <1>18. /\ Mid(u, R, z, g, x) /\ u \in Sessions /\ u.d = PutInode(f, p, j) /\ Alike(q, u)
    BY <1>0, <1>6, <1>7, <1>11, <1>16, WriteInodeMid
  <1>19. /\ PutInode(f, p, j).ibm = f.ibm /\ PutInode(f, p, j).blk = f.blk
         /\ \A m \in InodeNos : PutInode(f, p, j).inode[m] = IF m = p THEN j ELSE f.inode[m]
    BY ONLY <1>0, <1>7, <1>10, PutInodeFacts
  <1>20. LinkDone(e, u.d, R, p, k, b, sz)
    <2>1. \A a \in BlockNos : u.d.blk[a].ents = e.blk[a].ents
      BY <1>8, <1>10, <1>18, <1>19
    <2>2. \A m \in R, h \in Logicals : m # p \/ h # k => Ptr(u.d, m, h) = Ptr(e, m, h)
      BY <1>10, <1>17, <1>18, SlotFacts
    <2>3. k \in Logicals => Ptr(u.d, p, k) = b
      BY <1>17, <1>18
    <2>4. u.d.ibm = e.ibm /\ u.d.inode[p].size = sz
          /\ \A m \in R : /\ u.d.inode[m].mode = e.inode[m].mode
                          /\ m # p => u.d.inode[m] = e.inode[m]
      BY <1>0, <1>7, <1>10, <1>14, <1>18, <1>19
    <2> QED
      BY <2>1, <2>2, <2>3, <2>4 DEF LinkDone
  <1> QED
    BY <1>3, <1>5, <1>11, <1>18, <1>20 DEF t, e, o, z, q, j, Alike

LEMMA ArrivedBy ==
    ASSUME NEW s \in Sessions, NEW R, NEW c, NEW g, NEW x, Mid(s, R, c, g, x),
           NEW p \in R, NEW name, NEW h, NEW b, Prepared(s.d, h, R, b, c, name),
           NEW u \in Sessions, u.ok = TRUE, u.marks = s.marks,
           NEW k \in Nat, Mid(u, R, Plus(c, p, k, 0), g, x),
           NEW sz, LinkDone(h, u.d, R, p, k, b, sz), Covers(s.d, p, sz)
    PROVE  Adds(s, u, R, c, g, x, p, name)
  <1>1. s.d \in Disks /\ Good(s.d, R, c) /\ 0 \in Offs
    BY SessionFacts, SlotFacts DEF Mid
  <1>2. Others(s.d, u.d, R, p, k) /\ Placed(s.d, u.d, p, k, 0, name)
    BY <1>1, Finish
  <1>3. Arrived(s, u, R, c, g, x, p, k, 0, name)
    BY <1>2 DEF Arrived
  <1>4. u.d.ibm = s.d.ibm
    BY DEF Prepared, LinkDone
  <1> QED
    BY <1>1, <1>3, <1>4 DEF Adds

LEMMA RefusedBy ==
    ASSUME NEW s, NEW R, NEW c, NEW g, NEW x, NEW p, NEW name,
           NEW a \in Sessions, Mid(a, R, c, g, x), a.ok = FALSE, a.marks = s.marks,
           a.d.ibm = s.d.ibm, a.d.inode = s.d.inode, s.d.bbm \subseteq a.d.bbm,
           \A m \in R, k \in Slots : Ptr(a.d, m, k) = Ptr(s.d, m, k)
    PROVE  Adds(s, a, R, c, g, x, p, name)
  BY DEF Adds, Refused

\* A block is added to the directory.
LEMMA FillMid ==
    ASSUME NEW s \in Sessions, NEW R, NEW c, NEW g, NEW x, Mid(s, R, c, g, x),
           NEW p \in R, s.d.inode[p].mode = "dir", Ready(c, g, p), NEW name \in Names,
           NEW sz \in Nat, Covers(s.d, p, sz)
    PROVE  Adds(s, FillBlock(AllocBlock(s), p, [s.d.inode[p] EXCEPT !.size = sz],
                             DirEntry(name, c.n, c.type, 0)),
                R, c, g, x, p, name)
  <1> DEFINE a == AllocBlock(s)
             b == a.out
             e == DirEntry(name, c.n, c.type, 0)
             y == [ZeroBlock EXCEPT !.ents = OneEntry(e)]
             q == WriteBlock(a, b, y)
             i == [s.d.inode[p] EXCEPT !.size = sz]
             u == LinkBlock(q, p, i, b)
             f == FillBlock(a, p, i, e)
             k == s.d.inode[p].blocks
  <1> SUFFICES Adds(s, f, R, c, g, x, p, name)
    OBVIOUS
  <1>0. /\ s.d \in Disks /\ Good(s.d, R, c) /\ R \in SUBSET InodeNos /\ p \in InodeNos
    BY SessionFacts DEF Mid, Good
  <1>1. s.d.inode[p] \in Inodes /\ k \in Nat
    BY <1>0, DiskFacts DEF Inodes
  <1>2. e \in Entries /\ e.name = name /\ e.inode = c.n /\ e.type = c.type
    <2>1. c.n \in 0 .. NInodes /\ c.type \in Modes /\ name \in AllNames
      BY <1>0, NamesFacts DEF Good, Typed, Transits
    <2> QED
      BY <2>1 DEF DirEntry, Entries
  <1> HIDE DEF e
  <1>3. y \in Blocks /\ DOMAIN y.ents = {0} /\ y.ents[0].name = name /\ y.ents[0].inode = c.n
        /\ y.ents[0].type = c.type
    BY <1>2, OneEntryFacts, ZeroFacts
  <1>4. f = IF ~a.ok THEN a ELSE u
    BY DEF FillBlock, OneEntry
  <1> HIDE DEF y, f
  <1>5. /\ Mid(a, R, c, g, x) /\ a \in Sessions /\ a.marks = s.marks /\ a.ok \in BOOLEAN
        /\ ~a.ok => a.d = s.d
    BY AllocBlockMid DEF Sessions
  <1>6. CASE ~a.ok
    <2>1. Adds(s, a, R, c, g, x, p, name)
      BY <1>5, <1>6, RefusedBy, Zenon
    <2> QED
      BY <1>4, <1>6, <2>1
  <1>7. CASE a.ok
    <2>1. /\ Mid(q, R, c, g, x) /\ q \in Sessions /\ q.ok = TRUE /\ q.marks = s.marks
          /\ b \in BlockNos /\ b \in q.d.bbm /\ Unowned(q.d, R, b) /\ b \notin s.d.bbm
          /\ q.d.inode = s.d.inode /\ q.d.ibm = s.d.ibm /\ q.d.bbm = s.d.bbm \cup {b}
          /\ \A m \in R, h \in Slots : Ptr(q.d, m, h) = Ptr(s.d, m, h)
          /\ \A v \in BlockNos : q.d.blk[v] = IF v = b THEN y ELSE s.d.blk[v]
      BY <1>3, <1>5, <1>7, PrepareMid DEF Alike
    <2> HIDE DEF q, b, a
    <2>2. Prepared(s.d, q.d, R, b, c, name)
      <3>1. \A m \in R, h \in Slots : Ptr(s.d, m, h) # 0 => q.d.blk[Ptr(s.d, m, h)] = s.d.blk[Ptr(s.d, m, h)]
        <4>1. \A m \in R, h \in Slots : Ptr(s.d, m, h) # 0 =>
                 Ptr(s.d, m, h) \in BlockNos /\ Ptr(s.d, m, h) \in s.d.bbm
          BY <1>0, Owned
        <4> QED
          BY <2>1, <4>1
      <3> QED
        BY <1>3, <2>1, <3>1 DEF Prepared
    <2>3. /\ q.d.inode[p].mode = "dir" /\ q.d.inode[p] = s.d.inode[p]
          /\ i.blocks = k /\ i.ind = s.d.inode[p].ind /\ i = [q.d.inode[p] EXCEPT !.size = sz]
      BY <1>1, <2>1 DEF Inodes
    <2>4. CASE k < NDirect
      <3>1. u = LinkDirect(q, p, i, b)
        BY <2>3, <2>4 DEF LinkBlock
      <3>2. /\ Mid(u, R, Plus(c, p, k, 0), g, x) /\ u \in Sessions /\ Alike(q, u)
            /\ LinkDone(q.d, u.d, R, p, k, b, sz)
        <4> DEFINE j == q.d.inode[p].blocks
                   w == LinkDirect(q, p, [q.d.inode[p] EXCEPT !.size = sz], b)
        <4>1. j < NDirect /\ j = k /\ w = u
          BY <2>3, <2>4, <3>1
        <4>2. /\ Mid(w, R, Plus(c, p, j, 0), g, x) /\ w \in Sessions /\ Alike(q, w)
              /\ LinkDone(q.d, w.d, R, p, j, b, sz)
          BY ONLY <2>1, <2>2, <2>3, <4>1, Ready(c, g, p), p \in R, sz \in Nat, LinkDirectMid, Zenon
        <4> HIDE DEF u, w, j, k
        <4> QED
          BY <4>1, <4>2
      <3>3. u.ok = TRUE /\ u.marks = s.marks
        BY <2>1, <3>2 DEF Alike
      <3>4. Adds(s, u, R, c, g, x, p, name)
        <4> HIDE DEF u, k
        <4> QED
          BY <1>1, <2>2, <3>2, <3>3, ArrivedBy, Zenon
      <3> QED
        BY <1>4, <1>7, <3>4
    <2>5. CASE k >= NDirect /\ i.ind # 0
      <3> DEFINE t == Return(q, i.ind)
                 w == WriteInode(SetPointer(t, i.ind, k - NDirect, b), p, Tabled(s.d.inode[p], sz, i.ind))
      <3>0. i.ind \in Int
        <4>1. i.ind \in Refs
          BY <1>1, <2>3 DEF Inodes
        <4> QED
          BY <4>1, Numbers DEF Refs
      <3>1. /\ Mid(t, R, c, g, x) /\ t \in Sessions /\ t.d = q.d /\ t.ok = TRUE
            /\ t.out = i.ind /\ t.marks = s.marks
        <4> DEFINE h == i.ind
        <4>0. h \in Int
          BY <3>0
        <4> HIDE DEF i, h
        <4>1. /\ Mid(Return(q, h), R, c, g, x) /\ Return(q, h) \in Sessions
              /\ Return(q, h).d = q.d /\ Return(q, h).ok = TRUE /\ Return(q, h).out = h
              /\ Return(q, h).marks = q.marks
          <5>1. q \in Sessions /\ Mid(q, R, c, g, x)
            BY <2>1
          <5> QED
            BY ONLY <4>0, <5>1, ReturnMid, ZenonT(60)
        <4> QED
          BY <2>1, <4>1 DEF h
      <3>2. u = w
        <4>1. ~(k < NDirect)
          BY <1>1, <2>5, Numbers
        <4>2. u = LinkTable(t, p, i, b)
          BY <2>3, <2>5, <4>1 DEF LinkBlock, Table
        <4> HIDE DEF t
        <4>3. LinkTable(t, p, i, b) = WriteInode(SetPointer(t, t.out, i.blocks - NDirect, b),
                    p, [i EXCEPT !.ind = t.out, !.blocks = @ + 1])
          BY <3>1 DEF LinkTable
        <4>4. [i EXCEPT !.ind = i.ind, !.blocks = @ + 1] = Tabled(s.d.inode[p], sz, i.ind)
          BY DEF Tabled
        <4> QED
          BY <2>3, <3>1, <4>2, <4>3, <4>4
      <3> HIDE DEF t
      <3>3. /\ t.d.inode[p].mode = "dir" /\ Prepared(s.d, t.d, R, b, c, name)
            /\ t.d.inode[p] = s.d.inode[p] /\ t.d.inode[p].blocks >= NDirect /\ t.d.inode[p].ind # 0
            /\ t.d.inode[p].ind = i.ind
        BY <2>2, <2>3, <2>5, <3>1
      <3>4. /\ Mid(w, R, Plus(c, p, k, 0), g, x) /\ w \in Sessions /\ Alike(t, w)
            /\ LinkDone(t.d, w.d, R, p, k, b, sz)
        <4> DEFINE j == t.d.inode[p]
                   z == WriteInode(SetPointer(t, j.ind, j.blocks - NDirect, b), p, Tabled(j, sz, j.ind))
        <4>1. z = w /\ j.blocks = k
          BY <2>3, <3>3
        <4>2. /\ Mid(z, R, Plus(c, p, j.blocks, 0), g, x) /\ z \in Sessions /\ Alike(t, z)
              /\ LinkDone(t.d, z.d, R, p, j.blocks, b, sz)
          BY ONLY <3>1, <3>3, Ready(c, g, p), p \in R, sz \in Nat, OldTableMid, ZenonT(60)
        <4> HIDE DEF z, w, j, k
        <4> QED
          BY <4>1, <4>2
      <3>5. w.ok = TRUE /\ w.marks = s.marks
        BY <3>1, <3>4 DEF Alike
      <3>6. Adds(s, w, R, c, g, x, p, name)
        <4> HIDE DEF w, k
        <4> QED
          BY <1>1, <3>3, <3>4, <3>5, ArrivedBy, Zenon
      <3> QED
        BY <1>4, <1>7, <3>2, <3>6
    <2>6. CASE k >= NDirect /\ i.ind = 0
      <3> DEFINE v == AllocBlock(q)
                 o == v.out
                 t == WriteBlock(v, o, ZeroBlock)
                 w == WriteInode(SetPointer(t, o, k - NDirect, b), p, Tabled(s.d.inode[p], sz, o))
      <3>1. u = LinkTable(ZeroNew(v), p, i, b)
        <4>1. ~(k < NDirect)
          BY <1>1, <2>6, Numbers
        <4> QED
          BY <2>3, <2>6, <4>1 DEF LinkBlock, Table
      <3>2. /\ Mid(v, R, c, g, x) /\ v \in Sessions /\ v.marks = q.marks /\ v.ok \in BOOLEAN
            /\ ~v.ok => v.d = q.d
        BY <2>1, AllocBlockMid DEF Sessions
      <3>3. CASE ~v.ok
        <4>1. u = v
          BY <3>1, <3>3 DEF LinkTable, ZeroNew
        <4>2. Adds(s, v, R, c, g, x, p, name)
          <5>1. v.d.inode = s.d.inode /\ v.d.ibm = s.d.ibm /\ s.d.bbm \subseteq v.d.bbm
                /\ \A m \in R, h \in Slots : Ptr(v.d, m, h) = Ptr(s.d, m, h)
            BY <2>1, <3>2, <3>3
          <5> HIDE DEF v
          <5> QED
            BY <2>1, <3>2, <3>3, <5>1, RefusedBy, Zenon
        <4> QED
          BY <1>4, <1>7, <4>1, <4>2
      <3>4. CASE v.ok
        <4>1. t.ok = v.ok /\ t.out = o
          BY <3>2 DEF WriteBlock, Put, Sessions
        <4>2. u = w
          <5>1. u = LinkTable(t, p, i, b)
            BY <3>1, <3>4 DEF ZeroNew
          <5> HIDE DEF t
          <5>2. LinkTable(t, p, i, b) = WriteInode(SetPointer(t, t.out, i.blocks - NDirect, b),
                    p, [i EXCEPT !.ind = t.out, !.blocks = @ + 1])
            BY <3>4, <4>1 DEF LinkTable
          <5>3. [i EXCEPT !.ind = o, !.blocks = @ + 1] = Tabled(s.d.inode[p], sz, o)
            BY DEF Tabled
          <5> QED
            BY <2>3, <4>1, <5>1, <5>2, <5>3
        <4>3. /\ Mid(w, R, Plus(c, p, k, 0), g, x) /\ w \in Sessions
              /\ w.ok = TRUE /\ w.marks = q.marks
              /\ Prepared(s.d, t.d, R, b, c, name) /\ LinkDone(t.d, w.d, R, p, k, b, sz)
          <5> DEFINE j == q.d.inode[p]
                     z == WriteInode(SetPointer(t, o, j.blocks - NDirect, b), p, Tabled(j, sz, o))
          <5>1. z = w /\ j.blocks = k /\ j.blocks >= NDirect /\ j.ind = 0
            BY <2>3, <2>6
          <5>2. /\ Mid(z, R, Plus(c, p, j.blocks, 0), g, x) /\ z \in Sessions
                /\ z.ok = TRUE /\ z.marks = q.marks
                /\ Prepared(s.d, t.d, R, b, c, name) /\ LinkDone(t.d, z.d, R, p, j.blocks, b, sz)
            BY ONLY <2>1, <2>2, <2>3, <3>4, <5>1, Ready(c, g, p), p \in R, sz \in Nat, NewTableMid, ZenonT(60)
          <5> HIDE DEF z, w, j, k, t
          <5> QED
            BY <5>1, <5>2
        <4>4. Adds(s, w, R, c, g, x, p, name)
          <5> HIDE DEF w, k, t
          <5> QED
            BY <1>1, <2>1, <4>3, ArrivedBy, Zenon
        <4> QED
          BY <1>4, <1>7, <4>2, <4>4
      <3> QED
        BY <3>2, <3>3, <3>4
    <2> QED
      BY <1>1, <2>4, <2>5, <2>6, Numbers
  <1> QED
    BY <1>5, <1>6, <1>7

\* ext2_add_dir_entry gives the inode in transit a name, or changes nothing in use.
LEMMA AddMid ==
    ASSUME NEW s \in Sessions, NEW R, NEW c, NEW g, NEW x, Mid(s, R, c, g, x),
           NEW p \in R, Ready(c, g, p), NEW name \in Names
    PROVE  Adds(s, AddDirEntry(s, p, name, c.n, c.type), R, c, g, x, p, name)
  <1> DEFINE i == s.d.inode[p]
             v == Seen(s.d, i)
             e == DirEntry(name, c.n, c.type, 0)
             fits == {y \in DOMAIN v : Slack(v[y]) >= UnitsOf(e.name)}
             sz == EndOf(DOMAIN v) + BlockUnits
             r == AddDirEntry(s, p, name, c.n, c.type)
  <1>0. /\ s.d \in Disks /\ Good(s.d, R, c) /\ R \in SUBSET InodeNos /\ p \in InodeNos
        /\ e.name = name
    BY SessionFacts DEF Mid, Good, DirEntry
  <1>1. r = AddSeeing(s, p, i, v, fits, e)
    BY DEF AddDirEntry, AddFitting
  <1>2. ASSUME r = Fail(s)
        PROVE  Adds(s, r, R, c, g, x, p, name)
    <2>1. /\ Mid(r, R, c, g, x) /\ r \in Sessions /\ r.d = s.d /\ r.marks = s.marks /\ r.ok = FALSE
      <3>1. 0 \in Int
        OBVIOUS
      <3>2. /\ Mid(Fail(s), R, c, g, x) /\ Fail(s) \in Sessions /\ Fail(s).d = s.d
            /\ Fail(s).marks = s.marks /\ Fail(s).ok = FALSE
        BY ONLY <3>1, s \in Sessions, Mid(s, R, c, g, x), ReturnMid, Zenon
      <3> QED
        BY <1>2, <3>2
    <2> HIDE DEF r
    <2> QED
      BY <2>1, RefusedBy, Zenon
  <1>3. CASE i.mode # "dir"
    BY <1>1, <1>2, <1>3, Zenon DEF AddSeeing
  <1>4. CASE i.mode = "dir" /\ fits # {}
    <2> DEFINE y == Min(fits)
    <2>1. fits \subseteq Nat
      BY <1>0, SeenFacts
    <2>2. y \in fits
      <3> HIDE DEF fits
      <3> QED
        BY <1>4, <2>1, MinFacts, Zenon
    <2>3. Visible(s.d, p, y) /\ Slack(EntAt(s.d, p, y)) >= UnitsOf(name)
      <3>1. y \in DOMAIN v /\ Slack(v[y]) >= UnitsOf(name)
        BY <1>0, <2>2
      <3> HIDE DEF y
      <3> QED
        BY <1>0, <3>1, SeenFacts
    <2>4. r = Return(SplitEntry(s, BlockLookup(s.d, i, y \div BlockUnits), y % BlockUnits, e), 0)
      BY <1>1, <1>4 DEF AddSeeing
    <2> HIDE DEF y
    <2> QED
      BY <1>4, <2>3, <2>4, SplitMid
  <1>5. CASE i.mode = "dir" /\ fits = {} /\ i.size > Mapped(s.d, i) * BlockUnits
    BY <1>1, <1>2, <1>5, Zenon DEF AddSeeing
  <1>6. CASE i.mode = "dir" /\ fits = {} /\ ~(i.size > Mapped(s.d, i) * BlockUnits)
    <2>1. r = FillBlock(AllocBlock(s), p, [i EXCEPT !.size = sz], e)
      BY <1>1, <1>6 DEF AddSeeing
    <2>2. sz \in Nat /\ Covers(s.d, p, sz)
      BY <1>0, EndFacts DEF Covers, SeenIn
    <2> HIDE DEF sz
    <2> QED
      BY <1>6, <2>1, <2>2, FillMid, SMTT(30)
  <1> QED
    BY <1>3, <1>4, <1>5, <1>6

----------------------------------------------------------------------------
(* ext2_free_inode_blocks *)

\* A block is freed, whoever it belongs to.
LEMMA FreeBlockRaw ==
    ASSUME NEW t \in Sessions, NEW b
    PROVE  LET u == FreeBlock(t, b)
           IN  /\ u \in Sessions /\ Alike(t, u)
               /\ u.d = PutBits(t.d, t.d.bbm \ {b}, t.d.ibm) /\ u.d \in Disks
               /\ u.log = Append(t.log, u.d)
               /\ b \in t.d.bbm /\ Exact(t) => Exact(u)
  <1>0. /\ t.d \in Disks /\ t.m \in Counts /\ t.d.bbm \in SUBSET BlockNos
        /\ t.m.blocks \in Int /\ t.m.inodes \in Int /\ t.d.ibm \in SUBSET InodeNos
        /\ t.d.bbm \ {b} \in SUBSET BlockNos
    BY SessionFacts, DiskFacts
  <1> DEFINE e == PutBits(t.d, t.d.bbm \ {b}, t.d.ibm)
             m == [blocks |-> t.m.blocks + 1, inodes |-> t.m.inodes]
             a == Marked(t, e, m)
  <1>1. /\ e \in Disks /\ e.bbm = t.d.bbm \ {b} /\ e.ibm = t.d.ibm
    BY <1>0, PutBitsFacts
  <1>3. m \in Counts
    BY <1>0 DEF Counts
  <1>4. e = [t.d EXCEPT !.bbm = @ \ {b}]
    BY <1>0, Zenon DEF PutBits, Disks
  <1>5. [Put(t, e) EXCEPT !.m.blocks = @ + 1] = a
    <2>1. Put(t, e).m = t.m /\ Put(t, e) \in Sessions
      BY <1>0, <1>1, PutFacts
    <2>2. [t.m EXCEPT !.blocks = t.m.blocks + 1] = m
      BY <1>0 DEF Counts
    <2> HIDE DEF e, m
    <2>3. [Put(t, e) EXCEPT !.m.blocks = @ + 1]
             = [Put(t, e) EXCEPT !.m = [t.m EXCEPT !.blocks = t.m.blocks + 1]]
      BY <2>1 DEF Sessions
    <2> QED
      BY <2>2, <2>3 DEF Marked
  <1>6. FreeBlock(t, b) = a
    BY <1>4, <1>5, Zenon DEF FreeBlock
  <1>7. b \in t.d.bbm => Fits(t, e, m)
    BY <1>0, <1>1, Bits, ZenonT(60) DEF Exact, Fits
  <1> HIDE DEF e, m
  <1>8. a \in Sessions /\ a.d = e /\ a.m = m /\ Alike(t, a) /\ a.log = Append(t.log, e)
    <2>1. Put(t, e) \in Sessions /\ Put(t, e).d = e /\ Put(t, e).m = t.m
          /\ Put(t, e).log = Append(t.log, e) /\ Alike(t, Put(t, e))
      BY <1>1, PutFacts
    <2> QED
      BY <1>3, <2>1 DEF Marked, Sessions, Alike
  <1>9. b \in t.d.bbm /\ Exact(t) => Exact(a)
    BY <1>7, <1>8 DEF Exact, Fits
  <1> HIDE DEF a
  <1> QED
    BY <1>1, <1>6, <1>8, <1>9 DEF e

LEMMA FreeRefFacts ==
    ASSUME NEW t \in Sessions, NEW b
    PROVE  FreeRef(t, b) \in Sessions
  BY FreeBlockRaw, Zenon DEF FreeRef

\* The calls that FreeAll makes.
LEMMA FreeTurns ==
    ASSUME NEW s \in Sessions, NEW n \in Nat, NEW refs \in [1 .. n -> Refs]
    PROVE  \E f \in [0 .. n -> Sessions] :
              /\ f[0] = s /\ \A k \in 1 .. n : f[k] = FreeRef(f[k - 1], refs[k])
              /\ FreeAll(s, refs) = f[n]
  <1> DEFINE step == [k \in 1 .. n |-> [t \in Sessions |-> FreeRef(t, refs[k])]]
             P(g) == g = [k \in 0 .. n |-> IF k = 0 THEN s ELSE FreeRef(g[k - 1], refs[k])]
  <1>1. refs \in Seq(Refs) /\ Len(refs) = n
    OBVIOUS
  <1>4. step \in [1 .. n -> [Sessions -> Sessions]]
    BY FreeRefFacts
  <1>5. IsLoop(n, Sessions, s, step)
    BY <1>4 DEF IsLoop
  <1>6. PICK g : Turns(g, n, Sessions, s, step)
    <2> HIDE DEF step
    <2> QED
      BY <1>5, LoopExists
  <1>7. /\ g \in [0 .. n -> Sessions] /\ g[0] = s
        /\ \A k \in 1 .. n : g[k] = step[k][g[k - 1]]
    BY <1>6 DEF Turns
  <1>8. ASSUME NEW k \in 1 .. n
        PROVE  g[k] = FreeRef(g[k - 1], refs[k])
    <2>1. g[k - 1] \in Sessions
      BY <1>7
    <2> QED
      BY <1>7, <2>1, Zenon
  <1>9. P(g)
    <2>1. \A k \in 0 .. n : k = 0 \/ k \in 1 .. n
      OBVIOUS
    <2>2. \A k \in 0 .. n : g[k] = IF k = 0 THEN s ELSE FreeRef(g[k - 1], refs[k])
      BY <1>7, <1>8, <2>1
    <2> QED
      BY <1>7, <2>2
  <1> DEFINE G == CHOOSE f : P(f)
  <1>10. P(G)
    BY <1>9, Zenon
  <1>11. FreeAll(s, refs) = G[n]
    BY <1>1, Zenon DEF FreeAll
  <1> HIDE DEF G
  <1>a. \A k \in 0 .. n : G[k] = IF k = 0 THEN s ELSE FreeRef(G[k - 1], refs[k])
    BY <1>10, Zenon
  <1>b. 0 \in 0 .. n /\ \A k \in 1 .. n : k \in 0 .. n /\ k # 0
    OBVIOUS
  <1>12. G[0] = s /\ \A k \in 1 .. n : G[k] = FreeRef(G[k - 1], refs[k])
    BY <1>a, <1>b, Zenon
  <1>13. G \in [0 .. n -> Sessions]
    <2> DEFINE Good2 == {k \in 0 .. n : G[k] \in Sessions}
    <2>1. 0 \in Good2
      BY <1>12
    <2>2. ASSUME NEW k \in 1 .. n, k - 1 \in Good2
          PROVE  k \in Good2
      <3>1. G[k - 1] \in Sessions
        BY <2>2
      <3> QED
        BY <1>12, <3>1, FreeRefFacts
    <2> HIDE DEF Good2
    <2>3. 0 .. n \subseteq Good2
      BY <2>1, <2>2, UpTo, Zenon
    <2>4. \A k \in 0 .. n : G[k] \in Sessions
      BY <2>3 DEF Good2
    <2> QED
      BY <1>10, <2>4
  <1> QED
    BY <1>11, <1>12, <1>13

\* The blocks to be freed are in use and listed once.
Spare(d, refs, n) ==
    \A k \in 1 .. n : refs[k] # 0 =>
        /\ refs[k] \in d.bbm /\ \A j \in 1 .. n : refs[j] = refs[k] => j = k

Freed(d, refs, n) == PutBits(d, d.bbm \ {refs[k] : k \in 1 .. n}, d.ibm)

\* Power may be lost while they are freed.
Shedding(d, refs, n) ==
    \A B \in SUBSET d.bbm : d.bbm \ {refs[k] : k \in 1 .. n} \subseteq B =>
        OKDisk(PutBits(d, B, d.ibm))

LEMMA FreeAllRaw ==
    ASSUME NEW s \in Sessions, NEW n \in Nat, NEW refs \in [1 .. n -> Refs], Spare(s.d, refs, n)
    PROVE  LET t == FreeAll(s, refs)
           IN  /\ t \in Sessions /\ Alike(s, t) /\ t.d = Freed(s.d, refs, n)
               /\ Exact(s) => Exact(t)
               /\ Shedding(s.d, refs, n) /\ Logged(s.log) => Logged(t.log)
  <1> DEFINE d == s.d
             B(k) == d.bbm \ {refs[j] : j \in 1 .. k}
             OK(t, k) == /\ Alike(s, t) /\ t.d = PutBits(d, B(k), d.ibm)
                         /\ Exact(s) => Exact(t)
                         /\ Shedding(d, refs, n) /\ Logged(s.log) => Logged(t.log)
  <1>0. d \in Disks /\ d.bbm \in SUBSET BlockNos /\ d.ibm \in SUBSET InodeNos
    BY SessionFacts, DiskFacts
  <1>1. PICK f \in [0 .. n -> Sessions] :
              /\ f[0] = s /\ \A k \in 1 .. n : f[k] = FreeRef(f[k - 1], refs[k])
              /\ FreeAll(s, refs) = f[n]
    BY FreeTurns, Zenon
  <1> DEFINE T == {k \in 0 .. n : OK(f[k], k)}
  <1>2. 0 \in T
    <2>1. B(0) = d.bbm
      OBVIOUS
    <2>2. PutBits(d, d.bbm, d.ibm) = d
      BY <1>0, Zenon DEF PutBits, Disks
    <2>3. OK(s, 0)
      BY <2>1, <2>2, Zenon DEF Alike
    <2> QED
      BY <1>1, <2>3
  <1>3. ASSUME NEW k \in 1 .. n, k - 1 \in T
        PROVE  k \in T
    <2> DEFINE t == f[k - 1]
               b == refs[k]
               u == FreeRef(t, b)
    <2>1. t \in Sessions /\ OK(t, k - 1) /\ f[k] = u
      <3>1. k - 1 \in 0 .. n
        OBVIOUS
      <3> QED
        BY <1>1, <1>3, <3>1
    <2> HIDE DEF t
    <2>2. B(k) = B(k - 1) \ {b} /\ B(k - 1) \in SUBSET BlockNos /\ B(k) \in SUBSET d.bbm
      <3>1. \A j \in 1 .. k : j = k \/ j \in 1 .. k - 1
        OBVIOUS
      <3>2. \A j \in 1 .. k - 1 : j \in 1 .. k
        OBVIOUS
      <3>3. {refs[j] : j \in 1 .. k} = {refs[j] : j \in 1 .. k - 1} \cup {refs[k]}
        BY <3>1, <3>2
      <3> QED
        BY <1>0, <3>3
    <2>3. CASE b = 0
      <3>1. u = t
        BY <2>3 DEF FreeRef
      <3>2. B(k) = B(k - 1)
        <4>1. b \notin B(k - 1)
          BY <1>0, <2>3, SlotFacts
        <4> QED
          BY <2>2, <4>1
      <3>3. OK(u, k)
        BY <2>1, <3>1, <3>2, Zenon
      <3> QED
        BY <2>1, <3>3
    <2>4. CASE b # 0
      <3>1. u = FreeBlock(t, b)
        BY <2>4 DEF FreeRef
      <3>2. b \in B(k - 1)
        <4>1. b \in d.bbm /\ \A j \in 1 .. n : refs[j] = b => j = k
          BY <2>4 DEF Spare
        <4>2. \A j \in 1 .. k - 1 : j \in 1 .. n /\ j # k
          OBVIOUS
        <4> QED
          BY <4>1, <4>2
      <3> HIDE DEF B
      <3>3. t.d = PutBits(d, B(k - 1), d.ibm) /\ t.d.bbm = B(k - 1) /\ t.d.ibm = d.ibm
        <4>1. t.d = PutBits(d, B(k - 1), d.ibm)
          BY <2>1
        <4> QED
          BY <1>0, <2>2, <4>1, PutBitsFacts
      <3>4. /\ u \in Sessions /\ Alike(t, u)
            /\ u.d = PutBits(t.d, t.d.bbm \ {b}, t.d.ibm) /\ u.d \in Disks
            /\ u.log = Append(t.log, u.d)
            /\ b \in t.d.bbm /\ Exact(t) => Exact(u)
        <4> HIDE DEF b
        <4> QED
          BY <2>1, <3>1, FreeBlockRaw
      <3>5. u.d = PutBits(d, B(k), d.ibm)
        <4>1. PutBits(PutBits(d, B(k - 1), d.ibm), B(k), d.ibm) = PutBits(d, B(k), d.ibm)
          BY <1>0, Zenon DEF PutBits, Disks
        <4> QED
          BY <2>2, <3>3, <3>4, <4>1
      <3> HIDE DEF u
      <3>6. Shedding(d, refs, n) /\ Logged(s.log) => Logged(u.log)
        <4>1. SUFFICES ASSUME Shedding(d, refs, n), Logged(s.log)
                       PROVE  Logged(u.log)
          OBVIOUS
        <4>2. Logged(t.log) /\ t.log \in Seq(Disks)
          BY <2>1, <4>1, SessionFacts
        <4>3. d.bbm \ {refs[j] : j \in 1 .. n} \subseteq B(k)
          <5>1. \A j \in 1 .. k : j \in 1 .. n
            OBVIOUS
          <5> QED
            BY <5>1 DEF B
        <4>4. OKDisk(u.d)
          BY <2>2, <3>5, <4>1, <4>3 DEF Shedding
        <4> QED
          BY <3>4, <4>2, <4>4, AppendLogged
      <3>7. OK(u, k)
        <4>1. Alike(s, u)
          BY <2>1, <3>4 DEF Alike
        <4>2. Exact(s) => Exact(u)
          BY <2>1, <3>2, <3>3, <3>4
        <4> QED
          BY <3>5, <3>6, <4>1, <4>2
      <3>8. f[k] = u
        BY <2>1 DEF u
      <3> QED
        BY <3>7, <3>8
    <2> QED
      BY <2>3, <2>4
  <1>4. n \in T
    <2> HIDE DEF T
    <2>1. 0 .. n \subseteq T
      BY <1>2, <1>3, UpTo, Zenon
    <2> QED
      BY <2>1
  <1> QED
    BY <1>1, <1>4 DEF Freed

\* Blocks that nothing in R refers to are freed.
LEMMA FreeAllMid ==
    ASSUME NEW s \in Sessions, NEW R, NEW c, NEW g, NEW x, Mid(s, R, c, g, x),
           NEW n \in Nat, NEW refs \in [1 .. n -> Refs], Spare(s.d, refs, n),
           \A k \in 1 .. n : refs[k] # 0 => Unowned(s.d, R, refs[k])
    PROVE  LET t == FreeAll(s, refs)
           IN  /\ Mid(t, R, c, g, x) /\ t \in Sessions /\ Alike(s, t)
               /\ t.d.ibm = s.d.ibm /\ t.d.inode = s.d.inode /\ t.d.blk = s.d.blk
  <1> DEFINE d == s.d
             t == FreeAll(s, refs)
             K == d.bbm \ {refs[k] : k \in 1 .. n}
  <1>0. d \in Disks /\ d.bbm \in SUBSET BlockNos /\ d.ibm \in SUBSET InodeNos /\ Good(d, R, c)
        /\ R \subseteq d.ibm /\ (g => Settled(c) /\ Logged(s.log)) /\ (x => Exact(s))
    BY SessionFacts, DiskFacts DEF Mid, Good, Used
  <1>1. ASSUME NEW B \in SUBSET d.bbm, K \subseteq B
        PROVE  Good(PutBits(d, B, d.ibm), R, c)
    <2>1. \A m \in R, k \in Slots : Ptr(d, m, k) # 0 => Ptr(d, m, k) \in B
      <3>1. SUFFICES ASSUME NEW m \in R, NEW k \in Slots, Ptr(d, m, k) # 0
                     PROVE  Ptr(d, m, k) \in K
        BY <1>1
      <3>2. Ptr(d, m, k) \in d.bbm
        BY <1>0, <3>1, Owned
      <3>3. \A j \in 1 .. n : refs[j] # Ptr(d, m, k)
        BY <3>1 DEF Unowned
      <3> QED
        BY <3>2, <3>3
    <2>2. B \in SUBSET BlockNos
      BY <1>0
    <2> HIDE DEF d
    <2> QED
      BY <1>0, <2>1, <2>2, OtherBits
  <1>2. g => Shedding(d, refs, n)
    <2>1. SUFFICES ASSUME g, NEW B \in SUBSET d.bbm, K \subseteq B
                   PROVE  OKDisk(PutBits(d, B, d.ibm))
      BY DEF Shedding
    <2>2. PutBits(d, B, d.ibm) \in Disks
      BY <1>0, PutBitsFacts
    <2>3. Good(PutBits(d, B, d.ibm), R, c)
      BY <1>1, <2>1
    <2> QED
      BY <1>0, <2>1, <2>2, <2>3, Settle
  <1>3. /\ t \in Sessions /\ Alike(s, t) /\ t.d = Freed(d, refs, n)
        /\ Exact(s) => Exact(t)
        /\ Shedding(d, refs, n) /\ Logged(s.log) => Logged(t.log)
    BY FreeAllRaw
  <1>4. t.d = PutBits(d, K, d.ibm) /\ K \in SUBSET d.bbm /\ K \in SUBSET BlockNos
    BY <1>0, <1>3 DEF Freed
  <1> HIDE DEF t, K
  <1>5. Good(t.d, R, c)
    BY <1>1, <1>4
  <1>6. t.d.ibm = d.ibm /\ t.d.inode = d.inode /\ t.d.blk = d.blk
    BY <1>0, <1>4, PutBitsFacts
  <1>7. Mid(t, R, c, g, x)
    BY <1>0, <1>2, <1>3, <1>5 DEF Mid
  <1> QED
    BY <1>3, <1>6, <1>7 DEF t

\* What BlockRefs lists.
LEMMA RefsFacts ==
    ASSUME NEW d \in Disks, NEW i \in Inodes, NEW from \in 0 .. NDirect
    PROVE  /\ BlockRefs(d, i, from) \in [1 .. MaxLen + 1 -> Refs]
           /\ \A k \in 1 .. MaxLen + 1 :
                 BlockRefs(d, i, from)[k] = IF k <= from THEN 0 ELSE PtrOf(d, i, k - 1)
  <1> DEFINE r == BlockRefs(d, i, from)
             F(k) == CASE k <= from -> 0
                       [] k \in from + 1 .. MaxLen -> BlockLookup(d, i, k - 1)
                       [] k = MaxLen + 1 -> i.ind
  <1>0. r = [k \in 1 .. MaxLen + 1 |-> F(k)]
    BY DEF BlockRefs
  <1> HIDE DEF F
  <1>1. DOMAIN r = 1 .. MaxLen + 1 /\ r = [k \in 1 .. MaxLen + 1 |-> r[k]]
        /\ \A k \in 1 .. MaxLen + 1 : r[k] = F(k)
    BY <1>0
  <1> HIDE DEF r
  <1>2. ASSUME NEW k \in 1 .. MaxLen + 1
        PROVE  r[k] = (IF k <= from THEN 0 ELSE PtrOf(d, i, k - 1)) /\ r[k] \in Refs
    <2>1. CASE k <= from
      <3>1. F(k) = 0
        BY <2>1, Numbers DEF F
      <3> QED
        BY <1>1, <2>1, <3>1, SlotFacts
    <2>2. CASE ~(k <= from) /\ k # MaxLen + 1
      <3>1. k \in from + 1 .. MaxLen /\ k - 1 # MaxLen /\ k - 1 \in Slots
        BY <2>2, Numbers DEF Slots
      <3>2. r[k] = BlockLookup(d, i, k - 1)
        BY <1>1, <2>2, <3>1 DEF F
      <3> QED
        BY <2>2, <3>1, <3>2, PtrFacts DEF PtrOf
    <2>3. CASE k = MaxLen + 1
      <3>1. ~(k <= from) /\ k \notin from + 1 .. MaxLen /\ k - 1 = MaxLen /\ MaxLen \in Slots
        BY <2>3, Numbers DEF Slots
      <3>2. r[k] = i.ind
        BY <1>1, <2>3, <3>1 DEF F
      <3> QED
        BY <3>1, <3>2, PtrFacts DEF PtrOf
    <2> QED
      BY <2>1, <2>2, <2>3
  <1>3. r \in [1 .. MaxLen + 1 -> Refs]
    BY <1>1, <1>2
  <1> QED
    BY <1>2, <1>3 DEF r

LEMMA PtrsAlike ==
    ASSUME NEW d, NEW i, NEW j, i.block = j.block, i.ind = j.ind
    PROVE  \A k : PtrOf(d, i, k) = PtrOf(d, j, k)
  BY DEF PtrOf, BlockLookup

LEMMA SpareOf ==
    ASSUME NEW d \in Disks, NEW R, NEW c, Good(d, R, c), NEW n \in R, NEW i \in Inodes,
           i.block = d.inode[n].block, i.ind = d.inode[n].ind, NEW from \in 0 .. NDirect
    PROVE  /\ Spare(d, BlockRefs(d, i, from), MaxLen + 1)
           /\ \A k \in 1 .. MaxLen + 1 : BlockRefs(d, i, from)[k] # 0 =>
                 /\ k - 1 \in Slots /\ k > from /\ BlockRefs(d, i, from)[k] = Ptr(d, n, k - 1)
                 /\ Unowned(d, R \ {n}, BlockRefs(d, i, from)[k])
  <1> DEFINE r == BlockRefs(d, i, from)
  <1>1. \A k \in 1 .. MaxLen + 1 : r[k] = IF k <= from THEN 0 ELSE PtrOf(d, i, k - 1)
    BY RefsFacts
  <1>2. \A k : PtrOf(d, i, k) = PtrOf(d, d.inode[n], k)
    BY PtrsAlike
  <1> HIDE DEF r
  <1>3. \A k \in 1 .. MaxLen + 1 : r[k] # 0 => r[k] = Ptr(d, n, k - 1) /\ k - 1 \in Slots /\ k > from
    BY <1>1, <1>2, Numbers DEF Ptr, Slots
  <1>4. ASSUME NEW k \in 1 .. MaxLen + 1, r[k] # 0
        PROVE  /\ r[k] \in d.bbm /\ Unowned(d, R \ {n}, r[k])
               /\ \A j \in 1 .. MaxLen + 1 : r[j] = r[k] => j = k
    <2>1. r[k] = Ptr(d, n, k - 1) /\ k - 1 \in Slots
      BY <1>3, <1>4
    <2>2. /\ r[k] \in d.bbm
          /\ \A m \in R, h \in Slots : Ptr(d, m, h) = r[k] => m = n /\ h = k - 1
      BY <1>4, <2>1, Owned
    <2>3. ASSUME NEW j \in 1 .. MaxLen + 1, r[j] = r[k]
          PROVE  j = k
      <3>1. r[j] = Ptr(d, n, j - 1) /\ j - 1 \in Slots
        BY <1>3, <1>4, <2>3
      <3>2. j - 1 = k - 1
        BY <2>2, <2>3, <3>1
      <3> QED
        BY <3>2, Numbers
    <2> QED
      BY <2>2, <2>3 DEF Unowned
  <1> QED
    BY <1>3, <1>4, Zenon DEF Spare, r

LEMMA NoBlocksFacts ==
    ASSUME NEW i \in Inodes
    PROVE  NoBlocks(i) \in Inodes
  <1>1. 0 \in Refs /\ 0 \in Nat
    BY SlotFacts
  <1> QED
    BY <1>1 DEF NoBlocks, NewInode, Inodes

Released(s, q, S, g, x) ==
    q.marks = s.marks /\ (Good(s.d, S, None) => Mid(q, S, None, g, x))

\* An inode that is not in R any more gives its blocks back, and itself.
LEMMA ReleaseMid ==
    ASSUME NEW s \in Sessions, NEW R, NEW c, NEW g, NEW x, Mid(s, R, c, g, x),
           NEW n \in R, NEW i \in Inodes,
           i.block = s.d.inode[n].block, i.ind = s.d.inode[n].ind
    PROVE  Released(s, Release(s, n, i), R \ {n}, g, x)
  <1> DEFINE refs == BlockRefs(s.d, i, 0)
             N == MaxLen + 1
             a == FreeAll(s, refs)
             w == WriteInode(a, n, NoBlocks(i))
             v == FreeInode(w, n)
             S == R \ {n}
  <1>0. /\ s.d \in Disks /\ Good(s.d, R, c) /\ n \in InodeNos /\ n \in s.d.ibm
        /\ (g => Logged(s.log)) /\ N \in Nat /\ 0 \in 0 .. NDirect
    BY SessionFacts, Numbers DEF Mid, Good, Used
  <1>1. refs \in [1 .. N -> Refs] /\ Spare(s.d, refs, N)
        /\ \A k \in 1 .. N : refs[k] # 0 => Unowned(s.d, S, refs[k])
    BY <1>0, RefsFacts, SpareOf, Zenon
  <1>2. NoBlocks(i) \in Inodes
    BY NoBlocksFacts
  <1> HIDE DEF refs, N
  <1>3. a \in Sessions /\ Alike(s, a) /\ a.d = Freed(s.d, refs, N) /\ a.d.ibm = s.d.ibm
    <2>1. a \in Sessions /\ Alike(s, a) /\ a.d = Freed(s.d, refs, N)
      BY <1>0, <1>1, FreeAllRaw
    <2>2. s.d.bbm \ {refs[k] : k \in 1 .. N} \in SUBSET BlockNos /\ s.d.ibm \in SUBSET InodeNos
      BY <1>0, DiskFacts
    <2> QED
      BY <1>0, <2>1, <2>2, PutBitsFacts DEF Freed
  <1>4. Release(s, n, i) = IF i.links = 0 THEN v ELSE w
    BY DEF Release, FreeInodeBlocks, refs
  <1> HIDE DEF a
  <1>5. w \in Sessions /\ Alike(a, w) /\ w.d = PutInode(a.d, n, NoBlocks(i)) /\ w.d.ibm = s.d.ibm
    <2>1. a.d \in Disks
      BY <1>3, SessionFacts
    <2>2. PutInode(a.d, n, NoBlocks(i)) \in Disks /\ PutInode(a.d, n, NoBlocks(i)).ibm = a.d.ibm
      BY <1>0, <1>2, <2>1, PutInodeFacts
    <2>3. w = Put(a, PutInode(a.d, n, NoBlocks(i)))
      BY DEF WriteInode, PutInode
    <2> QED
      BY <1>3, <2>2, <2>3, PutFacts
  <1> HIDE DEF w
  <1>6. v.marks = w.marks
    BY <1>5 DEF FreeInode, Put, Sessions
  <1>7. Release(s, n, i).marks = s.marks
    BY <1>3, <1>4, <1>5, <1>6 DEF Alike
  <1>8. ASSUME Good(s.d, S, None)
        PROVE  Mid(Release(s, n, i), S, None, g, x)
    <2>1. Mid(s, S, None, g, x)
      BY <1>8, NoneTyped, Recast
    <2> HIDE DEF S
    <2>2. /\ Mid(a, S, None, g, x) /\ a.d.ibm = s.d.ibm
      BY <1>0, <1>1, <2>1, FreeAllMid DEF a
    <2>3. n \notin S
      BY DEF S
    <2>4. Good(PutInode(a.d, n, NoBlocks(i)), S, None)
      <3>1. a.d \in Disks /\ Good(a.d, S, None)
        BY <1>3, <2>2, SessionFacts DEF Mid
      <3> QED
        BY <1>0, <1>2, <2>3, <3>1, OtherInode
    <2>5. Mid(w, S, None, g, x)
      <3>1. g => Settled(None)
        BY NoneTyped
      <3> QED
        BY <1>0, <1>2, <1>3, <2>2, <2>4, <3>1, WriteInodeMid DEF w
    <2>6. n \in w.d.ibm
      BY <1>0, <1>5
    <2>7. Mid(v, S, None, g, x)
      BY <1>0, <1>5, <2>3, <2>5, <2>6, FreeInodeMid
    <2> HIDE DEF v
    <2> QED
      BY <1>4, <2>5, <2>7
  <1> QED
    BY <1>7, <1>8 DEF Released

----------------------------------------------------------------------------
(* The calls *)

\* A call is over: nothing is in transit.
Done(s, g, x)   == \E R : Mid(s, R, None, g, x)

\* What a call owes unless it went through one of the dangerous steps.
CallOK(s, g, x) == s.marks = {} => Done(s, g, x)

LEMMA FailOK ==
    ASSUME NEW s \in Sessions, NEW R, NEW c, NEW g, NEW x, Mid(s, R, c, g, x),
           Good(s.d, R, None)
    PROVE  CallOK(Fail(s), g, x) /\ CallOK(s, g, x)
  <1>1. Mid(s, R, None, g, x) /\ 0 \in Int
    BY Recast, NoneTyped
  <1>2. Mid(Fail(s), R, None, g, x)
    BY ONLY <1>1, s \in Sessions, ReturnMid, Zenon
  <1> QED
    BY <1>1, <1>2 DEF CallOK, Done

Nameless(r, R, c, g, x) == Mid(r, R, c, g, x) /\ c.at = {}

\* A name is removed: unless a tombstone took its place, its inode has none.
LEMMA UnnameMid ==
    ASSUME NEW s \in Sessions, NEW R, NEW g, NEW x, Mid(s, R, None, g, x),
           NEW p \in R, NEW name \in Names, DirLookup(s.d, p, name) # NoEntry
    PROVE  LET r == RemoveDirEntry(s, p, name)
               e == DirLookup(s.d, p, name)
               y == First(s.d, p, name)
               c == Leaving(s.d, p, y \div BlockUnits, y % BlockUnits)
           IN  /\ r \in Sessions /\ KeepsOthers(s.d, r.d, p) /\ Mid(r, R, c, g, x)
               /\ c.n = e.inode /\ c.type = e.type /\ r.ok = TRUE
               /\ c.home = IF e.type = "dir" THEN p ELSE 0
               /\ "tombstone" \in r.marks \/ Nameless(r, R, Minus(c, Place(p, y)), g, x)
  <1> DEFINE r == RemoveDirEntry(s, p, name)
             e == DirLookup(s.d, p, name)
             y == First(s.d, p, name)
             l == y \div BlockUnits
             o == y % BlockUnits
             c == Leaving(s.d, p, l, o)
             h == Hit(s.d, p, name)
  <1>0. s.d \in Disks /\ Good(s.d, R, None) /\ R \in SUBSET InodeNos
    BY SessionFacts DEF Mid, Good
  <1>1. /\ s.d.inode[p].mode = "dir" /\ LiveAt(SeenIn(s.d, p), name) # {}
        /\ l \in Logicals /\ o \in Offs /\ Live(s.d, p, l, o)
        /\ e.inode = To(s.d, p, l, o) /\ e.type = Kind(s.d, p, l, o)
    BY <1>0, LookupFacts
  <1>2. Good(s.d, R, c) /\ Settled(c)
    <2> HIDE DEF l, o
    <2> QED
      BY <1>0, <1>1, Leave
  <1>3. c.n = e.inode /\ c.type = e.type /\ c.at = {Place(p, y)}
        /\ c.home = IF e.type = "dir" THEN p ELSE 0
    BY <1>1 DEF Leaving, Place
  <1>4. Mid(s, R, c, g, x)
    BY <1>2, Recast
  <1> HIDE DEF c
  <1>5. /\ Mid(r, R, c, g, x) /\ r \in Sessions /\ KeepsOthers(s.d, r.d, p)
        /\ r.ok = TRUE
        /\ Mid(r, R, Minus(c, Place(p, h)), g, x)
        /\ Flags(s, r, EntAt(s.d, p, h))
    <2>1. s.d.inode[p].mode = "dir"
      BY <1>1
    <2>2. /\ Mid(r, R, c, g, x) /\ r \in Sessions /\ KeepsOthers(s.d, r.d, p)
          /\ LiveAt(SeenIn(s.d, p), name) # {} =>
                    /\ r.ok = TRUE
                    /\ Mid(r, R, Minus(c, Place(p, h)), g, x)
                    /\ Flags(s, r, EntAt(s.d, p, h))
      BY ONLY <2>1, <1>4, s \in Sessions, p \in R, name \in Names, RemoveMid, Zenon
    <2> HIDE DEF r, h
    <2> QED
      BY <1>1, <2>2
  <1>6. EntAt(s.d, p, h).inode # 0 => h = y
    BY <1>0, <1>1, PositionFacts
  <1>7. Minus(c, Place(p, y)).at = {}
    <2>1. c \in Transits
      BY <1>2 DEF Good, Typed
    <2> QED
      BY <1>3, <2>1 DEF Minus, Transits
  <1> QED
    <2>1. "tombstone" \in r.marks \/ Nameless(r, R, Minus(c, Place(p, y)), g, x)
      BY <1>5, <1>6, <1>7 DEF Flags, Nameless
    <2> HIDE DEF r, e
    <2> QED
      BY <1>3, <1>5, <2>1 DEF c, r, e

LEMMA LessLinkFacts ==
    ASSUME NEW i \in Inodes
    PROVE  /\ LessLink(i) \in Inodes /\ LessLink(i).block = i.block /\ LessLink(i).ind = i.ind
  <1> DEFINE v == IF i.links > 0 THEN i.links - 1 ELSE 0
  <1>1. v \in Nat
    BY DEF Inodes
  <1>2. LessLink(i) = [i EXCEPT !.links = v]
    BY DEF LessLink, Inodes
  <1> HIDE DEF v
  <1> QED
    BY <1>1, <1>2 DEF Inodes

\* ext2_remove_file.
LEMMA RemoveFileOK ==
    ASSUME NEW s \in Sessions, NEW R, NEW x, Mid(s, R, None, TRUE, x),
           NEW p \in R, NEW name \in Names
    PROVE  CallOK(RemoveFile(s, p, name), TRUE, x)
  <1> DEFINE e == DirLookup(s.d, p, name)
             n == e.inode
             i == LessLink(s.d.inode[n])
             r == RemoveDirEntry(s, p, name)
             q == Release(r, n, i)
             y == First(s.d, p, name)
             c == Leaving(s.d, p, y \div BlockUnits, y % BlockUnits)
             t == Minus(c, Place(p, y))
  <1>0. s.d \in Disks /\ Good(s.d, R, None) /\ R \in SUBSET InodeNos
    BY SessionFacts DEF Mid, Good
  <1>1. RemoveFile(s, p, name) = IF e = NoEntry \/ e.type = "dir" THEN Fail(s) ELSE q
    BY DEF RemoveFile, RemoveFoundFile
  <1>2. CASE e = NoEntry \/ e.type = "dir"
    <2>1. CallOK(Fail(s), TRUE, x)
      BY <1>0, FailOK, Zenon
    <2> QED
      BY <1>1, <1>2, <2>1, Zenon
  <1>3. CASE e # NoEntry /\ e.type # "dir"
    <2>1. /\ r \in Sessions /\ KeepsOthers(s.d, r.d, p) /\ Mid(r, R, c, TRUE, x)
          /\ c.n = n /\ c.type = e.type /\ r.ok = TRUE
          /\ "tombstone" \in r.marks \/ Nameless(r, R, t, TRUE, x)
      <3>1. DirLookup(s.d, p, name) # NoEntry
        BY <1>3
      <3>2. Mid(s, R, None, TRUE, x) /\ s \in Sessions /\ p \in R /\ name \in Names
        OBVIOUS
      <3> QED
        BY ONLY <3>1, <3>2, UnnameMid, ZenonT(60)
    <2>2. n \in R /\ n \in InodeNos /\ n # p /\ s.d.inode[p].mode = "dir" /\ n # 0
      <3>1. n \in R /\ n \in InodeNos /\ e.type = s.d.inode[n].mode /\ s.d.inode[p].mode = "dir"
        BY <1>0, <1>3, LookupFacts
      <3> QED
        BY <1>3, <3>1, SlotFacts
    <2>3. i \in Inodes /\ i.block = r.d.inode[n].block /\ i.ind = r.d.inode[n].ind
      <3>1. r.d.inode[n] = s.d.inode[n]
        BY <2>1, <2>2 DEF KeepsOthers
      <3>2. s.d.inode[n] \in Inodes
        BY <1>0, <2>2, DiskFacts
      <3> QED
        BY <3>1, <3>2, LessLinkFacts
    <2>4. t.n = n
      <3>1. c \in Transits
        BY <2>1 DEF Mid, Good, Typed
      <3> QED
        BY <2>1, <3>1 DEF Minus, Transits
    <2> HIDE DEF e, n, i, r, c, t
    <2>5. q.marks = r.marks /\ (Good(r.d, R \ {n}, None) => Mid(q, R \ {n}, None, TRUE, x))
      <3>1. Released(r, q, R \ {n}, TRUE, x)
        BY <2>1, <2>2, <2>3, ReleaseMid, Zenon
      <3> HIDE DEF q
      <3> QED
        BY <3>1, Zenon DEF Released
    <2>6. "tombstone" \in r.marks \/ Good(r.d, R \ {n}, None)
      <3>1. ASSUME Mid(r, R, t, TRUE, x), t.at = {}
            PROVE  Good(r.d, R \ {n}, None)
        <4>1. r.d \in Disks /\ Good(r.d, R, t)
          BY <2>1, <3>1, SessionFacts DEF Mid
        <4>2. Good(r.d, R \ {t.n}, None)
          BY <2>2, <2>4, <3>1, <4>1, Drop
        <4> QED
          BY <2>4, <4>2
      <3> QED
        BY <2>1, <3>1, Zenon DEF Nameless
    <2>7. CallOK(q, TRUE, x)
      BY <2>5, <2>6, Zenon DEF CallOK, Done
    <2> QED
      BY <1>1, <1>3, <2>7, Zenon
  <1> QED
    BY <1>2, <1>3, Zenon

LEMMA RelinkMid ==
    ASSUME NEW s \in Sessions, NEW R, NEW c, NEW g, NEW x, Mid(s, R, c, g, x),
           NEW p \in InodeNos, NEW v \in Nat, NEW t, Good(WithLinks(s.d, p, v), R, t),
           g => Settled(t)
    PROVE  LET u == Relink(s, p, v)
           IN  /\ Mid(u, R, t, g, x) /\ u \in Sessions /\ Alike(s, u)
               /\ u.d = WithLinks(s.d, p, v)
  <1> DEFINE i == [s.d.inode[p] EXCEPT !.links = v]
  <1>1. i \in Inodes
    <2>1. s.d.inode[p] \in Inodes
      BY SessionFacts, DiskFacts
    <2> QED
      BY <2>1, Zenon DEF Inodes
  <1>2. WithLinks(s.d, p, v) = PutInode(s.d, p, i) /\ Relink(s, p, v) = WriteInode(s, p, i)
    BY DEF WithLinks, Relink
  <1> HIDE DEF i
  <1> QED
    BY <1>1, <1>2, WriteInodeMid

\* The inode in transit leaves its home.
LEMMA LinkDownMid ==
    ASSUME NEW s \in Sessions, NEW R, NEW c, NEW g, NEW x, Mid(s, R, c, g, x),
           NEW p \in R, s.d.inode[p].mode = "dir", c.home = p, g => Settled(At(c, 0))
    PROVE  LET u == LinkDown(s, p)
           IN  /\ Mid(u, R, At(c, 0), g, x) /\ u \in Sessions /\ Alike(s, u)
               /\ u.d = WithLinks(s.d, p, s.d.inode[p].links - 1)
  <1> DEFINE v == s.d.inode[p].links - 1
  <1>0. s.d \in Disks /\ Good(s.d, R, c) /\ p \in InodeNos
    BY SessionFacts DEF Mid, Good
  <1>1. s.d.inode[p].links \in Nat /\ s.d.inode[p].links >= 2
        /\ Good(WithLinks(s.d, p, v), R, At(c, 0))
    BY <1>0, LinkChange
  <1>2. v \in Nat /\ LinkDown(s, p) = Relink(s, p, v)
    BY <1>1 DEF LinkDown
  <1> HIDE DEF v
  <1>3. /\ Mid(Relink(s, p, v), R, At(c, 0), g, x) /\ Relink(s, p, v) \in Sessions
        /\ Alike(s, Relink(s, p, v)) /\ Relink(s, p, v).d = WithLinks(s.d, p, v)
    BY <1>0, <1>1, <1>2, RelinkMid
  <1> QED
    BY <1>2, <1>3 DEF v

\* What other calls leave of an inode.
LEMMA OtherLinks ==
    ASSUME NEW d \in Disks, NEW p \in InodeNos, NEW v \in Nat, NEW n \in InodeNos, n # p
    PROVE  WithLinks(d, p, v).inode[n] = d.inode[n]
  BY LinksFacts

\* ext2_remove_dir.
LEMMA RemoveDirOK ==
    ASSUME NEW s \in Sessions, NEW R, NEW x, Mid(s, R, None, TRUE, x),
           NEW p \in R, NEW name \in Names
    PROVE  CallOK(RemoveDir(s, p, name), TRUE, x)
  <1> DEFINE e == DirLookup(s.d, p, name)
             n == e.inode
             i == [s.d.inode[n] EXCEPT !.links = 0]
             r == RemoveDirEntry(s, p, name)
             u == LinkDown(r, p)
             q == Release(u, n, i)
             y == First(s.d, p, name)
             c == Leaving(s.d, p, y \div BlockUnits, y % BlockUnits)
             t == Minus(c, Place(p, y))
             B == \/ e.type # "dir" \/ s.d.inode[n].mode # "dir"
                  \/ ~EmptyDir(Seen(s.d, s.d.inode[n]))
  <1>0. s.d \in Disks /\ Good(s.d, R, None) /\ R \in SUBSET InodeNos
    BY SessionFacts DEF Mid, Good
  <1>1. RemoveDir(s, p, name) = IF B THEN Fail(s) ELSE q
    BY DEF RemoveDir, RemoveFoundDir
  <1>2. CASE B
    <2>1. CallOK(Fail(s), TRUE, x)
      BY <1>0, FailOK, Zenon
    <2> QED
      BY <1>1, <1>2, <2>1, Zenon
  <1>3. CASE ~B
    <2>0. e # NoEntry /\ e.type = "dir"
      BY <1>3 DEF NoEntry, DirEntry
    <2>1. /\ r \in Sessions /\ KeepsOthers(s.d, r.d, p) /\ Mid(r, R, c, TRUE, x)
          /\ c.n = n /\ c.type = e.type /\ c.home = IF e.type = "dir" THEN p ELSE 0
      <3>1. Mid(s, R, None, TRUE, x) /\ s \in Sessions /\ p \in R /\ name \in Names
        OBVIOUS
      <3> QED
        BY ONLY <2>0, <3>1, UnnameMid, ZenonT(60)
    <2>2. "tombstone" \in r.marks \/ Nameless(r, R, t, TRUE, x)
      <3>1. Mid(s, R, None, TRUE, x) /\ s \in Sessions /\ p \in R /\ name \in Names
        OBVIOUS
      <3> QED
        BY ONLY <2>0, <3>1, UnnameMid, ZenonT(60)
    <2>3. n \in R /\ n \in InodeNos /\ n # p /\ s.d.inode[p].mode = "dir" /\ n # 0 /\ p \in InodeNos
      <3>1. /\ n \in R /\ s.d.inode[p].mode = "dir"
            /\ y \in LiveAt(SeenIn(s.d, p), name)
        BY <1>0, <2>0, LookupFacts
      <3>2. n # p
        <4>1. SUFFICES ASSUME n = p PROVE FALSE
          OBVIOUS
        <4>2. EmptyDir(SeenIn(s.d, p))
          BY <1>3, <4>1 DEF SeenIn
        <4>3. NotDots(name)
          BY NamesFacts
        <4> QED
          BY <3>1, <4>2, <4>3 DEF EmptyDir, LiveAt, NotDots
      <3> QED
        BY <1>0, <3>1, <3>2, SlotFacts
    <2>4. s.d.inode[n] \in Inodes
      BY <1>0, <2>3, DiskFacts
    <2>5. i \in Inodes /\ i.block = s.d.inode[n].block /\ i.ind = s.d.inode[n].ind
      BY <2>4, Zenon DEF Inodes
    <2>6. c \in Transits /\ c.home = p /\ t.n = n /\ t.home = p /\ t.at = c.at \ {Place(p, y)}
      <3>1. c \in Transits
        BY <2>1 DEF Mid, Good, Typed
      <3> QED
        BY <2>0, <2>1, <3>1 DEF Minus, Transits
    <2>7. r.d.inode[n] = s.d.inode[n] /\ r.d.inode[p].mode = "dir" /\ r.d \in Disks
      BY <2>1, <2>3, SessionFacts DEF KeepsOthers
    <2>8. r.d.inode[p].links - 1 \in Nat
      <3>1. Good(r.d, R, c)
        BY <2>1 DEF Mid
      <3>2. r.d.inode[p].links \in Nat /\ r.d.inode[p].links >= 2
        BY <2>7, <3>1, LinkChange
      <3> QED
        BY <3>2
    <2> HIDE DEF e, n, i, r, c, t
    <2>9. ASSUME NEW z, NEW h, Mid(r, R, z, h, x), z.home = p, h => Settled(At(z, 0))
          PROVE  /\ Mid(u, R, At(z, 0), h, x) /\ u \in Sessions /\ Alike(r, u)
                 /\ Released(u, q, R \ {n}, h, x)
      <3>1. /\ Mid(u, R, At(z, 0), h, x) /\ u \in Sessions /\ Alike(r, u)
            /\ u.d = WithLinks(r.d, p, r.d.inode[p].links - 1)
        BY <2>1, <2>7, <2>9, LinkDownMid
      <3>2. u.d.inode[n] = r.d.inode[n]
        BY <2>3, <2>7, <2>8, <3>1, OtherLinks
      <3>3. i.block = u.d.inode[n].block /\ i.ind = u.d.inode[n].ind
        BY <2>5, <2>7, <3>2
      <3> HIDE DEF u
      <3>4. Released(u, q, R \ {n}, h, x)
        BY <2>3, <2>5, <3>1, <3>3, ReleaseMid
      <3> QED
        BY <3>1, <3>4
    <2>10. CASE "tombstone" \in r.marks
      <3>1. Mid(r, R, c, FALSE, x)
        BY <2>1 DEF Mid
      <3>2. Alike(r, u) /\ Released(u, q, R \ {n}, FALSE, x)
        BY <2>6, <2>9, <3>1, Zenon
      <3>3. q.marks = r.marks
        BY <3>2 DEF Released, Alike
      <3> QED
        BY <1>1, <1>3, <2>10, <3>3 DEF CallOK
    <2>11. CASE Nameless(r, R, t, TRUE, x)
      <3>1. Mid(r, R, t, TRUE, x) /\ t.at = {} /\ Typed(t)
        BY <2>11 DEF Nameless, Mid, Good
      <3>2. At(t, 0).n = n /\ At(t, 0).at = {}
        BY <2>6, <3>1, AtFacts, Numbers
      <3>3. Settled(At(t, 0))
        BY <3>2 DEF Settled
      <3>4. /\ Mid(u, R, At(t, 0), TRUE, x) /\ u \in Sessions
            /\ Released(u, q, R \ {n}, TRUE, x)
        BY <2>6, <2>9, <3>1, <3>3, Zenon
      <3> HIDE DEF u
      <3>5. Good(u.d, R \ {n}, None)
        <4>1. u.d \in Disks /\ Good(u.d, R, At(t, 0))
          BY <3>4, SessionFacts DEF Mid
        <4>2. Good(u.d, R \ {At(t, 0).n}, None)
          BY <2>3, <3>2, <4>1, Drop
        <4> QED
          BY <3>2, <4>2
      <3> HIDE DEF q
      <3>6. CallOK(q, TRUE, x)
        BY <3>4, <3>5, Zenon DEF Released, CallOK, Done
      <3> QED
        BY <1>1, <1>3, <3>6, Zenon
    <2> QED
      BY <2>2, <2>10, <2>11, Zenon
  <1> QED
    BY <1>2, <1>3, Zenon

LEMMA NewInodeFacts ==
    ASSUME NEW d \in Disks, NEW b \in BlockNos
    PROVE  LET f == NewInode("file", 1, 0)
               i == DirInode(b)
           IN  /\ f \in Inodes /\ f.mode = "file" /\ f.links = 1
               /\ \A k \in Slots : PtrOf(d, f, k) = 0
               /\ i \in Inodes /\ i.mode = "dir" /\ i.links = 2 /\ i.blocks = 1
               /\ \A k \in Slots : PtrOf(d, i, k) = IF k = 0 THEN b ELSE 0
  <1> DEFINE f == NewInode("file", 1, 0)
             h == NewInode("dir", 2, BlockUnits)
             z == [j \in 0 .. NDirect - 1 |-> 0]
             y == [z EXCEPT ![0] = b]
             i == DirInode(b)
  <1>0. 0 \in Refs /\ b \in Refs /\ 0 \in 0 .. NDirect - 1 /\ BlockUnits \in Nat
        /\ 0 \in Nat /\ 1 \in Nat /\ 2 \in Nat
    BY SlotFacts, Numbers
  <1>1. /\ z \in [0 .. NDirect - 1 -> Refs] /\ \A j \in 0 .. NDirect - 1 : z[j] = 0
    BY <1>0
  <1>2. /\ y \in [0 .. NDirect - 1 -> Refs]
        /\ \A j \in 0 .. NDirect - 1 : y[j] = IF j = 0 THEN b ELSE 0
    BY <1>0, <1>1
  <1>3. /\ f \in Inodes /\ f.mode = "file" /\ f.links = 1 /\ f.block = z /\ f.ind = 0
        /\ h \in Inodes /\ h.mode = "dir" /\ h.links = 2 /\ h.block = z /\ h.ind = 0
    BY <1>0, <1>1 DEF NewInode, Inodes, Modes
  <1>4. i = [[h EXCEPT !.blocks = 1] EXCEPT !.block = y]
    <2>1. i = [[h EXCEPT !.blocks = 1] EXCEPT !.block = [h.block EXCEPT ![0] = b]]
      <3> HIDE DEF h
      <3> QED
        BY <1>3 DEF DirInode, Inodes, h
    <2> QED
      BY <1>3, <2>1, Zenon
  <1> HIDE DEF f, h, z, y
  <1>5. /\ i \in Inodes /\ i.mode = "dir" /\ i.links = 2 /\ i.blocks = 1 /\ i.block = y /\ i.ind = 0
    BY <1>0, <1>2, <1>3, <1>4, Zenon DEF Inodes
  <1> HIDE DEF i
  <1>6. ASSUME NEW k \in Slots
        PROVE  PtrOf(d, f, k) = 0 /\ PtrOf(d, i, k) = IF k = 0 THEN b ELSE 0
    <2>1. k \in 0 .. NDirect - 1 \/ k \in NDirect .. MaxLen - 1 \/ k = MaxLen
      BY Numbers DEF Slots
    <2>2. CASE k \in 0 .. NDirect - 1
      <3>1. k < NDirect
        BY <2>2, Numbers
      <3>2. PtrOf(d, f, k) = f.block[k] /\ PtrOf(d, i, k) = i.block[k]
        BY <1>3, <1>5, <3>1, PtrFacts
      <3> QED
        BY <1>1, <1>2, <1>3, <1>5, <2>2, <3>2
    <2>3. CASE k \in NDirect .. MaxLen - 1 \/ k = MaxLen
      <3>1. k # 0
        BY <2>3, Numbers
      <3> QED
        BY <1>3, <1>5, <2>3, <3>1, PtrFacts
    <2> QED
      BY <2>1, <2>2, <2>3
  <1> QED
    BY <1>3, <1>5, <1>6 DEF f, i

\* The end of ext2_create_file and ext2_create_dir.
LEMMA NamedOK ==
    ASSUME NEW w \in Sessions, NEW S, NEW c, NEW x, Mid(w, S, c, TRUE, x), NEW p \in S,
           Ready(c, TRUE, p), NEW name \in Names, NEW v \in Int,
           AddDirEntry(w, p, name, c.n, c.type).ok
    PROVE  Done(Return(AddDirEntry(w, p, name, c.n, c.type), v), TRUE, x)
  <1> DEFINE e == AddDirEntry(w, p, name, c.n, c.type)
  <1>1. Adds(w, e, S, c, TRUE, x, p, name)
    BY AddMid, Zenon
  <1> HIDE DEF e
  <1>2. e \in Sessions /\ \E l \in Nat, o \in Offs : Arrived(w, e, S, c, TRUE, x, p, l, o, name)
    BY <1>1, Zenon DEF Adds, e
  <1>3. PICK l \in Nat, o \in Offs : Arrived(w, e, S, c, TRUE, x, p, l, o, name)
    BY <1>2, Zenon
  <1> DEFINE t == Plus(c, p, l, o)
  <1>4. Mid(e, S, t, TRUE, x)
    BY <1>3, Zenon DEF Arrived
  <1> HIDE DEF t
  <1>5. e.d \in Disks /\ Good(e.d, S, t) /\ Settled(t)
    BY <1>2, <1>4, SessionFacts DEF Mid
  <1>6. Good(e.d, S, None)
    BY <1>5, Settle
  <1>7. Mid(e, S, None, TRUE, x)
    BY <1>2, <1>4, <1>6, NoneTyped, Recast, Zenon
  <1>8. Mid(Return(e, v), S, None, TRUE, x)
    BY ONLY <1>2, <1>7, v \in Int, ReturnMid, Zenon
  <1> QED
    BY <1>8, Zenon DEF Done, e

LEMMA FreeInodeDisk ==
    ASSUME NEW s \in Sessions, NEW b
    PROVE  /\ FreeInode(s, b).d.bbm = s.d.bbm /\ FreeInode(s, b).d.inode = s.d.inode
           /\ FreeInode(s, b).d.blk = s.d.blk
  <1> DEFINE e == [s.d EXCEPT !.ibm = @ \ {b}]
  <1>1. s.d \in Disks
    BY SessionFacts
  <1>2. e \in Disks /\ e.bbm = s.d.bbm /\ e.inode = s.d.inode /\ e.blk = s.d.blk
    BY <1>1 DEF Disks
  <1> HIDE DEF e
  <1>3. Put(s, e) \in Sessions /\ Put(s, e).d = e
    BY <1>2, PutFacts
  <1>4. FreeInode(s, b) = [Put(s, e) EXCEPT !.m.inodes = @ + 1]
    BY DEF FreeInode, e
  <1>5. FreeInode(s, b).d = e
    BY <1>3, <1>4 DEF Sessions
  <1> QED
    BY <1>2, <1>5

\* Without a name, the new inode is given up.
LEMMA UnnamedMid ==
    ASSUME NEW w \in Sessions, NEW S, NEW c, NEW x, Mid(w, S, c, TRUE, x), NEW p \in S,
           Ready(c, TRUE, p), c.at = {}, c.n \in InodeNos, NEW name \in Names,
           ~AddDirEntry(w, p, name, c.n, c.type).ok
    PROVE  LET e == AddDirEntry(w, p, name, c.n, c.type)
               h == FreeInode(e, c.n)
           IN  /\ h \in Sessions /\ Mid(h, S \ {c.n}, None, TRUE, x)
               /\ Good(h.d, S \ {c.n}, None)
               /\ \A k \in Slots : Ptr(w.d, c.n, k) # 0 =>
                     Ptr(w.d, c.n, k) \in h.d.bbm /\ Unowned(h.d, S \ {c.n}, Ptr(w.d, c.n, k))
  <1> DEFINE e == AddDirEntry(w, p, name, c.n, c.type)
             n == c.n
             h == FreeInode(e, n)
             T == S \ {n}
  <1>1. Adds(w, e, S, c, TRUE, x, p, name)
    BY AddMid, Zenon
  <1>2. e \in Sessions /\ e.d.ibm = w.d.ibm /\ Refused(w, e, S, c, TRUE, x)
    BY <1>1, Zenon DEF Adds
  <1> HIDE DEF e
  <1>3. /\ Mid(e, S, c, TRUE, x)
        /\ \A m \in S, k \in Slots : Ptr(e.d, m, k) = Ptr(w.d, m, k)
    BY <1>2, Zenon DEF Refused
  <1>4. e.d \in Disks /\ Good(e.d, S, c) /\ n # 0
    BY <1>2, <1>3, SessionFacts, SlotFacts DEF Mid
  <1>5. Good(e.d, T, None)
    BY <1>4, Drop
  <1>6. Mid(e, T, None, TRUE, x)
    BY <1>2, <1>3, <1>5, NoneTyped, Recast, Zenon
  <1>7. n \in S /\ n \in e.d.ibm /\ n \notin T
    BY <1>4 DEF Good, Carried, Used
  <1> HIDE DEF T
  <1>8. /\ Mid(h, T, None, TRUE, x) /\ h \in Sessions /\ h.d.bbm = e.d.bbm
        /\ h.d.inode = e.d.inode /\ h.d.blk = e.d.blk
    <2> HIDE DEF n
    <2>1. n \in InodeNos
      BY DEF n
    <2> QED
      <3>1. e \in Sessions /\ Mid(e, T, None, TRUE, x) /\ n \in e.d.ibm /\ n \notin T
        BY <1>2, <1>6, <1>7, Zenon
      <3>2. Mid(h, T, None, TRUE, x)
        BY ONLY <2>1, <3>1, FreeInodeMid, Zenon
      <3>3. h \in Sessions
        BY ONLY <2>1, <3>1, FreeInodeMid, Zenon
      <3>4. h.d.bbm = e.d.bbm /\ h.d.inode = e.d.inode /\ h.d.blk = e.d.blk
        BY ONLY <3>1, FreeInodeDisk
      <3> QED
        BY <3>2, <3>3, <3>4, Zenon
  <1> HIDE DEF h
  <1>9. \A m, k : Ptr(h.d, m, k) = Ptr(e.d, m, k)
    BY <1>8, SameDisks
  <1>10. ASSUME NEW k \in Slots, Ptr(w.d, n, k) # 0
         PROVE  Ptr(w.d, n, k) \in h.d.bbm /\ Unowned(h.d, T, Ptr(w.d, n, k))
    <2>1. Ptr(e.d, n, k) = Ptr(w.d, n, k)
      BY <1>3, <1>7
    <2>2. /\ Ptr(w.d, n, k) \in e.d.bbm
          /\ \A j \in S, q \in Slots : Ptr(e.d, j, q) = Ptr(w.d, n, k) => j = n
      BY <1>4, <1>7, <1>10, <2>1, Owned
    <2> QED
      BY <1>8, <1>9, <2>2 DEF Unowned, T
  <1>11. Good(h.d, T, None)
    BY <1>8 DEF Mid
  <1> QED
    BY <1>8, <1>10, <1>11, Zenon DEF e, h, T

LEMMA FailDone ==
    ASSUME NEW s \in Sessions, NEW R, NEW g, NEW x, Mid(s, R, None, g, x)
    PROVE  Done(Fail(s), g, x) /\ Done(s, g, x)
  <1>1. 0 \in Int
    OBVIOUS
  <1>2. Mid(Fail(s), R, None, g, x)
    BY ONLY <1>1, s \in Sessions, Mid(s, R, None, g, x), ReturnMid, Zenon
  <1> QED
    BY <1>2 DEF Done

\* ext2_create_file.
LEMMA CreateFileOK ==
    ASSUME NEW s \in Sessions, NEW R, NEW x, Mid(s, R, None, TRUE, x),
           NEW p \in R, NEW name \in Names
    PROVE  CallOK(CreateFile(s, p, name), TRUE, x)
  <1> DEFINE a == AllocInode(s)
             n == a.out
             i == NewInode("file", 1, 0)
             w == WriteInode(a, n, i)
             c == Coming(n, "file")
             S == R \cup {n}
             e == AddDirEntry(w, p, name, n, "file")
             r == IF ~a.ok THEN a ELSE IF e.ok THEN Return(e, n) ELSE Fail(FreeInode(e, n))
  <1>0. s.d \in Disks /\ Good(s.d, R, None) /\ R \in SUBSET InodeNos /\ R \subseteq s.d.ibm
    BY SessionFacts DEF Mid, Good, Used
  <1>1. CreateFile(s, p, name) = r
    BY DEF CreateFile, NameFile, KeepOrFree
  <1>2. SUFFICES Done(r, TRUE, x)
    BY <1>1, Zenon DEF CallOK
  <1>3. /\ Mid(a, R, None, TRUE, x) /\ a \in Sessions
        /\ a.ok => n \in InodeNos /\ n \notin s.d.ibm /\ a.d.ibm = s.d.ibm \cup {n}
    BY AllocInodeMid, Zenon
  <1> HIDE DEF a
  <1>4. CASE ~a.ok
    <2>1. Done(a, TRUE, x)
      BY <1>3, FailDone, Zenon
    <2> QED
      BY <1>4, <2>1, Zenon
  <1>5. CASE a.ok
    <2>1. n \in InodeNos /\ n \notin R /\ n \in a.d.ibm /\ a.d \in Disks /\ Good(a.d, R, None)
      BY <1>0, <1>3, <1>5, SessionFacts DEF Mid
    <2> HIDE DEF n
    <2>2. /\ i \in Inodes /\ i.mode = "file" /\ i.links = 1
          /\ \A k \in Slots : PtrOf(a.d, i, k) = 0
      <3>1. 1 \in BlockNos
        BY Numbers DEF BlockNos
      <3> QED
        BY <2>1, <3>1, NewInodeFacts
    <2> HIDE DEF i
    <2>3. Good(PutInode(a.d, n, i), R, None)
      BY <2>1, <2>2, OtherInode
    <2>4. /\ Mid(w, R, None, TRUE, x) /\ w \in Sessions /\ w.d = PutInode(a.d, n, i)
      <3>1. TRUE => Settled(None)
        BY NoneTyped
      <3> QED
        BY <1>3, <2>1, <2>2, <2>3, <3>1, WriteInodeMid, ZenonT(60)
    <2>5. /\ w.d \in Disks /\ w.d.ibm = a.d.ibm /\ w.d.inode[n] = i
          /\ \A k \in Slots : Ptr(w.d, n, k) = 0
      BY <2>1, <2>2, <2>4, PutInodeFacts, PutInodePtrs
    <2> HIDE DEF w
    <2>6. Blank(w.d, n, "file", 0)
      BY <2>2, <2>5 DEF Blank
    <2>7. Good(w.d, S, c) /\ Settled(c)
      <3>1. Good(w.d, R, None) /\ n \in w.d.ibm
        BY <2>1, <2>4, <2>5 DEF Mid
      <3> QED
        BY <2>1, <2>5, <2>6, <3>1, Come
    <2>8. Mid(w, S, c, TRUE, x)
      BY <2>4, <2>7, Recast, Zenon
    <2>9. c.n = n /\ c.type = "file" /\ c.at = {} /\ Ready(c, TRUE, p) /\ p \in S /\ n # 0 /\ n \in Int
      BY <2>1, SlotFacts DEF Coming, Ready, InodeNos
    <2> HIDE DEF c, S
    <2>10. e = AddDirEntry(w, p, name, c.n, c.type)
      BY <2>9
    <2>11. CASE e.ok
      <3>1. Done(Return(e, n), TRUE, x)
        BY <2>4, <2>8, <2>9, <2>10, <2>11, NamedOK, Zenon
      <3> QED
        BY <1>5, <2>11, <3>1, Zenon
    <2>12. CASE ~e.ok
      <3>1. /\ FreeInode(e, n) \in Sessions /\ Mid(FreeInode(e, n), S \ {n}, None, TRUE, x)
        BY <2>1, <2>4, <2>8, <2>9, <2>10, <2>12, UnnamedMid, Zenon
      <3>2. Done(Fail(FreeInode(e, n)), TRUE, x)
        BY ONLY <3>1, FailDone, Zenon
      <3> QED
        BY <1>5, <2>12, <3>2, Zenon
    <2> QED
      BY <2>11, <2>12, Zenon
  <1> QED
    BY <1>4, <1>5, Zenon

LEMMA FirstBlockFacts ==
    ASSUME NEW n \in InodeNos, NEW p \in InodeNos
    PROVE  LET y == FirstDirBlock(n, p)
           IN  /\ y \in Blocks /\ DOMAIN y.ents = {0, 1} /\ Headed(y.ents)
               /\ y.ents[1].inode = p
  <1> DEFINE f == [o \in {0, 1} |-> IF o = 0 THEN DirEntry(".", n, "dir", 1)
                                    ELSE DirEntry("..", p, "dir", BlockUnits - 1)]
  <1>0. 0 \in Offs /\ 1 \in Offs /\ BlockUnits - 1 \in Nat /\ 1 \in Nat
        /\ n \in 0 .. NInodes /\ p \in 0 .. NInodes
    BY SlotFacts, Numbers DEF InodeNos
  <1>1. /\ f[0] = DirEntry(".", n, "dir", 1) /\ f[1] = DirEntry("..", p, "dir", BlockUnits - 1)
        /\ DOMAIN f = {0, 1}
    OBVIOUS
  <1>2. /\ f[0] \in Entries /\ f[0].name = "." /\ f[0].len = 1
        /\ f[1] \in Entries /\ f[1].name = ".." /\ f[1].len = BlockUnits - 1 /\ f[1].inode = p
    BY <1>0, <1>1 DEF DirEntry, Entries, AllNames, Modes
  <1>3. f \in [{0, 1} -> Entries] /\ {0, 1} \in SUBSET Offs
    BY <1>0, <1>2
  <1>4. Tiled(f)
    <2>1. \A o \in DOMAIN f : f[o].len \in 1 .. BlockUnits - o
      <3>1. f[0].len \in 1 .. BlockUnits - 0 /\ f[1].len \in 1 .. BlockUnits - 1
        <4> HIDE DEF f
        <4> QED
          BY <1>2, Numbers
      <3> HIDE DEF f
      <3> QED
        BY <1>1, <3>1
    <2>2. \A o, q \in DOMAIN f : q < o => q + f[q].len <= o
      <3> HIDE DEF f
      <3> QED
        BY <1>1, <1>2, Numbers
    <2> QED
      BY <2>1, <2>2, Zenon DEF Tiled
  <1>5. FirstDirBlock(n, p) = [ZeroBlock EXCEPT !.ents = f]
    BY DEF FirstDirBlock
  <1> HIDE DEF f
  <1>6. f \in EntMaps
    BY <1>3, <1>4, MapFacts
  <1>7. FirstDirBlock(n, p) \in Blocks /\ FirstDirBlock(n, p).ents = f
    BY <1>5, <1>6, ZeroFacts
  <1> QED
    BY <1>1, <1>2, <1>7 DEF Headed

\* An inode and a block of a new directory are written before it has a name.
LEMMA FormatMid ==
    ASSUME NEW a \in Sessions, NEW R, NEW g, NEW x, Mid(a, R, None, g, x), AllocBlock(a).ok,
           NEW n \in InodeNos, n \notin R, n \in a.d.ibm, NEW p \in R
    PROVE  LET b == AllocBlock(a).out
               f == FormatDir(AllocBlock(a), n, b, p)
           IN  /\ Mid(f, R \cup {n}, Coming(n, "dir"), g, x) /\ f \in Sessions
               /\ f.d.inode[p] = a.d.inode[p] /\ f.d.ibm = a.d.ibm
               /\ b \in BlockNos /\ Ptr(f.d, n, 0) = b /\ DotDot(f.d, n) = p
  <1> DEFINE b == AllocBlock(a).out
             y == FirstDirBlock(n, p)
             u == WriteBlock(AllocBlock(a), b, y)
             i == DirInode(b)
             f == WriteInode(u, n, i)
             S == R \cup {n}
             c == Coming(n, "dir")
  <1>0. R \in SUBSET InodeNos /\ p \in InodeNos /\ p # n
    BY DEF Mid, Good
  <1>1. y \in Blocks /\ DOMAIN y.ents = {0, 1} /\ Headed(y.ents) /\ y.ents[1].inode = p
    BY <1>0, FirstBlockFacts
  <1>2. f = FormatDir(AllocBlock(a), n, b, p)
    BY DEF FormatDir
  <1> HIDE DEF y
  <1>3. /\ Mid(u, R, None, g, x) /\ u \in Sessions
        /\ b \in BlockNos /\ b \in u.d.bbm /\ Unowned(u.d, R, b)
        /\ u.d.inode = a.d.inode /\ u.d.ibm = a.d.ibm
        /\ \A q \in BlockNos : u.d.blk[q] = IF q = b THEN y ELSE a.d.blk[q]
    BY <1>1, PrepareMid
  <1> HIDE DEF u, b
  <1>4. u.d \in Disks /\ Good(u.d, R, None) /\ b # 0
    BY <1>3, SessionFacts, SlotFacts DEF Mid
  <1>5. /\ i \in Inodes /\ i.mode = "dir" /\ i.links = 2 /\ i.blocks = 1
        /\ \A k \in Slots : PtrOf(u.d, i, k) = IF k = 0 THEN b ELSE 0
    BY <1>3, <1>4, NewInodeFacts
  <1> HIDE DEF i
  <1>6. Good(PutInode(u.d, n, i), R, None)
    BY <1>4, <1>5, OtherInode
  <1>7. /\ Mid(f, R, None, g, x) /\ f \in Sessions /\ f.d = PutInode(u.d, n, i)
    <2>1. g => Settled(None)
      BY NoneTyped
    <2> QED
      BY <1>3, <1>5, <1>6, <2>1, WriteInodeMid
  <1>8. /\ f.d \in Disks /\ f.d.ibm = u.d.ibm /\ f.d.bbm = u.d.bbm /\ f.d.blk = u.d.blk
        /\ f.d.inode[n] = i /\ f.d.inode[p] = u.d.inode[p]
    BY ONLY <1>0, <1>4, <1>5, <1>7, n \in InodeNos, PutInodeFacts
  <1>9. /\ \A m \in R, k \in Slots : Ptr(f.d, m, k) = Ptr(u.d, m, k)
        /\ \A k \in Slots : Ptr(f.d, n, k) = IF k = 0 THEN b ELSE 0
    <2>1. \A m \in R : m \in InodeNos \ {n}
      BY <1>0
    <2> QED
      BY <1>4, <1>5, <1>7, <2>1, PutInodePtrs
  <1> HIDE DEF f
  <1>10. f.d.blk[b] = y /\ Ptr(f.d, n, 0) = b
    BY <1>3, <1>8, <1>9, SlotFacts
  <1>11. Blank(f.d, n, "dir", b)
    BY <1>1, <1>3, <1>4, <1>5, <1>8, <1>9, <1>10 DEF Blank
  <1>12. Unowned(f.d, R, b)
    BY <1>3, <1>9 DEF Unowned
  <1>13. Good(f.d, S, c) /\ Settled(c)
    <2>1. Good(f.d, R, None) /\ n \in f.d.ibm
      BY <1>3, <1>7, <1>8 DEF Mid
    <2> QED
      BY <1>8, <1>11, <1>12, <2>1, Come
  <1>14. Mid(f, S, c, g, x)
    BY <1>7, <1>13, Recast
  <1>15. DotDot(f.d, n) = p
    BY <1>1, <1>10 DEF DotDot
  <1>16. f.d.inode[p] = a.d.inode[p] /\ f.d.ibm = a.d.ibm
    BY <1>3, <1>8
  <1> QED
    BY <1>2, <1>3, <1>7, <1>10, <1>14, <1>15, <1>16 DEF b

\* ext2_create_dir in a directory.
LEMMA CreateDirOK ==
    ASSUME NEW s \in Sessions, NEW R, NEW x, Mid(s, R, None, TRUE, x),
           NEW p \in R, s.d.inode[p].mode = "dir", NEW name \in Names
    PROVE  CallOK(CreateDir(s, p, name), TRUE, x)
  <1> DEFINE g == TRUE
             a == AllocInode(s)
             n == a.out
             q == AllocBlock(a)
             b == q.out
             f == FormatDir(q, n, b, p)
             c == Coming(n, "dir")
             S == R \cup {n}
             v == f.d.inode[p].links + 1
             u == LinkUp(f, p)
             t == At(c, p)
             e == AddDirEntry(u, p, name, n, "dir")
             r == IF ~a.ok THEN a
                  ELSE IF ~q.ok THEN Fail(FreeInode(q, n))
                  ELSE IF e.ok THEN Return(e, n) ELSE Fail(FreeBlock(FreeInode(e, n), b))
  <1>0. s.d \in Disks /\ Good(s.d, R, None) /\ R \in SUBSET InodeNos /\ R \subseteq s.d.ibm
    BY SessionFacts DEF Mid, Good, Used
  <1>1. CreateDir(s, p, name) = r
    BY DEF CreateDir, DirBlock, NameDir, KeepOrFreeDir
  <1>2. SUFFICES Done(r, g, x)
    BY <1>1, Zenon DEF CallOK
  <1>g. Mid(s, R, None, g, x)
    OBVIOUS
  <1> HIDE DEF g
  <1>3. /\ Mid(a, R, None, g, x) /\ a \in Sessions /\ a.d.inode = s.d.inode
        /\ a.ok => n \in InodeNos /\ n \notin s.d.ibm /\ a.d.ibm = s.d.ibm \cup {n}
    BY <1>g, AllocInodeMid
  <1> HIDE DEF a
  <1>4. CASE ~a.ok
    <2>1. Done(a, g, x)
      BY <1>3, FailDone
    <2> QED
      BY <1>4, <2>1
  <1>5. CASE a.ok
    <2>1. n \in InodeNos /\ n \notin R /\ n \in a.d.ibm /\ n \in Int
      BY <1>0, <1>3, <1>5 DEF InodeNos
    <2> HIDE DEF n
    <2>2. /\ Mid(q, R, None, g, x) /\ q \in Sessions /\ q.d.ibm = a.d.ibm
      BY <1>3, AllocBlockMid
    <2>3. CASE ~q.ok
      <3> HIDE DEF q
      <3>0. n \in q.d.ibm
        BY <2>1, <2>2
      <3>1. FreeInode(q, n) \in Sessions /\ Mid(FreeInode(q, n), R, None, g, x)
        BY ONLY <2>1, <2>2, <3>0, FreeInodeMid
      <3>2. Done(Fail(FreeInode(q, n)), g, x)
        BY ONLY <3>1, FailDone
      <3> QED
        BY <1>5, <2>3, <3>2
    <2>4. CASE q.ok
      <3>1. /\ Mid(f, S, c, g, x) /\ f \in Sessions
            /\ f.d.inode[p] = a.d.inode[p] /\ f.d.ibm = a.d.ibm
            /\ b \in BlockNos /\ Ptr(f.d, n, 0) = b /\ DotDot(f.d, n) = p
        BY <1>3, <2>1, <2>4, FormatMid
      <3> HIDE DEF q, b, f
      <3>2. f.d \in Disks /\ Good(f.d, S, c) /\ p \in S /\ p \in InodeNos
            /\ f.d.inode[p].mode = "dir"
        BY <1>0, <1>3, <3>1, SessionFacts DEF Mid
      <3>3. c.n = n /\ c.type = "dir" /\ c.home = 0 /\ c.at = {} /\ n # 0
        BY <2>1, SlotFacts DEF Coming
      <3>4. t.n = n /\ t.type = "dir" /\ t.home = p /\ t.at = {}
        <4>1. Typed(c) /\ p \in 0 .. NInodes
          BY <3>2, Numbers DEF Good, InodeNos
        <4> HIDE DEF c
        <4> QED
          BY <3>3, <4>1, AtFacts
      <3> HIDE DEF S
      <3>5. v \in Nat /\ Good(WithLinks(f.d, p, v), S, t)
        <4>1. f.d.inode[p].links \in Nat /\ Good(WithLinks(f.d, p, f.d.inode[p].links + 1), S, At(c, p))
          <5> HIDE DEF c
          <5> QED
            BY <3>1, <3>2, <3>3, LinkChange
        <4> QED
          BY <4>1
      <3> HIDE DEF c, t
      <3>6. Settled(t)
        BY <3>4 DEF Settled
      <3>7. u = Relink(f, p, v)
        BY DEF LinkUp
      <3> HIDE DEF v
      <3>8. /\ Mid(u, S, t, g, x) /\ u \in Sessions /\ u.d = WithLinks(f.d, p, v)
        BY <3>1, <3>2, <3>5, <3>6, <3>7, RelinkMid
      <3> HIDE DEF u
      <3>9. Ptr(u.d, n, 0) = b
        <4>1. \A m \in InodeNos, k \in Slots : Ptr(WithLinks(f.d, p, v), m, k) = Ptr(f.d, m, k)
          BY <3>2, <3>5, LinksFacts
        <4> QED
          BY <2>1, <3>1, <3>8, <4>1, SlotFacts
      <3>10. Ready(t, g, p)
        BY <3>3, <3>4 DEF Ready
      <3>11. e = AddDirEntry(u, p, name, t.n, t.type)
        BY <3>4
      <3>12. CASE e.ok
        <4>1. Done(Return(e, n), g, x)
          BY <2>1, <3>2, <3>8, <3>10, <3>11, <3>12, NamedOK, Zenon DEF g
        <4> QED
          BY <1>5, <2>4, <3>12, <4>1
      <3>13. CASE ~e.ok
        <4> DEFINE h == FreeInode(e, n)
        <4>1. /\ h \in Sessions /\ Mid(h, S \ {n}, None, g, x) /\ Good(h.d, S \ {n}, None)
              /\ \A k \in Slots : Ptr(u.d, n, k) # 0 =>
                     Ptr(u.d, n, k) \in h.d.bbm /\ Unowned(h.d, S \ {n}, Ptr(u.d, n, k))
          BY <2>1, <3>2, <3>4, <3>8, <3>10, <3>11, <3>13, UnnamedMid, Zenon DEF g
        <4> HIDE DEF h
        <4>2. b \in h.d.bbm /\ Unowned(h.d, S \ {n}, b) /\ b \in BlockNos
          BY <3>1, <3>9, <4>1, SlotFacts, Zenon
        <4>3. Mid(FreeBlock(h, b), S \ {n}, None, g, x) /\ FreeBlock(h, b) \in Sessions
          BY <4>1, <4>2, FreeBlockMid
        <4>4. Done(Fail(FreeBlock(h, b)), g, x)
          BY ONLY <4>3, FailDone
        <4> QED
          BY <1>5, <2>4, <3>13, <4>4 DEF h
      <3> QED
        BY <3>12, <3>13
    <2> QED
      BY <2>3, <2>4
  <1> QED
    BY <1>4, <1>5

----------------------------------------------------------------------------
(* ext2_rename *)

\* The entry ".." gets another inode.
Redirected(y, q) == [y EXCEPT !.ents[1].inode = q]

LEMMA RedirectedFacts ==
    ASSUME NEW y \in Blocks, Headed(y.ents), NEW q \in InodeNos
    PROVE  LET z == Redirected(y, q)
           IN  /\ z \in Blocks /\ z.ptrs = y.ptrs /\ DOMAIN z.ents = DOMAIN y.ents
               /\ \A o \in DOMAIN y.ents : /\ z.ents[o].name = y.ents[o].name
                                           /\ z.ents[o].type = y.ents[o].type
                                           /\ z.ents[o].len = y.ents[o].len
                                           /\ o # 1 => z.ents[o].inode = y.ents[o].inode
               /\ z.ents[1].inode = q /\ Headed(z.ents)
  <1> DEFINE f == y.ents
             e == [f[1] EXCEPT !.inode = q]
             h == [f EXCEPT ![1] = e]
             z == [y EXCEPT !.ents = h]
  <1>0. f \in EntMaps /\ 1 \in DOMAIN f /\ q \in 0 .. NInodes
    BY Numbers DEF Headed, Blocks, InodeNos
  <1>1. /\ DOMAIN f \in SUBSET Offs /\ Tiled(f) /\ \A o \in DOMAIN f : f[o] \in Entries
    BY <1>0, MapFacts
  <1>2. f = [o \in DOMAIN f |-> f[o]]
    BY <1>0 DEF EntMaps
  <1>3. Redirected(y, q) = z
    BY <1>0 DEF Redirected, Blocks
  <1> HIDE DEF f
  <1>4. /\ e \in Entries /\ e.inode = q /\ e.name = f[1].name /\ e.type = f[1].type
        /\ e.len = f[1].len
    BY <1>0, <1>1 DEF Entries
  <1> HIDE DEF e
  <1>5. /\ DOMAIN h = DOMAIN f /\ h[1] = e /\ \A o \in DOMAIN f : o # 1 => h[o] = f[o]
        /\ h = [o \in DOMAIN f |-> h[o]]
    BY <1>0, <1>2
  <1> HIDE DEF h
  <1>6. \A o \in DOMAIN f : h[o] \in Entries /\ h[o].len = f[o].len
    BY <1>1, <1>4, <1>5
  <1>7. h \in [DOMAIN f -> Entries]
    BY <1>5, <1>6
  <1>8. Tiled(h)
    BY <1>1, <1>5, <1>6 DEF Tiled
  <1>9. h \in EntMaps
    BY <1>1, <1>7, <1>8, MapFacts
  <1>10. z \in Blocks /\ z.ptrs = y.ptrs /\ z.ents = h
    BY <1>9 DEF Blocks
  <1>11. Headed(f) => Headed(h)
    BY <1>4, <1>5 DEF Headed
  <1> HIDE DEF z
  <1> QED
    BY <1>3, <1>4, <1>5, <1>6, <1>10, <1>11 DEF f

\* A disk that differs in a link count, as the step after it sees it.
LEMMA LinksKeep ==
    ASSUME NEW d \in Disks, NEW p \in InodeNos, NEW v \in Nat, NEW e, e = WithLinks(d, p, v)
    PROVE  /\ e \in Disks
           /\ \A m \in InodeNos : /\ e.inode[m].mode = d.inode[m].mode
                                  /\ e.inode[m].block = d.inode[m].block
  BY LinksFacts

LEMMA RedirectedKeep ==
    ASSUME NEW y \in Blocks, Headed(y.ents), NEW q \in InodeNos, NEW z, z = Redirected(y, q)
    PROVE  /\ z \in Blocks /\ z.ptrs = y.ptrs /\ DOMAIN z.ents = DOMAIN y.ents
           /\ \A o \in DOMAIN y.ents : /\ z.ents[o].name = y.ents[o].name
                                       /\ z.ents[o].type = y.ents[o].type
                                       /\ o # 1 => z.ents[o].inode = y.ents[o].inode
           /\ z.ents[1].inode = q /\ Headed(z.ents)
  BY RedirectedFacts

\* Every name in transit is the one at w, which is in directory q.
OnlyAt(c, q) == \E w : c.at \subseteq {w} /\ w[1] = q

\* The child n of p becomes one of q.
LEMMA ReparentOK ==
    ASSUME NEW r \in Sessions, NEW R, NEW c, NEW g, NEW x, Mid(r, R, c, g, x), ~g,
           NEW p \in R, NEW q \in R, r.d.inode[p].mode = "dir", r.d.inode[q].mode = "dir",
           c.home = p
    PROVE  /\ r.marks # {} => Reparent(r, c.n, p, q).marks # {}
           /\ OnlyAt(c, q) => CallOK(Reparent(r, c.n, p, q), g, x)
  <1> DEFINE n == c.n
             u == LinkDown(r, p)
             t == At(c, 0)
             v == u.d.inode[q].links + 1
             w == LinkUp(u, q)
             b == r.d.inode[n].block[0]
             d == w.d
             y == Redirected(d.blk[b], q)
             z == WriteBlock(w, b, y)
             k == SetDotDot(w, n, b, q)
  <1>0. /\ r.d \in Disks /\ Good(r.d, R, c) /\ R \in SUBSET InodeNos /\ p \in InodeNos
        /\ q \in InodeNos /\ p # 0
    BY SessionFacts, SlotFacts DEF Mid, Good
  <1>1. n \in R /\ n # 0 /\ c.type = "dir" /\ Typed(c) /\ r.d.inode[n].mode = "dir" /\ n \in InodeNos
    BY <1>0 DEF Good, Typed, Carried
  <1>2. Reparent(r, n, p, q) = k
    BY DEF Reparent
  <1>3. /\ Mid(u, R, t, g, x) /\ u \in Sessions /\ Alike(r, u)
        /\ u.d = WithLinks(r.d, p, r.d.inode[p].links - 1)
    <2>1. g => Settled(At(c, 0))
      OBVIOUS
    <2> QED
      BY <1>0, <2>1, LinkDownMid
  <1>4. t.n = n /\ t.type = "dir" /\ t.at = c.at /\ t.home = 0 /\ Typed(t)
    BY <1>1, AtFacts, Numbers
  <1> HIDE DEF u, t
  <1>5. /\ u.d \in Disks /\ u.d.inode[q].mode = "dir" /\ u.d.inode[n].mode = "dir"
        /\ u.d.inode[n].block = r.d.inode[n].block
    <2>1. r.d.inode[p].links - 1 \in Nat
      <3>1. r.d.inode[p].links \in Nat /\ r.d.inode[p].links >= 2
        BY <1>0, LinkChange
      <3> QED
        BY <3>1
    <2> DEFINE h == r.d.inode[p].links - 1
               e == u.d
               d0 == r.d
    <2>2. d0 \in Disks /\ h \in Nat /\ e = WithLinks(d0, p, h) /\ p \in InodeNos
      BY <1>0, <1>3, <2>1
    <2>3. n \in InodeNos /\ q \in InodeNos
      BY <1>0, <1>1
    <2> HIDE DEF h, e, d0, n
    <2>4. e \in Disks /\ \A m \in InodeNos : /\ e.inode[m].mode = d0.inode[m].mode
                                            /\ e.inode[m].block = d0.inode[m].block
      BY ONLY <2>2, LinksKeep
    <2> QED
      BY <1>1, <2>3, <2>4 DEF e, d0
  <1>6. /\ v \in Nat /\ Good(WithLinks(u.d, q, v), R, t) /\ Surplus(WithLinks(u.d, q, v), t, q)
    <2>1. Good(u.d, R, t)
      BY <1>3 DEF Mid
    <2>2. /\ u.d.inode[q].links \in Nat /\ Good(WithLinks(u.d, q, u.d.inode[q].links + 1), R, t)
          /\ Surplus(WithLinks(u.d, q, u.d.inode[q].links + 1), t, q)
      BY <1>4, <1>5, <2>1, LinkChange
    <2> QED
      BY <2>2
  <1>7. w = Relink(u, q, v)
    BY DEF LinkUp
  <1> HIDE DEF v
  <1>8. /\ Mid(w, R, t, g, x) /\ w \in Sessions /\ Alike(u, w) /\ d = WithLinks(u.d, q, v)
    BY <1>0, <1>3, <1>6, <1>7, RelinkMid
  <1> HIDE DEF w
  <1>9. /\ d \in Disks /\ d.inode[q].mode = "dir" /\ d.inode[n].mode = "dir"
        /\ d.inode[n].block = r.d.inode[n].block /\ Good(d, R, t) /\ Surplus(d, t, q)
    <2> DEFINE d0 == u.d
    <2>1. d0 \in Disks /\ v \in Nat /\ d = WithLinks(d0, q, v) /\ q \in InodeNos
      BY <1>0, <1>5, <1>6, <1>8
    <2>2. n \in InodeNos
      BY <1>1
    <2> HIDE DEF d, d0, n
    <2>3. d \in Disks /\ \A m \in InodeNos : /\ d.inode[m].mode = d0.inode[m].mode
                                            /\ d.inode[m].block = d0.inode[m].block
      BY ONLY <2>1, LinksKeep
    <2>4. Good(d, R, t) /\ Surplus(d, t, q)
      BY <1>6, <2>1 DEF d0
    <2> QED
      BY <1>0, <1>5, <2>2, <2>3, <2>4 DEF d0
  <1>10. w.marks = r.marks
    BY <1>3, <1>8 DEF Alike
  <1>11. k = IF d.inode[n].size < 1 \/ b = 0 THEN [w EXCEPT !.marks = @ \cup {"dotdot"}] ELSE z
    BY DEF SetDotDot, Redirected
  <1>12. CASE d.inode[n].size < 1 \/ b = 0
    <2>1. k.marks = w.marks \cup {"dotdot"}
      BY <1>8, <1>11, <1>12, Zenon DEF Sessions
    <2> HIDE DEF k
    <2> QED
      BY <1>2, <2>1 DEF CallOK
  <1>13. CASE ~(d.inode[n].size < 1 \/ b = 0)
    <2>1. k = z /\ b # 0
      BY <1>11, <1>13
    <2>2. z.marks = w.marks
      BY <1>8 DEF WriteBlock, Put, Sessions
    <2>3. 0 \in Slots /\ 0 \in Logicals /\ 0 < NDirect
      BY SlotFacts, Numbers
    <2>4. b = Ptr(d, n, 0)
      <3>1. d.inode[n] \in Inodes
        BY <1>1, <1>9, DiskFacts
      <3> QED
        BY <1>9, <2>3, <3>1, PtrFacts DEF Ptr
    <2> HIDE DEF b
    <2>5. b \in BlockNos /\ Headed(d.blk[b].ents) /\ d.blk[b] \in Blocks
      <3>1. b \in BlockNos
        BY <1>1, <1>9, <2>1, <2>3, <2>4, Owned
      <3> QED
        BY <1>1, <1>9, <2>4, <3>1, DiskFacts DEF Good, Heads
    <2>6. /\ y \in Blocks /\ y.ptrs = d.blk[b].ptrs /\ DOMAIN y.ents = DOMAIN d.blk[b].ents
          /\ \A o \in DOMAIN y.ents : /\ y.ents[o].name = d.blk[b].ents[o].name
                                      /\ y.ents[o].type = d.blk[b].ents[o].type
                                      /\ o # 1 => y.ents[o].inode = d.blk[b].ents[o].inode
          /\ y.ents[1].inode = q /\ Headed(y.ents)
      <3> DEFINE y0 == d.blk[b]
      <3>1. y0 \in Blocks /\ Headed(y0.ents) /\ q \in InodeNos /\ y = Redirected(y0, q)
        BY <1>0, <2>5
      <3> HIDE DEF y0, y
      <3>2. /\ y \in Blocks /\ y.ptrs = y0.ptrs /\ DOMAIN y.ents = DOMAIN y0.ents
            /\ \A o \in DOMAIN y0.ents : /\ y.ents[o].name = y0.ents[o].name
                                         /\ y.ents[o].type = y0.ents[o].type
                                         /\ o # 1 => y.ents[o].inode = y0.ents[o].inode
            /\ y.ents[1].inode = q /\ Headed(y.ents)
        BY ONLY <3>1, RedirectedKeep
      <3> QED
        BY <3>2 DEF y0
    <2> HIDE DEF y
    <2>7. KeptIn(d.blk[b].ents, y.ents, t, n, 0)
      BY <2>6 DEF KeptIn, Headed
    <2> DEFINE f == PutBlk(d, b, y)
    <2>8. /\ Good(f, R, t) /\ NoNewName(d, f, R, t)
          /\ \A m \in InodeNos, h \in Slots : Ptr(f, m, h) = Ptr(d, m, h)
      <3>1. n = t.n /\ t.home = 0
        BY <1>4
      <3> HIDE DEF n, d
      <3> QED
        BY <1>1, <1>9, <2>3, <2>4, <2>5, <2>6, <2>7, <3>1, Rewrite, SMTT(60)
    <2>9. /\ f \in Disks /\ f.inode = d.inode /\ f.blk[b] = y
      BY <1>9, <2>5, <2>6, PutBlkFacts
    <2>10. DotDot(f, n) = q
      BY <1>1, <2>3, <2>4, <2>6, <2>8, <2>9 DEF DotDot
    <2>11. Surplus(f, t, q)
      <3>1. Cardinality(Crowd(f, t, q)) <= Cardinality(Crowd(d, t, q))
        BY <1>4, <1>9, <2>8, <2>9, FewerKids
      <3>2. Cardinality(Crowd(f, t, q)) \in Nat /\ Cardinality(Crowd(d, t, q)) \in Nat
        BY <1>4, <1>9, <2>9, CrowdFacts
      <3>3. f.inode[q].links \in Nat
        BY <1>0, <2>9, DiskFacts DEF Inodes
      <3> QED
        BY <1>9, <2>9, <3>1, <3>2, <3>3 DEF Surplus
    <2> HIDE DEF f
    <2>12. Good(f, R, At(t, q))
      BY <1>1, <1>4, <1>9, <2>8, <2>9, <2>10, <2>11, Home
    <2>13. Mid(z, R, t, g, x) /\ z \in Sessions /\ z.d = f
      <3>1. g => Settled(t)
        OBVIOUS
      <3> QED
        BY <1>8, <2>5, <2>6, <2>8, <3>1, WriteBlockMid DEF f
    <2> HIDE DEF z
    <2>14. OnlyAt(c, q) => CallOK(z, g, x)
      <3>1. SUFFICES ASSUME OnlyAt(c, q) PROVE CallOK(z, g, x)
        OBVIOUS
      <3>2. At(t, q).at = c.at /\ At(t, q).home = q
        BY <1>0, <1>4, AtFacts, Numbers DEF InodeNos
      <3>3. Settled(At(t, q))
        BY <3>1, <3>2 DEF Settled, OnlyAt
      <3>4. Good(f, R, None)
        BY <2>9, <2>12, <3>3, Settle
      <3>5. Mid(z, R, None, g, x)
        BY <2>13, <3>4, NoneTyped, Recast
      <3> QED
        BY <3>5 DEF CallOK, Done
    <2> QED
      BY <1>2, <1>10, <2>1, <2>2, <2>14
  <1> QED
    BY <1>12, <1>13

\* Two names are not the same one.
Apart(p, name, q, new) == p # q \/ name # new

\* An entry added elsewhere does not change what a lookup finds first, unless
\* it was added by overwriting the block that holds it.
LEMMA SameFirst ==
    ASSUME NEW d \in Disks, NEW e \in Disks, NEW R, R \subseteq InodeNos, NEW p \in R, NEW q \in R,
           NEW l \in Nat, NEW o \in Offs, NEW new, Others(d, e, R, q, l),
           Placed(d, e, q, l, o, new), NEW name \in Names, Apart(p, name, q, new),
           LiveAt(SeenIn(d, p), name) # {}
    PROVE  \/ /\ First(e, p, name) = First(d, p, name) /\ LiveAt(SeenIn(e, p), name) # {}
           \/ /\ p = q /\ l = First(d, p, name) \div BlockUnits
              /\ DOMAIN e.blk[Ptr(e, p, l)].ents = {o}
  <1> DEFINE x0 == First(d, p, name)
             L(k) == LiveAt(SeenIn(k, p), name)
             l0 == x0 \div BlockUnits
  <1> SUFFICES ASSUME ~(p = q /\ l = l0 /\ DOMAIN e.blk[Ptr(e, p, l)].ents = {o})
               PROVE  First(e, p, name) = x0 /\ L(e) # {}
    OBVIOUS
  <1>0. p \in InodeNos /\ q \in InodeNos
    OBVIOUS
  <1>1. /\ \A y : y \in L(d) <=>
             Visible(d, p, y) /\ EntAt(d, p, y).inode # 0 /\ EntAt(d, p, y).name = name
        /\ \A y : y \in L(e) <=>
             Visible(e, p, y) /\ EntAt(e, p, y).inode # 0 /\ EntAt(e, p, y).name = name
        /\ x0 \in L(d)
    BY <1>0, PositionFacts
  <1>2. \A y \in L(d) : x0 <= y
    <2>1. L(d) \subseteq Nat /\ L(d) # {}
      BY <1>1 DEF Visible
    <2> HIDE DEF L
    <2>2. Min(L(d)) \in L(d) /\ \A y \in L(d) : Min(L(d)) <= y
      BY ONLY <2>1, MinFacts
    <2> QED
      BY <2>2 DEF First, L
  <1> HIDE DEF L
  <1>3. Visible(d, p, x0) /\ EntAt(d, p, x0).inode # 0 /\ EntAt(d, p, x0).name = name /\ x0 \in Nat
    BY <1>1 DEF Visible
  <1> HIDE DEF x0
  <1>4. l0 \in Logicals /\ \A j \in 0 .. l0 : Ptr(d, p, j) # 0
    BY <1>3 DEF Visible
  <1>5. \A j \in 0 .. l0 : j \in Logicals
    BY <1>4, Numbers DEF Logicals
  <1>6. \A j \in 0 .. l0 : p # q \/ j # l =>
             Ptr(e, p, j) = Ptr(d, p, j)
             /\ e.blk[Ptr(d, p, j)].ents = d.blk[Ptr(d, p, j)].ents
    BY <1>4, <1>5 DEF Others
  <1>7. \A j \in 0 .. l0 : p = q /\ j = l =>
             Ptr(e, p, j) # 0 /\ NewEnts(e.blk[Ptr(e, p, j)].ents, d.blk[Ptr(d, p, j)].ents, o, new, TRUE)
    BY <1>4, <1>5 DEF Placed, NewEnts
  <1>8. \A y \in Nat : y <= x0 =>
             /\ y \div BlockUnits \in 0 .. l0 /\ y \div BlockUnits \in Logicals
             /\ y < d.inode[p].size /\ y < e.inode[p].size
    <2> SUFFICES ASSUME NEW y \in Nat, y <= x0
                 PROVE  /\ y \div BlockUnits \in 0 .. l0 /\ y \div BlockUnits \in Logicals
                        /\ y < d.inode[p].size /\ y < e.inode[p].size
      OBVIOUS
    <2>1. y \div BlockUnits \in Nat
      BY DivMod
    <2>2. y \div BlockUnits <= l0 /\ l0 \in Nat
      BY <1>3, DivMod
    <2>3. d.inode[p].size \in Nat /\ e.inode[p].size \in Nat
      BY <1>0, DiskFacts DEF Inodes
    <2>4. x0 < d.inode[p].size
      BY <1>3 DEF Visible
    <2>5. x0 < e.inode[p].size
      <3>1. CASE p = q
        BY <1>3, <3>1 DEF Others
      <3>2. CASE p # q
        BY <2>4, <3>2 DEF Others
      <3> QED
        BY <3>1, <3>2
    <2> HIDE DEF l0
    <2>6. y \div BlockUnits \in 0 .. l0
      BY <2>1, <2>2
    <2> QED
      BY <1>3, <1>5, <2>3, <2>4, <2>5, <2>6
  <1>9. \A j \in 0 .. l0 : Ptr(e, p, j) # 0
    BY <1>4, <1>6, <1>7, Zenon
  <1>10. x0 \in L(e)
    <2> DEFINE m == x0 % BlockUnits
               F == d.blk[Ptr(d, p, l0)].ents
               G == e.blk[Ptr(e, p, l0)].ents
    <2>1. l0 \in 0 .. l0 /\ x0 < e.inode[p].size
      BY <1>3, <1>8
    <2>2. m \in DOMAIN F /\ F[m].inode # 0 /\ F[m].name = name
      BY <1>3 DEF Visible, EntAt
    <2>3. m \in DOMAIN G /\ G[m].inode = F[m].inode /\ G[m].name = F[m].name
      <3>1. CASE p # q \/ l0 # l
        BY <1>6, <2>1, <2>2, <3>1
      <3>2. CASE p = q /\ l0 = l
        <4>1. NewEnts(G, F, o, new, TRUE) /\ DOMAIN G # {o}
          BY <1>7, <2>1, <3>2, Zenon
        <4> HIDE DEF F, G, m
        <4> QED
          BY <2>2, <4>1 DEF NewEnts
      <3> QED
        BY <3>1, <3>2
    <2>4. Visible(e, p, x0)
      BY <1>3, <1>4, <1>9, <2>1, <2>3 DEF Visible
    <2>5. EntAt(e, p, x0).inode # 0 /\ EntAt(e, p, x0).name = name
      BY <2>2, <2>3 DEF EntAt
    <2> QED
      BY <1>1, <2>4, <2>5
  <1>11. ASSUME NEW y \in Nat, y < x0, y \in L(e)
         PROVE  y \in L(d)
    <2> DEFINE m == y % BlockUnits
               j == y \div BlockUnits
               F == d.blk[Ptr(d, p, j)].ents
               G == e.blk[Ptr(e, p, j)].ents
    <2>1. j \in 0 .. l0 /\ y < d.inode[p].size /\ j \in Logicals
      BY <1>3, <1>8, <1>11
    <2>2. m \in DOMAIN G /\ G[m].inode # 0 /\ G[m].name = name
      BY <1>1, <1>11 DEF Visible, EntAt
    <2>3. m \in DOMAIN F /\ F[m].inode # 0 /\ F[m].name = name
      <3>1. CASE p # q \/ j # l
        BY <1>6, <2>1, <2>2, <3>1
      <3>2. CASE p = q /\ j = l
        <4>1. NewEnts(G, F, o, new, TRUE)
          BY <1>7, <2>1, <3>2, Zenon
        <4>2. name # new
          BY <3>2 DEF Apart
        <4> HIDE DEF F, G, m
        <4> QED
          BY <2>2, <4>1, <4>2 DEF NewEnts
      <3> QED
        BY <3>1, <3>2
    <2>4. \A h \in 0 .. j : Ptr(d, p, h) # 0
      <3>1. l0 \in Int /\ j \in Int
        BY <1>4, <2>1, Numbers DEF Logicals
      <3> HIDE DEF j, l0
      <3>2. \A h \in 0 .. j : h \in 0 .. l0
        BY <2>1, <3>1
      <3> QED
        BY <1>4, <3>2
    <2>5. Visible(d, p, y)
      BY <2>1, <2>3, <2>4 DEF Visible
    <2>6. EntAt(d, p, y).inode # 0 /\ EntAt(d, p, y).name = name
      BY <2>3 DEF EntAt
    <2> QED
      BY <1>1, <2>5, <2>6
  <1>12. L(e) \subseteq Nat
    BY <1>1 DEF Visible
  <1>13. Min(L(e)) \in L(e) /\ \A y \in L(e) : Min(L(e)) <= y
    BY ONLY <1>10, <1>12, MinFacts
  <1>14. Min(L(e)) = x0
    <2> DEFINE z == Min(L(e))
    <2>1. z \in L(e) /\ z \in Nat /\ z <= x0
      BY <1>10, <1>12, <1>13
    <2> HIDE DEF z
    <2>2. ~(z < x0)
      <3> SUFFICES ASSUME z < x0 PROVE FALSE
        OBVIOUS
      <3>1. z \in L(d)
        BY <1>11, <2>1
      <3> QED
        BY <1>2, <1>3, <2>1, <3>1
    <2>3. z = x0
      BY <1>3, <2>1, <2>2
    <2> QED
      BY <2>3 DEF z
  <1> QED
    BY <1>10, <1>14 DEF L, First

\* The old name is gone, unless a tombstone went in its place.
Renamed(r, R, c, g, x, q) ==
    \E t : /\ Mid(r, R, t, g, x) /\ t.n = c.n /\ t.type = c.type /\ t.home = c.home
           /\ "tombstone" \in r.marks \/ OnlyAt(t, q)

\* The name in transit is the one a lookup finds.
LeavesFrom(c, d, p, name) == c.at = {Place(p, First(d, p, name))}

OldGone(a, r, R, c, g, x, p, q) ==
    /\ r \in Sessions /\ Renamed(r, R, c, g, x, q) /\ KeepsOthers(a.d, r.d, p)
    /\ p = q \/ r.ok = TRUE

LEMMA OldNameMid ==
    ASSUME NEW s \in Sessions, NEW a \in Sessions, NEW R, NEW c, NEW g, NEW x, Mid(s, R, c, g, x),
           ~g, c.n # 0, NEW p \in R, NEW q \in R, s.d.inode[p].mode = "dir",
           NEW name \in Names, NEW new, Apart(p, name, q, new), LiveAt(SeenIn(s.d, p), name) # {},
           NEW l \in Nat, NEW o \in Offs, Arrived(s, a, R, c, g, x, q, l, o, new),
           LeavesFrom(c, s.d, p, name)
    PROVE  OldGone(a, RemoveDirEntry(a, p, name), R, c, g, x, p, q)
  <1> DEFINE r == RemoveDirEntry(a, p, name)
             y == First(s.d, p, name)
             t == Plus(c, q, l, o)
             w == <<q, l, o>>
             h == Hit(a.d, p, name)
             l0 == y \div BlockUnits
             o0 == y % BlockUnits
  <1>0. /\ s.d \in Disks /\ a.d \in Disks /\ Good(s.d, R, c) /\ R \subseteq InodeNos
        /\ p \in InodeNos /\ q \in InodeNos
    BY SessionFacts DEF Mid, Good
  <1>a. c.at = {Place(p, y)}
    BY DEF LeavesFrom
  <1>1. /\ t.n = c.n /\ t.type = c.type /\ t.home = c.home
        /\ l \in Logicals => t.at = c.at \cup {w}
        /\ l \notin Logicals => t = c
    <2>1. Ready(c, g, q)
      BY DEF Ready
    <2> QED
      BY <1>0, <2>1, PlusFacts
  <1>2. Mid(a, R, t, g, x) /\ Others(s.d, a.d, R, q, l) /\ Placed(s.d, a.d, q, l, o, new)
    BY DEF Arrived
  <1> HIDE DEF t
  <1>3. a.d.inode[p].mode = "dir"
    BY <1>2 DEF Others
  <1>4. y \in LiveAt(SeenIn(s.d, p), name) /\ Visible(s.d, p, y)
    BY <1>0, PositionFacts
  <1>5. l0 \in Logicals /\ o0 \in Offs
    <2> HIDE DEF y
    <2> QED
      BY <1>0, <1>4, VisibleFacts
  <1>6. \/ First(a.d, p, name) = y /\ LiveAt(SeenIn(a.d, p), name) # {}
        \/ p = q /\ l = l0 /\ DOMAIN a.d.blk[Ptr(a.d, p, l)].ents = {o}
    <2> DEFINE d0 == s.d
               d1 == a.d
    <2>1. /\ d0 \in Disks /\ d1 \in Disks /\ Others(d0, d1, R, q, l) /\ Placed(d0, d1, q, l, o, new)
          /\ LiveAt(SeenIn(d0, p), name) # {} /\ R \subseteq InodeNos
      BY <1>0, <1>2
    <2> HIDE DEF d0, d1
    <2>2. \/ First(d1, p, name) = First(d0, p, name) /\ LiveAt(SeenIn(d1, p), name) # {}
          \/ /\ p = q /\ l = First(d0, p, name) \div BlockUnits
             /\ DOMAIN d1.blk[Ptr(d1, p, l)].ents = {o}
      BY ONLY <2>1, p \in R, q \in R, l \in Nat, o \in Offs, name \in Names, Apart(p, name, q, new), SameFirst
    <2> QED
      BY <2>2 DEF d0, d1
  <1>7. ASSUME NEW k, Mid(a, R, k, g, x)
        PROVE  /\ Mid(r, R, k, g, x) /\ r \in Sessions /\ KeepsOthers(a.d, r.d, p)
               /\ LiveAt(SeenIn(a.d, p), name) # {} =>
                    /\ r.ok = TRUE
                    /\ Mid(r, R, Minus(k, Place(p, h)), g, x)
                    /\ Flags(a, r, EntAt(a.d, p, h))
    BY ONLY <1>3, <1>7, a \in Sessions, p \in R, name \in Names, RemoveMid, Zenon
  <1>8. r \in Sessions /\ KeepsOthers(a.d, r.d, p) /\ Mid(r, R, t, g, x)
    BY <1>2, <1>7, Zenon
  <1>9. Good(a.d, R, t) /\ t \in Transits
    BY <1>2 DEF Mid, Good, Typed
  <1>10. CASE First(a.d, p, name) = y /\ LiveAt(SeenIn(a.d, p), name) # {}
    <2>1. r.ok = TRUE /\ Mid(r, R, Minus(t, Place(p, h)), g, x) /\ Flags(a, r, EntAt(a.d, p, h))
      BY <1>2, <1>7, <1>10, Zenon
    <2>2. CASE EntAt(a.d, p, h).inode = 0
      <3>1. "tombstone" \in r.marks
        BY <2>1, <2>2 DEF Flags
      <3> HIDE DEF r
      <3> QED
        BY <1>1, <1>8, <2>1, <3>1 DEF Renamed, OldGone, r
    <2>3. CASE EntAt(a.d, p, h).inode # 0
      <3>1. h = y
        BY <1>0, <1>10, <2>3, PositionFacts
      <3> DEFINE k == Minus(t, Place(p, y))
      <3>2. k.n = c.n /\ k.type = c.type /\ k.home = c.home /\ k.at = t.at \ {Place(p, y)}
        BY <1>1, <1>9 DEF Minus, Transits
      <3>3. k.at \subseteq {w} /\ w[1] = q
        BY <1>1, <1>a, <3>2
      <3>4. Mid(r, R, k, g, x)
        BY <2>1, <3>1
      <3> HIDE DEF r, k, w
      <3>5. OnlyAt(k, q)
        BY <3>3 DEF OnlyAt
      <3>6. Renamed(r, R, c, g, x, q)
        BY <3>2, <3>4, <3>5 DEF Renamed
      <3> QED
        BY <1>8, <2>1, <3>6 DEF r, OldGone
    <2> QED
      BY <2>2, <2>3
  <1>11. CASE p = q /\ l = l0 /\ DOMAIN a.d.blk[Ptr(a.d, p, l)].ents = {o}
    <2>1. Place(p, y) = <<p, l, o0>> /\ l \in Logicals
      BY <1>5, <1>11 DEF Place
    <2>2. t.at = {<<p, l, o0>>, w} /\ w[1] = q
      BY <1>1, <1>a, <2>1
    <2>3. CASE o0 = o
      <3>1. OnlyAt(t, q)
        <4>1. t.at \subseteq {w}
          BY <1>11, <2>2, <2>3
        <4> HIDE DEF w
        <4> QED
          BY <2>2, <4>1 DEF OnlyAt
      <3> HIDE DEF r
      <3>2. Renamed(r, R, c, g, x, q)
        BY <1>1, <1>8, <3>1, SMTT(30) DEF Renamed
      <3> QED
        BY <1>8, <1>11, <3>2 DEF r, OldGone
    <2>4. CASE o0 # o
      <3> DEFINE k == Minus(t, <<p, l, o0>>)
                 d1 == a.d
      <3>1. d1 \in Disks /\ Good(d1, R, t) /\ ~(Live(d1, p, l, o0) /\ To(d1, p, l, o0) = t.n)
        BY <1>0, <1>9, <1>11, <2>4 DEF Live
      <3> HIDE DEF d1
      <3>2. /\ Good(d1, R, k) /\ k.at = t.at \ {<<p, l, o0>>} /\ k.n = t.n /\ k.type = t.type
            /\ k.home = t.home
        BY <3>1, Narrow
      <3> HIDE DEF k, r
      <3>3. Mid(a, R, k, g, x)
        BY <1>2, <3>2, Recast DEF d1
      <3>4. Mid(r, R, k, g, x)
        BY <1>7, <3>3, Zenon DEF r
      <3>5. k.at \subseteq {w}
        BY <2>2, <3>2
      <3>6. OnlyAt(k, q)
        <4> HIDE DEF w
        <4> QED
          BY <2>2, <3>5 DEF OnlyAt
      <3>7. Renamed(r, R, c, g, x, q)
        BY <1>1, <3>2, <3>4, <3>6 DEF Renamed
      <3> QED
        BY <1>8, <1>11, <3>7 DEF r, OldGone
    <2> QED
      BY <2>3, <2>4
  <1> QED
    BY <1>6, <1>10, <1>11

\* ext2_rename.
LEMMA RenameOK ==
    ASSUME NEW s \in Sessions, NEW R, NEW g, NEW x, Mid(s, R, None, g, x), ~g,
           NEW p \in R, NEW q \in R, s.d.inode[q].mode = "dir",
           NEW name \in Names, NEW new \in Names
    PROVE  CallOK(Rename(s, p, name, q, new), g, x)
  <1> DEFINE e == DirLookup(s.d, p, name)
             y == First(s.d, p, name)
             l0 == y \div BlockUnits
             o0 == y % BlockUnits
             c == Leaving(s.d, p, l0, o0)
             a == AddDirEntry(s, q, new, e.inode, e.type)
             r == RemoveDirEntry(a, p, name)
             v == Moved(r, p, q, e)
  <1>0. s.d \in Disks /\ Good(s.d, R, None) /\ R \in SUBSET InodeNos
    BY SessionFacts DEF Mid, Good
  <1>1. Rename(s, p, name, q, new) =
          IF p = q /\ name = new THEN s
          ELSE IF e = NoEntry \/ Found(s.d, q, new) THEN Fail(s)
          ELSE IF a.ok THEN v ELSE a
    BY DEF Rename, RenameFound, UnlinkOld
  <1>2. CallOK(Fail(s), g, x) /\ CallOK(s, g, x)
    BY <1>0, FailOK
  <1>3. CASE (p = q /\ name = new) \/ e = NoEntry \/ Found(s.d, q, new)
    BY <1>1, <1>2, <1>3
  <1>4. CASE ~(p = q /\ name = new) /\ e # NoEntry /\ ~Found(s.d, q, new)
    <2>1. /\ s.d.inode[p].mode = "dir" /\ LiveAt(SeenIn(s.d, p), name) # {}
          /\ l0 \in Logicals /\ o0 \in Offs /\ Live(s.d, p, l0, o0)
          /\ e.inode = To(s.d, p, l0, o0) /\ e.type = Kind(s.d, p, l0, o0)
          /\ e.inode \in InodeNos
      BY <1>0, <1>4, LookupFacts
    <2>2. Good(s.d, R, c) /\ Settled(c)
      <3> HIDE DEF l0, o0
      <3> QED
        BY <1>0, <2>1, Leave
    <2>3. /\ c.n = e.inode /\ c.type = e.type /\ c.at = {Place(p, y)}
          /\ c.home = IF e.type = "dir" THEN p ELSE 0
      BY <2>1 DEF Leaving, Place
    <2>4. Mid(s, R, c, g, x)
      BY <2>2, Recast
    <2>5. c.n # 0 /\ Ready(c, g, q)
      BY <2>1, <2>3, SlotFacts DEF Ready
    <2> HIDE DEF c
    <2>6. Adds(s, AddDirEntry(s, q, new, c.n, c.type), R, c, g, x, q, new)
      BY <2>4, <2>5, AddMid
    <2>7. Adds(s, a, R, c, g, x, q, new)
      BY <2>3, <2>6
    <2> HIDE DEF a
    <2>8. CASE ~a.ok
      <3>1. Refused(s, a, R, c, g, x) /\ a \in Sessions
        BY <2>7, <2>8 DEF Adds
      <3>2. Mid(a, R, c, g, x) /\ a.d \in Disks /\ Good(a.d, R, c)
        BY <3>1, SessionFacts DEF Refused, Mid
      <3>3. Good(a.d, R, None)
        BY <2>2, <3>2, Settle
      <3>4. CallOK(a, g, x)
        BY <3>1, <3>2, <3>3, FailOK
      <3> QED
        BY <1>1, <1>4, <2>8, <3>4
    <2>9. CASE a.ok
      <3>1. a \in Sessions /\ \E l \in Nat, o \in Offs : Arrived(s, a, R, c, g, x, q, l, o, new)
        BY <2>7, <2>9 DEF Adds
      <3>2. PICK l \in Nat, o \in Offs : Arrived(s, a, R, c, g, x, q, l, o, new)
        BY <3>1
      <3>3. /\ r \in Sessions /\ Renamed(r, R, c, g, x, q) /\ (p = q \/ r.ok = TRUE)
            /\ KeepsOthers(a.d, r.d, p)
        <4>1. Apart(p, name, q, new)
          BY <1>4 DEF Apart
        <4>2. LiveAt(SeenIn(s.d, p), name) # {} /\ s.d.inode[p].mode = "dir"
          BY <2>1
        <4>3. LeavesFrom(c, s.d, p, name)
          BY <2>3 DEF LeavesFrom
        <4>4. a \in Sessions
          BY <3>1
        <4>5. c.n # 0
          BY <2>5
        <4>6. OldGone(a, r, R, c, g, x, p, q)
          BY ONLY s \in Sessions, p \in R, q \in R, name \in Names, ~g, l \in Nat, o \in Offs,
             <4>4, <2>4, <3>2, <4>1, <4>2, <4>3, <4>5, OldNameMid
        <4> QED
          BY <4>6 DEF OldGone
      <3>4. Others(s.d, a.d, R, q, l)
        BY <3>2 DEF Arrived
      <3>5. a.d.inode[p].mode = "dir" /\ a.d.inode[q].mode = "dir"
        BY <2>1, <3>4 DEF Others
      <3>6. r.d.inode[p].mode = "dir" /\ r.d.inode[q].mode = "dir"
        BY <1>0, <3>3, <3>5 DEF KeepsOthers
      <3> HIDE DEF r
      <3>7. PICK t : /\ Mid(r, R, t, g, x) /\ t.n = c.n /\ t.type = c.type /\ t.home = c.home
                     /\ "tombstone" \in r.marks \/ OnlyAt(t, q)
        BY <3>3 DEF Renamed
      <3>8. v = IF r.ok /\ e.type = "dir" /\ p # q THEN Reparent(r, e.inode, p, q) ELSE r
        BY DEF Moved
      <3>9. CASE r.ok /\ e.type = "dir" /\ p # q
        <4>1. t.home = p /\ t.n = e.inode
          BY <2>3, <3>7, <3>9
        <4>2. /\ r.marks # {} => Reparent(r, t.n, p, q).marks # {}
              /\ OnlyAt(t, q) => CallOK(Reparent(r, t.n, p, q), g, x)
          BY <3>3, <3>6, <3>7, <4>1, ReparentOK
        <4>3. v = Reparent(r, t.n, p, q)
          BY <3>8, <3>9, <4>1
        <4> HIDE DEF v
        <4>4. CallOK(v, g, x)
          <5>1. CASE "tombstone" \in r.marks
            BY <4>2, <4>3, <5>1 DEF CallOK
          <5>2. CASE OnlyAt(t, q)
            BY <4>2, <4>3, <5>2
          <5> QED
            BY <3>7, <5>1, <5>2
        <4> QED
          BY <1>1, <1>4, <2>9, <4>4
      <3>10. CASE ~(r.ok /\ e.type = "dir" /\ p # q)
        <4>1. CallOK(r, g, x)
          <5>1. CASE "tombstone" \in r.marks
            BY <5>1 DEF CallOK
          <5>2. CASE OnlyAt(t, q)
            <6>1. t.type = "dir" => t.home = q
              BY <2>3, <3>3, <3>7, <3>10
            <6>2. Settled(t)
              BY <5>2, <6>1 DEF Settled, OnlyAt
            <6>3. r.d \in Disks /\ Good(r.d, R, t)
              BY <3>3, <3>7, SessionFacts DEF Mid
            <6>4. Good(r.d, R, None)
              BY <6>2, <6>3, Settle
            <6> QED
              BY <3>3, <3>7, <6>4, FailOK
          <5> QED
            BY <3>7, <5>1, <5>2
        <4> QED
          BY <1>1, <1>4, <2>9, <3>8, <3>10, <4>1
      <3> QED
        BY <3>9, <3>10
    <2> QED
      BY <2>8, <2>9
  <1> QED
    BY <1>3, <1>4

----------------------------------------------------------------------------
(* ext2_truncate_file *)

LEMMA PutRaw ==
    ASSUME NEW s \in Sessions, NEW e \in Disks, e.bbm = s.d.bbm, e.ibm = s.d.ibm
    PROVE  /\ Put(s, e) \in Sessions /\ Put(s, e).d = e /\ Alike(s, Put(s, e))
           /\ Exact(s) => Exact(Put(s, e))
  <1>1. /\ Put(s, e) \in Sessions /\ Put(s, e).d = e /\ Put(s, e).m = s.m
        /\ Alike(s, Put(s, e))
    BY PutFacts
  <1> QED
    BY <1>1, Zenon DEF Exact

\* Only the pointers and the size of a file change.
OnFile(d, e, R, n) ==
    /\ e.ibm = d.ibm
    /\ e.inode[n].mode = "file" /\ e.inode[n].links = d.inode[n].links
    /\ \A m \in R : m # n =>
          /\ e.inode[m] = d.inode[m]
          /\ \A k \in Slots : /\ Ptr(e, m, k) = Ptr(d, m, k)
                              /\ Ptr(d, m, k) # 0 =>
                                   e.blk[Ptr(d, m, k)].ents = d.blk[Ptr(d, m, k)].ents

LEMMA FileStep ==
    ASSUME NEW d \in Disks, NEW R, NEW c, Good(d, R, c), NEW e \in Disks, NEW n \in R,
           d.inode[n].mode = "file", OnFile(d, e, R, n), Own(e, R)
    PROVE  Good(e, R, c)
  <1>0. R \in SUBSET InodeNos /\ Used(d, R) /\ Heads(d, R) /\ n # Root
    BY DEF Good, Used
  <1>1. Used(e, R)
    BY <1>0 DEF Used, OnFile
  <1>2. \A m \in R : e.inode[m].mode = d.inode[m].mode
    BY DEF OnFile
  <1>3. Heads(e, R)
    <2> SUFFICES ASSUME NEW m \in R, e.inode[m].mode = "dir"
                 PROVE  /\ e.inode[m].blocks >= 1 /\ Ptr(e, m, 0) # 0
                        /\ Headed(e.blk[Ptr(e, m, 0)].ents)
      BY DEF Heads
    <2>1. m # n /\ d.inode[m].mode = "dir"
      BY <1>2 DEF OnFile
    <2> QED
      BY <1>0, <2>1, SlotFacts DEF OnFile, Heads
  <1>4. NoNewName(d, e, R, c)
    <2> SUFFICES ASSUME NEW p \in R, NEW l \in Logicals, NEW o \in Offs, Live(e, p, l, o)
                 PROVE  Kept(d, e, p, l, o)
      BY DEF NoNewName
    <2>1. p # n /\ l \in Slots
      BY SlotFacts DEF OnFile, Live
    <2>2. /\ e.inode[p] = d.inode[p] /\ Ptr(e, p, l) = Ptr(d, p, l) /\ Ptr(d, p, l) # 0
          /\ e.blk[Ptr(d, p, l)].ents = d.blk[Ptr(d, p, l)].ents
      BY <2>1 DEF OnFile, Live
    <2> QED
      BY <2>2 DEF Kept, Live, To, Kind
  <1>5. SameInodes(d, e, R)
    BY <1>2 DEF SameInodes, OnFile
  <1>6. SameDots(d, e, R, c)
    <2> SUFFICES ASSUME NEW m \in R, d.inode[m].mode = "dir"
                 PROVE  DotDot(e, m) = DotDot(d, m)
      BY DEF SameDots
    <2> QED
      BY <1>0, SlotFacts DEF OnFile, Heads, DotDot
  <1> QED
    BY <1>1, <1>3, <1>4, <1>5, <1>6, Less

\* A file loses pointers, and blocks nothing points at any more are free.
Shorter(d, e, R, n) ==
    /\ \A k \in Slots : Ptr(e, n, k) = 0 \/ Ptr(e, n, k) = Ptr(d, n, k)
    /\ \A m \in R, k \in Slots : Ptr(e, m, k) # 0 => Ptr(e, m, k) \in e.bbm

LEMMA Shed ==
    ASSUME NEW d \in Disks, NEW R, NEW c, Good(d, R, c), NEW e \in Disks, NEW n \in R,
           d.inode[n].mode = "file", OnFile(d, e, R, n), Shorter(d, e, R, n)
    PROVE  Good(e, R, c)
  <1>1. \A m \in R, k \in Slots : Ptr(e, m, k) # 0 => Ptr(e, m, k) = Ptr(d, m, k)
    BY DEF OnFile, Shorter
  <1>2. Own(e, R)
    BY <1>1 DEF Own, Good, Shorter
  <1> QED
    BY <1>2, FileStep

LEMMA CountedFacts ==
    ASSUME NEW i \in Inodes, NEW keep \in Nat
    PROVE  Counted(i, keep) \in Nat
  <1> DEFINE S == {l \in DOMAIN i.block : l < keep /\ i.block[l] # 0}
  <1>1. DOMAIN i.block = 0 .. NDirect - 1
    BY DEF Inodes
  <1>2. IsFiniteSet(0 .. NDirect - 1)
    BY Numbers, FS_Interval
  <1>3. S \in SUBSET (0 .. NDirect - 1)
    BY <1>1
  <1> HIDE DEF S
  <1>4. Cardinality(S) \in Nat
    BY <1>2, <1>3, FS_Subset, FS_CardinalityType, Zenon
  <1> QED
    BY <1>4 DEF S, Counted

\* The inode KeepDirect writes.
CutInode(i, size, keep) ==
    [i EXCEPT !.size = size, !.blocks = Counted(i, keep), !.ind = 0,
              !.block = [l \in DOMAIN i.block |-> IF l < keep THEN i.block[l] ELSE 0]]

LEMMA CutFacts ==
    ASSUME NEW i \in Inodes, NEW size \in Nat, NEW keep \in Nat
    PROVE  LET j == CutInode(i, size, keep)
           IN  /\ j \in Inodes /\ j.mode = i.mode /\ j.links = i.links /\ j.ind = 0
               /\ \A k \in 0 .. NDirect - 1 : j.block[k] = IF k < keep THEN i.block[k] ELSE 0
  <1> DEFINE j == CutInode(i, size, keep)
             f == [l \in DOMAIN i.block |-> IF l < keep THEN i.block[l] ELSE 0]
             h == Counted(i, keep)
  <1>1. h \in Nat
    BY CountedFacts
  <1>2. DOMAIN i.block = 0 .. NDirect - 1 /\ i.block \in [0 .. NDirect - 1 -> Refs]
    BY DEF Inodes
  <1>3. /\ f \in [0 .. NDirect - 1 -> Refs]
        /\ \A k \in 0 .. NDirect - 1 : f[k] = IF k < keep THEN i.block[k] ELSE 0
    BY <1>2, SlotFacts, Zenon
  <1>4. j = [i EXCEPT !.size = size, !.blocks = h, !.ind = 0, !.block = f]
    BY DEF CutInode
  <1> HIDE DEF h, f
  <1>5. /\ j \in Inodes /\ j.mode = i.mode /\ j.links = i.links /\ j.ind = 0 /\ j.block = f
    BY <1>1, <1>3, <1>4, SlotFacts, Zenon DEF Inodes
  <1> HIDE DEF j
  <1> QED
    BY <1>3, <1>5 DEF j

\* The blocks from keep on are freed and their pointers cleared.
LEMMA CutGood ==
    ASSUME NEW d \in Disks, NEW R, NEW c, Good(d, R, c), NEW n \in R, d.inode[n].mode = "file",
           NEW size \in Nat, NEW keep \in 0 .. NDirect
    PROVE  LET i == d.inode[n]
               f == Freed(d, BlockRefs(d, i, keep), MaxLen + 1)
           IN  /\ f \in Disks /\ CutInode(i, size, keep) \in Inodes
               /\ Good(PutInode(f, n, CutInode(i, size, keep)), R, c)
  <1> DEFINE i == d.inode[n]
             refs == BlockRefs(d, i, keep)
             N == MaxLen + 1
             f == Freed(d, refs, N)
             j == CutInode(i, size, keep)
             e == PutInode(f, n, j)
             B == d.bbm \ {refs[k] : k \in 1 .. N}
  <1>0. /\ R \in SUBSET InodeNos /\ n \in InodeNos /\ i \in Inodes /\ keep \in Nat
        /\ d.bbm \in SUBSET BlockNos /\ d.ibm \in SUBSET InodeNos
    BY DiskFacts DEF Good
  <1>1. \A k \in 1 .. N : refs[k] # 0 =>
             /\ k - 1 \in Slots /\ k > keep /\ refs[k] = Ptr(d, n, k - 1)
             /\ Unowned(d, R \ {n}, refs[k])
    BY <1>0, SpareOf, Zenon
  <1>2. /\ j \in Inodes /\ j.mode = i.mode /\ j.links = i.links /\ j.ind = 0
        /\ \A k \in 0 .. NDirect - 1 : j.block[k] = IF k < keep THEN i.block[k] ELSE 0
    <2> HIDE DEF i
    <2> QED
      BY <1>0, CutFacts, Zenon
  <1> HIDE DEF refs
  <1>3. f \in Disks /\ f.bbm = B /\ f.ibm = d.ibm /\ f.inode = d.inode /\ f.blk = d.blk
    <2>1. B \in SUBSET BlockNos
      BY <1>0
    <2>2. f = PutBits(d, B, d.ibm)
      BY DEF Freed
    <2> HIDE DEF B
    <2> QED
      BY <1>0, <2>1, <2>2, PutBitsFacts
  <1> HIDE DEF j, f
  <1>4. /\ e \in Disks /\ e.bbm = B /\ e.ibm = d.ibm /\ e.blk = d.blk
        /\ \A m \in InodeNos : e.inode[m] = IF m = n THEN j ELSE d.inode[m]
    BY ONLY <1>0, <1>2, <1>3, PutInodeFacts, SMTT(60)
  <1>5. /\ \A m \in InodeNos \ {n}, k \in Slots : Ptr(e, m, k) = Ptr(f, m, k)
        /\ \A k \in Slots : Ptr(e, n, k) = PtrOf(f, j, k)
    BY ONLY <1>0, <1>2, <1>3, PutInodePtrs
  <1>6. \A m \in InodeNos, k \in Slots : Ptr(f, m, k) = Ptr(d, m, k)
    BY <1>3 DEF Ptr, PtrOf, BlockLookup
  <1> HIDE DEF e, B
  <1>7. \A m \in R, k \in Slots : m # n => Ptr(e, m, k) = Ptr(d, m, k)
    BY <1>0, <1>5, <1>6
  <1>8. \A k \in Slots : Ptr(e, n, k) = IF k < keep THEN Ptr(d, n, k) ELSE 0
    <2> SUFFICES ASSUME NEW k \in Slots
                 PROVE  Ptr(e, n, k) = IF k < keep THEN Ptr(d, n, k) ELSE 0
      OBVIOUS
    <2>1. k < NDirect \/ k \in NDirect .. MaxLen - 1 \/ k = MaxLen
      BY Numbers DEF Slots
    <2>2. CASE k < NDirect
      <3>1. k \in 0 .. NDirect - 1
        BY <2>2, Numbers DEF Slots
      <3>2. PtrOf(f, j, k) = j.block[k] /\ Ptr(d, n, k) = i.block[k]
        BY <1>0, <1>2, <1>3, <2>2, PtrFacts DEF Ptr
      <3> QED
        BY <1>2, <1>5, <3>1, <3>2
    <2>3. CASE k \in NDirect .. MaxLen - 1 \/ k = MaxLen
      <3>1. ~(k < keep)
        BY <2>3, Numbers
      <3>2. PtrOf(f, j, k) = 0
        BY <1>2, <1>3, <2>3, PtrFacts
      <3> QED
        BY <1>5, <3>1, <3>2
    <2> QED
      BY <2>1, <2>2, <2>3
  <1>9. OnFile(d, e, R, n)
    BY <1>0, <1>2, <1>4, <1>7 DEF OnFile
  <1>10. Shorter(d, e, R, n)
    <2>1. ASSUME NEW m \in R, NEW k \in Slots, Ptr(e, m, k) # 0
          PROVE  Ptr(e, m, k) \in e.bbm
      <3>1. Ptr(e, m, k) = Ptr(d, m, k) /\ (m = n => k < keep)
        BY <1>7, <1>8, <2>1
      <3>2. /\ Ptr(d, m, k) \in d.bbm
            /\ \A u \in R, h \in Slots : Ptr(d, u, h) = Ptr(d, m, k) => u = m /\ h = k
        BY <2>1, <3>1, Owned
      <3>3. ASSUME NEW h \in 1 .. N, refs[h] = Ptr(d, m, k)
            PROVE  FALSE
        <4>1. /\ h - 1 \in Slots /\ h > keep /\ refs[h] = Ptr(d, n, h - 1)
              /\ Unowned(d, R \ {n}, refs[h])
          BY <1>1, <2>1, <3>1, <3>3
        <4>2. n = m /\ h - 1 = k
          BY <3>2, <3>3, <4>1
        <4> QED
          BY <1>0, <3>1, <4>1, <4>2, Numbers
      <3> QED
        BY <1>4, <3>1, <3>2, <3>3 DEF B
    <2> QED
      BY <1>8, <2>1 DEF Shorter
  <1>11. Good(e, R, c)
    BY <1>4, <1>9, <1>10, Shed
  <1> QED
    BY <1>2, <1>3, <1>11 DEF e, f, j, refs

\* The table KeepTable writes.
CutTable(y, K) == [y EXCEPT !.ptrs = [l \in DOMAIN y.ptrs |-> IF l < K THEN y.ptrs[l] ELSE 0]]

LEMMA CutTableFacts ==
    ASSUME NEW y \in Blocks, NEW K \in Nat
    PROVE  LET z == CutTable(y, K)
           IN  /\ z \in Blocks /\ z.ents = y.ents
               /\ \A l \in 0 .. PtrsPerBlock - 1 : z.ptrs[l] = IF l < K THEN y.ptrs[l] ELSE 0
               /\ TableRefs(y.ptrs, K) \in [1 .. PtrsPerBlock -> Refs]
               /\ \A k \in 1 .. PtrsPerBlock :
                     TableRefs(y.ptrs, K)[k] = IF k > K THEN y.ptrs[k - 1] ELSE 0
  <1> DEFINE f == [l \in DOMAIN y.ptrs |-> IF l < K THEN y.ptrs[l] ELSE 0]
             z == CutTable(y, K)
             r == TableRefs(y.ptrs, K)
  <1>1. y.ptrs \in [0 .. PtrsPerBlock - 1 -> Refs] /\ DOMAIN y.ptrs = 0 .. PtrsPerBlock - 1
    BY DEF Blocks
  <1>2. /\ f \in [0 .. PtrsPerBlock - 1 -> Refs]
        /\ \A l \in 0 .. PtrsPerBlock - 1 : f[l] = IF l < K THEN y.ptrs[l] ELSE 0
    BY <1>1, SlotFacts, Zenon
  <1>3. z = [y EXCEPT !.ptrs = f]
    BY DEF CutTable
  <1> HIDE DEF f
  <1>4. z \in Blocks /\ z.ents = y.ents /\ z.ptrs = f
    BY <1>2, <1>3 DEF Blocks
  <1>5. \A k \in 1 .. PtrsPerBlock : r[k] = IF k > K THEN y.ptrs[k - 1] ELSE 0
    BY DEF TableRefs
  <1>6. r \in [1 .. PtrsPerBlock -> Refs]
    <2>1. \A k \in 1 .. PtrsPerBlock : k - 1 \in 0 .. PtrsPerBlock - 1
      BY Numbers
    <2>2. \A k \in 1 .. PtrsPerBlock : (IF k > K THEN y.ptrs[k - 1] ELSE 0) \in Refs
      BY <1>1, <2>1, SlotFacts, Zenon
    <2> QED
      BY <2>2 DEF TableRefs
  <1> HIDE DEF z, r
  <1> QED
    BY <1>2, <1>4, <1>5, <1>6 DEF z, r

\* The blocks of the table from K on are freed and their pointers cleared.
LEMMA CutTableGood ==
    ASSUME NEW d \in Disks, NEW R, NEW c, Good(d, R, c), NEW n \in R, d.inode[n].mode = "file",
           NEW a, a = d.inode[n].ind, a # 0, NEW K \in Nat, NEW j \in Inodes,
           j.mode = "file", j.links = d.inode[n].links, j.block = d.inode[n].block, j.ind = a
    PROVE  LET refs == TableRefs(d.blk[a].ptrs, K)
               f == Freed(d, refs, PtrsPerBlock)
               y == CutTable(d.blk[a], K)
           IN  /\ a \in BlockNos /\ refs \in [1 .. PtrsPerBlock -> Refs] /\ y \in Blocks
               /\ f \in Disks /\ Spare(d, refs, PtrsPerBlock)
               /\ PutBlk(f, a, y) \in Disks /\ Good(PutInode(PutBlk(f, a, y), n, j), R, c)
  <1> DEFINE i == d.inode[n]
             refs == TableRefs(d.blk[a].ptrs, K)
             P == PtrsPerBlock
             f == Freed(d, refs, P)
             y == CutTable(d.blk[a], K)
             w == PutBlk(f, a, y)
             e == PutInode(w, n, j)
             B == d.bbm \ {refs[k] : k \in 1 .. P}
  <1>0. /\ R \in SUBSET InodeNos /\ n \in InodeNos /\ i \in Inodes
        /\ d.bbm \in SUBSET BlockNos /\ d.ibm \in SUBSET InodeNos /\ P \in Nat
    BY DiskFacts, Numbers, Zenon DEF Good
  <1>1. a \in BlockNos /\ d.blk[a] \in Blocks /\ Ptr(d, n, MaxLen) = a /\ MaxLen \in Slots
    <2>1. a \in BlockNos /\ MaxLen \in Slots
      BY <1>0, SlotFacts, PtrFacts
    <2> QED
      BY <2>1, DiskFacts DEF Ptr, PtrOf
  <1>2. /\ y \in Blocks /\ y.ents = d.blk[a].ents
        /\ \A l \in 0 .. P - 1 : y.ptrs[l] = IF l < K THEN d.blk[a].ptrs[l] ELSE 0
        /\ refs \in [1 .. P -> Refs]
        /\ \A k \in 1 .. P : refs[k] = IF k > K THEN d.blk[a].ptrs[k - 1] ELSE 0
    <2> DEFINE x == d.blk[a]
    <2>1. x \in Blocks
      BY <1>1
    <2> HIDE DEF x
    <2>2. LET z == CutTable(x, K)
           IN  /\ z \in Blocks /\ z.ents = x.ents
               /\ \A l \in 0 .. PtrsPerBlock - 1 : z.ptrs[l] = IF l < K THEN x.ptrs[l] ELSE 0
               /\ TableRefs(x.ptrs, K) \in [1 .. PtrsPerBlock -> Refs]
               /\ \A k \in 1 .. PtrsPerBlock :
                     TableRefs(x.ptrs, K)[k] = IF k > K THEN x.ptrs[k - 1] ELSE 0
      BY ONLY <2>1, K \in Nat, CutTableFacts
    <2> QED
      BY <2>2, Zenon DEF x
  <1>3. \A l \in 0 .. P - 1 : /\ Ptr(d, n, NDirect + l) = d.blk[a].ptrs[l]
                              /\ NDirect + l \in Slots /\ NDirect + l \in NDirect .. MaxLen - 1
    <2> SUFFICES ASSUME NEW l \in 0 .. P - 1
                 PROVE  /\ Ptr(d, n, NDirect + l) = d.blk[a].ptrs[l]
                        /\ NDirect + l \in Slots /\ NDirect + l \in NDirect .. MaxLen - 1
      OBVIOUS
    <2> DEFINE k == NDirect + l
    <2>1. k \in Slots /\ k \in NDirect .. MaxLen - 1 /\ k - NDirect = l
      BY Numbers DEF Slots
    <2> HIDE DEF k
    <2>2. Ptr(d, n, k) = d.blk[a].ptrs[l]
      BY <1>0, <1>1, <2>1, PtrFacts, SlotFacts DEF Ptr
    <2> QED
      BY <2>1, <2>2 DEF k
  <1> HIDE DEF refs, y
  <1>4. \A k \in 1 .. P : refs[k] # 0 =>
           k > K /\ refs[k] = Ptr(d, n, NDirect + (k - 1)) /\ NDirect + (k - 1) \in Slots
    <2>1. \A k \in 1 .. P : k - 1 \in 0 .. P - 1
      BY <1>0
    <2> QED
      BY <1>2, <1>3, <2>1
  <1>5. Spare(d, refs, P)
    <2> SUFFICES ASSUME NEW k \in 1 .. P, refs[k] # 0
                 PROVE  refs[k] \in d.bbm /\ \A h \in 1 .. P : refs[h] = refs[k] => h = k
      BY DEF Spare
    <2>1. /\ refs[k] \in d.bbm
          /\ \A u \in R, h \in Slots : Ptr(d, u, h) = refs[k] => u = n /\ h = NDirect + (k - 1)
      BY <1>4, Owned
    <2>2. ASSUME NEW h \in 1 .. P, refs[h] = refs[k]
          PROVE  h = k
      <3>1. NDirect + (h - 1) = NDirect + (k - 1)
        BY <1>4, <2>1, <2>2
      <3> QED
        BY <1>0, <3>1, Numbers
    <2> QED
      BY <2>1, <2>2
  <1>6. f \in Disks /\ f.bbm = B /\ f.ibm = d.ibm /\ f.inode = d.inode /\ f.blk = d.blk
    <2>1. B \in SUBSET BlockNos
      BY <1>0
    <2>2. f = PutBits(d, B, d.ibm)
      BY DEF Freed
    <2> HIDE DEF B
    <2> QED
      BY <1>0, <2>1, <2>2, PutBitsFacts
  <1> HIDE DEF f, B
  <1>7. /\ w \in Disks /\ w.bbm = B /\ w.ibm = d.ibm /\ w.inode = d.inode
        /\ \A b \in BlockNos : w.blk[b] = IF b = a THEN y ELSE d.blk[b]
    BY ONLY <1>1, <1>2, <1>6, PutBlkFacts
  <1> HIDE DEF w
  <1>8. /\ e \in Disks /\ e.bbm = B /\ e.ibm = d.ibm /\ e.blk = w.blk
        /\ \A m \in InodeNos : e.inode[m] = IF m = n THEN j ELSE d.inode[m]
    BY ONLY <1>0, <1>7, j \in Inodes, PutInodeFacts
  <1> HIDE DEF e
  <1>9. \A m \in R, k \in Slots : m # n => Ptr(e, m, k) = Ptr(d, m, k)
    <2> SUFFICES ASSUME NEW m \in R, NEW k \in Slots, m # n
                 PROVE  Ptr(e, m, k) = Ptr(d, m, k)
      OBVIOUS
    <2>1. m \in InodeNos /\ e.inode[m] = d.inode[m] /\ d.inode[m] \in Inodes
      BY <1>0, <1>8, DiskFacts
    <2>2. d.inode[m].ind # a
      <3>1. Ptr(d, m, MaxLen) = d.inode[m].ind
        BY DEF Ptr, PtrOf
      <3> QED
        BY <1>1, <3>1, Owned
    <2>3. d.inode[m].ind # 0 => d.inode[m].ind \in BlockNos
      BY <2>1, SlotFacts, PtrFacts
    <2>4. d.inode[m].ind # 0 => e.blk[d.inode[m].ind].ptrs = d.blk[d.inode[m].ind].ptrs
      BY <1>7, <1>8, <2>2, <2>3
    <2> QED
      BY <1>8, <2>1, <2>4, SamePtrs
  <1>10. \A k \in Slots : Ptr(e, n, k) =
              IF k \in NDirect .. MaxLen - 1 /\ ~(k - NDirect < K) THEN 0 ELSE Ptr(d, n, k)
    <2> SUFFICES ASSUME NEW k \in Slots
                 PROVE  Ptr(e, n, k) = IF k \in NDirect .. MaxLen - 1 /\ ~(k - NDirect < K) THEN 0
                                       ELSE Ptr(d, n, k)
      OBVIOUS
    <2>0. e.inode[n] = j
      BY <1>0, <1>8
    <2>1. k < NDirect \/ k \in NDirect .. MaxLen - 1 \/ k = MaxLen
      BY Numbers DEF Slots
    <2>2. CASE k < NDirect
      <3>1. k \notin NDirect .. MaxLen - 1
        BY <2>2, Numbers
      <3>2. PtrOf(e, j, k) = j.block[k] /\ PtrOf(d, i, k) = i.block[k]
        BY <1>0, <1>8, <2>2, PtrFacts, SMTT(30)
      <3> QED
        BY <2>0, <3>1, <3>2 DEF Ptr
    <2>3. CASE k \in NDirect .. MaxLen - 1
      <3>1. k - NDirect \in 0 .. P - 1
        BY <2>3, Numbers
      <3>2. PtrOf(e, j, k) = e.blk[a].ptrs[k - NDirect]
            /\ PtrOf(d, i, k) = d.blk[a].ptrs[k - NDirect]
        BY <1>0, <1>8, <2>3, PtrFacts
      <3>3. e.blk[a] = y
        BY <1>1, <1>7, <1>8
      <3> QED
        BY <1>2, <2>0, <2>3, <3>1, <3>2, <3>3 DEF Ptr
    <2>4. CASE k = MaxLen
      <3>1. k \notin NDirect .. MaxLen - 1
        BY <2>4, Numbers
      <3> QED
        BY <2>0, <2>4, <3>1 DEF Ptr, PtrOf
    <2> QED
      BY <2>1, <2>2, <2>3, <2>4
  <1>11. OnFile(d, e, R, n)
    <2>1. e.inode[n] = j /\ \A m \in R : m # n => e.inode[m] = d.inode[m]
      BY <1>0, <1>8
    <2>2. ASSUME NEW m \in R, NEW k \in Slots, Ptr(d, m, k) # 0
          PROVE  e.blk[Ptr(d, m, k)].ents = d.blk[Ptr(d, m, k)].ents
      <3>1. Ptr(d, m, k) \in BlockNos
        BY <2>2, Owned
      <3> QED
        BY <1>2, <1>7, <1>8, <3>1
    <2> QED
      BY <1>8, <1>9, <2>1, <2>2 DEF OnFile
  <1>12. Shorter(d, e, R, n)
    <2>1. ASSUME NEW m \in R, NEW k \in Slots, Ptr(e, m, k) # 0
          PROVE  Ptr(e, m, k) \in e.bbm
      <3>1. /\ Ptr(e, m, k) = Ptr(d, m, k)
            /\ m = n => ~(k \in NDirect .. MaxLen - 1 /\ ~(k - NDirect < K))
        BY <1>9, <1>10, <2>1
      <3>2. /\ Ptr(d, m, k) \in d.bbm
            /\ \A u \in R, h \in Slots : Ptr(d, u, h) = Ptr(d, m, k) => u = m /\ h = k
        BY <2>1, <3>1, Owned
      <3>3. ASSUME NEW h \in 1 .. P, refs[h] = Ptr(d, m, k)
            PROVE  FALSE
        <4>1. h > K /\ refs[h] = Ptr(d, n, NDirect + (h - 1)) /\ NDirect + (h - 1) \in Slots
          BY <1>4, <2>1, <3>1, <3>3
        <4>2. n = m /\ NDirect + (h - 1) = k
          BY <3>2, <3>3, <4>1
        <4>3. k \in NDirect .. MaxLen - 1 /\ ~(k - NDirect < K)
          BY <1>0, <4>1, <4>2, Numbers
        <4> QED
          BY <3>1, <4>2, <4>3
      <3> QED
        BY <1>8, <3>1, <3>2, <3>3 DEF B
    <2> QED
      BY <1>10, <2>1 DEF Shorter
  <1>13. Good(e, R, c)
    BY <1>8, <1>11, <1>12, Shed
  <1> QED
    BY <1>1, <1>2, <1>5, <1>6, <1>7, <1>13, Zenon DEF e, w, f, y, refs

\* With no power loss to fear, only the last image matters.
LEMMA RawDone ==
    ASSUME NEW s \in Sessions, NEW R, NEW g, NEW x, Mid(s, R, None, g, x), ~g,
           NEW t \in Sessions, Exact(s) => Exact(t), Good(t.d, R, None)
    PROVE  CallOK(t, g, x)
  <1>1. Mid(t, R, None, g, x)
    BY DEF Mid
  <1> QED
    BY <1>1 DEF CallOK, Done

LEMMA BlocksForFacts ==
    ASSUME NEW size \in Nat
    PROVE  BlocksFor(size) \in Nat
  <1> DEFINE y == size + BlockUnits - 1
  <1>1. y \in Nat
    BY Numbers
  <1> HIDE DEF y
  <1>2. y \div BlockUnits \in Nat
    BY <1>1, DivMod
  <1> QED
    BY <1>2 DEF BlocksFor, y

LEMMA KeepDirectOK ==
    ASSUME NEW s \in Sessions, NEW R, NEW g, NEW x, Mid(s, R, None, g, x), ~g,
           NEW n \in R, s.d.inode[n].mode = "file", NEW size \in Nat, NEW keep \in 0 .. NDirect
    PROVE  CallOK(KeepDirect(s, n, s.d.inode[n], size, keep), g, x)
  <1> DEFINE d == s.d
             i == d.inode[n]
             refs == BlockRefs(d, i, keep)
             N == MaxLen + 1
             f == Freed(d, refs, N)
             j == CutInode(i, size, keep)
             a == FreeAll(s, refs)
             e == PutInode(f, n, j)
             t == Put(a, e)
  <1>0. d \in Disks /\ Good(d, R, None) /\ n \in InodeNos /\ i \in Inodes /\ N \in Nat
    BY SessionFacts, DiskFacts, Numbers DEF Mid, Good
  <1>1. f \in Disks /\ j \in Inodes /\ Good(e, R, None)
    <2> HIDE DEF d
    <2> QED
      BY <1>0, CutGood DEF d
  <1>2. refs \in [1 .. N -> Refs] /\ Spare(d, refs, N)
    BY <1>0, RefsFacts, SpareOf, Zenon
  <1>3. KeepDirect(s, n, i, size, keep) = WriteInode(a, n, j)
    BY DEF KeepDirect, FreeInodeBlocks, CutInode
  <1> HIDE DEF refs, N, j
  <1>4. a \in Sessions /\ Alike(s, a) /\ a.d = f /\ (Exact(s) => Exact(a))
    BY <1>0, <1>2, FreeAllRaw
  <1> HIDE DEF a
  <1>5. WriteInode(a, n, j) = t
    BY <1>4 DEF WriteInode, PutInode
  <1> HIDE DEF f
  <1>6. e \in Disks /\ e.bbm = f.bbm /\ e.ibm = f.ibm
    BY ONLY <1>0, <1>1, PutInodeFacts
  <1> HIDE DEF e
  <1>7. t \in Sessions /\ t.d = e /\ (Exact(a) => Exact(t))
    BY <1>4, <1>6, PutRaw
  <1> HIDE DEF t
  <1>8. Good(t.d, R, None) /\ (Exact(s) => Exact(t))
    BY <1>1, <1>4, <1>7
  <1>9. CallOK(t, g, x)
    BY <1>7, <1>8, RawDone
  <1> QED
    BY <1>3, <1>5, <1>9

LEMMA KeepTableOK ==
    ASSUME NEW s \in Sessions, NEW R, NEW g, NEW x, Mid(s, R, None, g, x), ~g,
           NEW n \in R, s.d.inode[n].mode = "file", s.d.inode[n].ind # 0, NEW size \in Nat,
           NEW keep \in Nat, keep > NDirect
    PROVE  CallOK(KeepTable(s, n, s.d.inode[n], size, keep), g, x)
  <1> DEFINE d == s.d
             i == d.inode[n]
             b == i.ind
             K == keep - NDirect
             refs == TableRefs(d.blk[b].ptrs, K)
             N == PtrsPerBlock
             f == Freed(d, refs, N)
             y == CutTable(d.blk[b], K)
             h == Counted(i, keep) + 1
             j == [i EXCEPT !.size = size, !.blocks = h]
             a == FreeAll(s, refs)
             w == PutBlk(f, b, y)
             u == Put(a, w)
             e == PutInode(w, n, j)
             t == Put(u, e)
  <1>0. d \in Disks /\ Good(d, R, None) /\ n \in InodeNos /\ i \in Inodes /\ N \in Nat /\ K \in Nat
    BY SessionFacts, DiskFacts, Numbers DEF Mid, Good
  <1>1. h \in Nat
    BY <1>0, CountedFacts
  <1>2. /\ j \in Inodes /\ j.mode = i.mode /\ j.links = i.links /\ j.block = i.block
        /\ j.ind = b
    <2> HIDE DEF i, h
    <2> QED
      BY <1>0, <1>1, Zenon DEF Inodes
  <1>3. KeepTable(s, n, i, size, keep) = WriteInode(WriteBlock(a, b, y), n, j)
    BY DEF KeepTable, CutTable
  <1>4. /\ b \in BlockNos /\ refs \in [1 .. N -> Refs] /\ y \in Blocks /\ f \in Disks
        /\ Spare(d, refs, N) /\ w \in Disks /\ Good(e, R, None)
    <2>1. d.inode[n].mode = "file" /\ b # 0 /\ b = d.inode[n].ind
      OBVIOUS
    <2>2. j.mode = "file" /\ j.links = d.inode[n].links /\ j.block = d.inode[n].block /\ j.ind = b
      BY <1>2
    <2> HIDE DEF d, b, K, j
    <2> QED
      BY <1>0, <1>2, <2>1, <2>2, CutTableGood
  <1> HIDE DEF refs, N, j, y
  <1>5. a \in Sessions /\ Alike(s, a) /\ a.d = f /\ (Exact(s) => Exact(a))
    BY <1>0, <1>4, FreeAllRaw
  <1> HIDE DEF a
  <1>6. WriteBlock(a, b, y) = u
    BY <1>5 DEF WriteBlock, PutBlk
  <1> HIDE DEF f
  <1>7. w.bbm = f.bbm /\ w.ibm = f.ibm
    BY ONLY <1>4, PutBlkFacts
  <1> HIDE DEF w
  <1>8. u \in Sessions /\ u.d = w /\ (Exact(a) => Exact(u))
    BY <1>4, <1>5, <1>7, PutRaw
  <1> HIDE DEF u
  <1>9. WriteInode(u, n, j) = t
    BY <1>8 DEF WriteInode, PutInode
  <1>10. e \in Disks /\ e.bbm = w.bbm /\ e.ibm = w.ibm
    BY ONLY <1>0, <1>2, <1>4, PutInodeFacts
  <1> HIDE DEF e
  <1>11. t \in Sessions /\ t.d = e /\ (Exact(u) => Exact(t))
    BY <1>8, <1>10, PutRaw
  <1> HIDE DEF t
  <1>12. Good(t.d, R, None) /\ (Exact(s) => Exact(t))
    BY <1>4, <1>5, <1>8, <1>11
  <1>13. CallOK(t, g, x)
    BY <1>11, <1>12, RawDone
  <1> QED
    BY <1>3, <1>6, <1>9, <1>13

\* ext2_truncate_file.
LEMMA TruncateFileOK ==
    ASSUME NEW s \in Sessions, NEW R, NEW g, NEW x, Mid(s, R, None, g, x), ~g,
           NEW n \in R, s.d.inode[n].mode = "file", NEW size \in Nat
    PROVE  CallOK(TruncateFile(s, n, size), g, x)
  <1> DEFINE d == s.d
             i == d.inode[n]
             keep == BlocksFor(size)
             t == TruncateFile(s, n, size)
             j == [i EXCEPT !.size = size]
             w == WriteInode(s, n, j)
  <1>0. d \in Disks /\ Good(d, R, None) /\ n \in InodeNos /\ i \in Inodes /\ keep \in Nat
    BY SessionFacts, DiskFacts, BlocksForFacts DEF Mid, Good
  <1>1. i.size \in Nat
    BY <1>0, Zenon DEF Inodes
  <1>2. t = CASE size >= i.size -> w
              [] size < i.size /\ keep <= NDirect -> KeepDirect(s, n, i, size, keep)
              [] size < i.size /\ keep \in NDirect + 1 .. MaxLen /\ i.ind # 0 ->
                    KeepTable(s, n, i, size, keep)
              [] OTHER -> Fail(s)
    BY DEF TruncateFile, TruncateInode
  <1>3. CallOK(Fail(s), g, x)
    BY <1>0, FailOK
  <1>4. CallOK(w, g, x)
    <2>1. /\ j \in Inodes /\ j.mode = i.mode /\ j.links = i.links /\ j.block = i.block
          /\ j.ind = i.ind /\ j.mode = "file"
      <3> HIDE DEF i
      <3>1. i.mode = "file"
        BY DEF i
      <3> QED
        BY <1>0, <3>1 DEF Inodes
    <2> HIDE DEF j
    <2>2. Good(PutInode(d, n, j), R, None)
      <3>1. j.mode = d.inode[n].mode /\ j.links = d.inode[n].links /\ j.block = d.inode[n].block
            /\ j.ind = d.inode[n].ind
        BY <2>1
      <3> HIDE DEF d
      <3> QED
        BY <1>0, <2>1, <3>1, Resize, Zenon
    <2>3. Mid(w, R, None, g, x) /\ w \in Sessions
      <3>1. g => Settled(None)
        OBVIOUS
      <3> QED
        BY <1>0, <2>1, <2>2, <3>1, WriteInodeMid
    <2> QED
      BY <2>3 DEF CallOK, Done
  <1>5. ASSUME keep <= NDirect PROVE CallOK(KeepDirect(s, n, i, size, keep), g, x)
    <2>1. keep \in 0 .. NDirect
      BY <1>0, <1>5, Numbers
    <2> HIDE DEF keep
    <2> QED
      BY <2>1, KeepDirectOK
  <1>6. ASSUME keep \in NDirect + 1 .. MaxLen, i.ind # 0
        PROVE  CallOK(KeepTable(s, n, i, size, keep), g, x)
    <2>1. keep > NDirect
      BY <1>0, <1>6, Numbers
    <2> HIDE DEF keep
    <2> QED
      BY <1>0, <1>6, <2>1, KeepTableOK
  <1> HIDE DEF w, keep, i, t
  <1>7. CASE size >= i.size
    <2>1. t = w
      BY <1>1, <1>2, <1>7
    <2> QED
      BY <1>4, <2>1 DEF t
  <1>8. CASE size < i.size /\ keep <= NDirect
    <2>1. ~(size >= i.size) /\ ~(keep \in NDirect + 1 .. MaxLen)
      BY <1>0, <1>1, <1>8, Numbers
    <2>2. t = KeepDirect(s, n, i, size, keep)
      BY <1>2, <1>8, <2>1
    <2> QED
      BY <1>5, <1>8, <2>2 DEF t
  <1>9. CASE size < i.size /\ keep \in NDirect + 1 .. MaxLen /\ i.ind # 0
    <2>1. ~(size >= i.size) /\ ~(keep <= NDirect)
      BY <1>0, <1>1, <1>9, Numbers
    <2>2. t = KeepTable(s, n, i, size, keep)
      BY <1>2, <1>9, <2>1
    <2> QED
      BY <1>6, <1>9, <2>2 DEF t
  <1>10. CASE /\ ~(size >= i.size) /\ ~(size < i.size /\ keep <= NDirect)
              /\ ~(size < i.size /\ keep \in NDirect + 1 .. MaxLen /\ i.ind # 0)
    <2>1. t = Fail(s)
      BY <1>2, <1>10
    <2> QED
      BY <1>3, <2>1 DEF t
  <1> QED
    BY <1>7, <1>8, <1>9, <1>10

----------------------------------------------------------------------------
(* ext2_node_write *)

\* The inode in memory has the pointers of the one on the disk, and more.
Extends(i, j) ==
    /\ i.ind # 0 => j.ind = i.ind
    /\ \A k \in 0 .. NDirect - 1 : i.block[k] # 0 => j.block[k] = i.block[k]

\* The disk is in order with either of them.
Drafted(s, i, R, n, g, x) ==
    /\ Mid(s, R, None, g, x) /\ i \in Inodes /\ i.mode = "file"
    /\ s.d.inode[n].mode = "file" /\ Extends(s.d.inode[n], i)
    /\ Good(PutInode(s.d, n, i), R, None)

\* v is the disk d as it will be once the inode i is written.
Backed(d, v, i, R, n) ==
    /\ d \in Disks /\ Good(d, R, None) /\ n \in InodeNos /\ R \in SUBSET InodeNos
    /\ i \in Inodes /\ d.inode[n] \in Inodes /\ i.mode = "file" /\ d.inode[n].mode = "file"
    /\ v \in Disks /\ v.inode[n] = i /\ v.bbm = d.bbm /\ v.ibm = d.ibm /\ v.blk = d.blk
    /\ Good(v, R, None) /\ Extends(d.inode[n], i)

Overlaid(d, v, i, R, n) ==
    /\ \A m \in R, k \in Slots : Ptr(v, m, k) = IF m = n THEN PtrOf(d, i, k) ELSE Ptr(d, m, k)
    /\ \A k \in Slots : Ptr(d, n, k) # 0 => PtrOf(d, i, k) = Ptr(d, n, k)

LEMMA DraftFacts ==
    ASSUME NEW s \in Sessions, NEW i, NEW R, NEW n \in R, NEW g, NEW x, Drafted(s, i, R, n, g, x)
    PROVE  /\ Backed(s.d, PutInode(s.d, n, i), i, R, n)
           /\ Overlaid(s.d, PutInode(s.d, n, i), i, R, n)
  <1> DEFINE d == s.d
             v == PutInode(d, n, i)
  <1>0. /\ d \in Disks /\ Good(d, R, None) /\ n \in InodeNos /\ R \in SUBSET InodeNos
        /\ i \in Inodes /\ d.inode[n] \in Inodes /\ Extends(d.inode[n], i)
        /\ i.mode = "file" /\ d.inode[n].mode = "file" /\ Good(v, R, None)
    BY SessionFacts, DiskFacts DEF Drafted, Mid, Good
  <1>1. /\ v \in Disks /\ v.bbm = d.bbm /\ v.ibm = d.ibm /\ v.blk = d.blk
        /\ \A m \in InodeNos : v.inode[m] = IF m = n THEN i ELSE d.inode[m]
    BY ONLY <1>0, PutInodeFacts
  <1>2. /\ \A m \in InodeNos \ {n}, k \in Slots : Ptr(v, m, k) = Ptr(d, m, k)
        /\ \A k \in Slots : Ptr(v, n, k) = PtrOf(d, i, k)
    BY ONLY <1>0, PutInodePtrs
  <1> HIDE DEF v
  <1>3. ASSUME NEW k \in Slots, Ptr(d, n, k) # 0
        PROVE  PtrOf(d, i, k) = Ptr(d, n, k)
    <2> HIDE DEF d
    <2> DEFINE j == d.inode[n]
    <2>0. PtrOf(d, j, k) # 0 /\ j \in Inodes /\ Extends(j, i) /\ Ptr(d, n, k) = PtrOf(d, j, k)
      BY <1>0, <1>3 DEF Ptr
    <2> HIDE DEF j
    <2>1. k < NDirect \/ k \in NDirect .. MaxLen - 1 \/ k = MaxLen
      BY Numbers DEF Slots
    <2>2. CASE k < NDirect
      <3>1. k \in 0 .. NDirect - 1
        BY <2>2, Numbers DEF Slots
      <3>2. PtrOf(d, i, k) = i.block[k] /\ PtrOf(d, j, k) = j.block[k]
        BY <1>0, <2>0, <2>2, PtrFacts
      <3> QED
        BY <2>0, <3>1, <3>2 DEF Extends
    <2>3. CASE k \in NDirect .. MaxLen - 1
      <3>1. j.ind # 0 /\ PtrOf(d, j, k) = d.blk[j.ind].ptrs[k - NDirect]
        BY <1>0, <2>0, <2>3, PtrFacts
      <3>2. i.ind = j.ind
        BY <2>0, <3>1 DEF Extends
      <3>3. PtrOf(d, i, k) = d.blk[i.ind].ptrs[k - NDirect]
        BY <1>0, <2>3, <3>1, <3>2, PtrFacts
      <3> QED
        BY <2>0, <3>1, <3>2, <3>3
    <2>4. CASE k = MaxLen
      BY <2>0, <2>4 DEF PtrOf, Extends
    <2> QED
      BY <2>1, <2>2, <2>3, <2>4
  <1>4. \A m \in R, k \in Slots : Ptr(v, m, k) = IF m = n THEN PtrOf(d, i, k) ELSE Ptr(d, m, k)
    BY <1>0, <1>2
  <1> QED
    <2>1. Backed(d, v, i, R, n)
      BY <1>0, <1>1 DEF Backed
    <2>2. Overlaid(d, v, i, R, n)
      BY <1>3, <1>4 DEF Overlaid
    <2> QED
      BY <2>1, <2>2 DEF v
\* Blocks are marked used.
LEMMA DraftBits ==
    ASSUME NEW s \in Sessions, NEW i, NEW R, NEW n \in R, NEW g, NEW x, Drafted(s, i, R, n, g, x),
           NEW t \in Sessions, Mid(t, R, None, g, x), t.d.inode = s.d.inode, t.d.blk = s.d.blk,
           t.d.ibm = s.d.ibm, s.d.bbm \subseteq t.d.bbm
    PROVE  Drafted(t, i, R, n, g, x)
  <1> DEFINE v == PutInode(s.d, n, i)
             w == PutInode(t.d, n, i)
  <1>0. /\ s.d \in Disks /\ v \in Disks /\ i \in Inodes /\ n \in InodeNos
        /\ Good(v, R, None) /\ v.bbm = s.d.bbm /\ v.ibm = s.d.ibm /\ v.blk = s.d.blk
        /\ R \in SUBSET InodeNos
    <2>1. Backed(s.d, v, i, R, n)
      BY DraftFacts
    <2> QED
      BY <2>1 DEF Backed
  <1>a. \A m \in InodeNos : v.inode[m] = IF m = n THEN i ELSE s.d.inode[m]
    BY ONLY <1>0, PutInodeFacts
  <1>1. t.d \in Disks
    BY SessionFacts
  <1>2. /\ w \in Disks /\ w.bbm = t.d.bbm /\ w.ibm = t.d.ibm /\ w.blk = t.d.blk
        /\ \A m \in InodeNos : w.inode[m] = IF m = n THEN i ELSE t.d.inode[m]
    BY ONLY <1>0, <1>1, PutInodeFacts
  <1> HIDE DEF v, w
  <1>3. Untouched(v, w, R)
    <2>1. R \subseteq v.ibm
      BY <1>0 DEF Good, Used
    <2>2. \A m \in R : w.inode[m] = v.inode[m]
      BY <1>0, <1>a, <1>2
    <2>3. \A m \in R, k \in Slots : Ptr(v, m, k) # 0 => Ptr(v, m, k) \in v.bbm
      BY <1>0, Owned
    <2> QED
      BY <1>0, <1>2, <2>1, <2>2, <2>3 DEF Untouched
  <1>4. Good(w, R, None)
    BY <1>0, <1>2, <1>3, Frame
  <1> QED
    BY <1>4 DEF Drafted, w

\* The inode in memory gets another size or block count.
LEMMA DraftResize ==
    ASSUME NEW s \in Sessions, NEW i, NEW R, NEW n \in R, NEW g, NEW x, Drafted(s, i, R, n, g, x),
           NEW j \in Inodes, j.mode = i.mode, j.links = i.links, j.block = i.block, j.ind = i.ind
    PROVE  Drafted(s, j, R, n, g, x)
  <1> DEFINE v == PutInode(s.d, n, i)
  <1>1. /\ v \in Disks /\ Good(v, R, None) /\ v.inode[n] = i /\ j.mode = "file"
        /\ s.d \in Disks /\ n \in InodeNos
    <2>1. /\ v \in Disks /\ Good(v, R, None) /\ v.inode[n] = i /\ i.mode = "file"
          /\ s.d \in Disks /\ n \in InodeNos
      <3>1. Backed(s.d, v, i, R, n)
        BY DraftFacts
      <3> QED
        BY <3>1 DEF Backed
    <2> QED
      BY <2>1
  <1>2. PutInode(v, n, j) = PutInode(s.d, n, j)
    BY <1>1, Zenon DEF PutInode, Disks
  <1> HIDE DEF v
  <1>3. Good(PutInode(v, n, j), R, None)
    BY <1>1, Resize, Zenon
  <1> QED
    BY <1>1, <1>2, <1>3 DEF Drafted, Extends

\* A data block of a file, or one of nobody, is overwritten.
DataOf(d, R, n, b) == \A m \in R, k \in Slots : Ptr(d, m, k) = b => m = n /\ k # MaxLen

LEMMA Wipe ==
    ASSUME NEW d \in Disks, NEW R, NEW c, Good(d, R, c), NEW n \in R, d.inode[n].mode = "file",
           NEW b \in BlockNos, DataOf(d, R, n, b), NEW y \in Blocks
    PROVE  Good(PutBlk(d, b, y), R, c)
  <1> DEFINE e == PutBlk(d, b, y)
  <1>0. R \in SUBSET InodeNos /\ n \in InodeNos
    BY DEF Good
  <1>1. /\ e \in Disks /\ e.bbm = d.bbm /\ e.ibm = d.ibm /\ e.inode = d.inode
        /\ \A a \in BlockNos : e.blk[a] = IF a = b THEN y ELSE d.blk[a]
    BY ONLY d \in Disks, b \in BlockNos, y \in Blocks, PutBlkFacts
  <1>2. \A m \in R, k \in Slots : Ptr(e, m, k) = Ptr(d, m, k)
    <2> SUFFICES ASSUME NEW m \in R
                 PROVE  \A k \in Slots : Ptr(e, m, k) = Ptr(d, m, k)
      OBVIOUS
    <2>1. Ptr(d, m, MaxLen) = d.inode[m].ind /\ MaxLen \in Slots
      BY SlotFacts DEF Ptr, PtrOf
    <2>2. d.inode[m].ind # b /\ m \in InodeNos
      BY <1>0, <2>1 DEF DataOf
    <2> QED
      BY <2>2, PutBlkPtrs
  <1> HIDE DEF e
  <1>3. Own(e, R)
    BY <1>1, <1>2 DEF Own, Good
  <1>4. OnFile(d, e, R, n)
    <2>1. ASSUME NEW m \in R, m # n, NEW k \in Slots, Ptr(d, m, k) # 0
          PROVE  e.blk[Ptr(d, m, k)].ents = d.blk[Ptr(d, m, k)].ents
      <3>1. Ptr(d, m, k) \in BlockNos /\ Ptr(d, m, k) # b
        BY <2>1, Owned DEF DataOf
      <3> QED
        BY <1>1, <3>1
    <2> QED
      BY <1>1, <1>2, <2>1 DEF OnFile
  <1>5. Good(e, R, c)
    BY <1>1, <1>3, <1>4, FileStep
  <1> QED
    BY <1>5 DEF e

LEMMA Commute ==
    ASSUME NEW d \in Disks, NEW n \in InodeNos, NEW i \in Inodes, NEW b \in BlockNos, NEW y \in Blocks
    PROVE  PutInode(PutBlk(d, b, y), n, i) = PutBlk(PutInode(d, n, i), b, y)
  BY Zenon DEF PutInode, PutBlk, Disks

LEMMA DraftWipe ==
    ASSUME NEW s \in Sessions, NEW i, NEW R, NEW n \in R, NEW g, NEW x, Drafted(s, i, R, n, g, x),
           NEW b \in BlockNos, DataOf(PutInode(s.d, n, i), R, n, b), NEW y \in Blocks
    PROVE  LET t == WriteBlock(s, b, y)
           IN  /\ Drafted(t, i, R, n, g, x) /\ t \in Sessions /\ Alike(s, t)
               /\ t.d = PutBlk(s.d, b, y)
  <1> DEFINE d == s.d
             v == PutInode(d, n, i)
             e == PutBlk(d, b, y)
             t == WriteBlock(s, b, y)
  <1>0. /\ d \in Disks /\ v \in Disks /\ i \in Inodes /\ n \in InodeNos /\ Good(d, R, None)
        /\ Good(v, R, None) /\ v.inode[n] = i /\ i.mode = "file" /\ d.inode[n].mode = "file"
    <2>1. Backed(d, v, i, R, n)
      BY DraftFacts
    <2> QED
      BY <2>1 DEF Backed
  <1>1. /\ \A m \in R, k \in Slots : Ptr(v, m, k) = IF m = n THEN PtrOf(d, i, k) ELSE Ptr(d, m, k)
        /\ \A k \in Slots : Ptr(d, n, k) # 0 => PtrOf(d, i, k) = Ptr(d, n, k)
    <2>1. Overlaid(d, v, i, R, n)
      BY DraftFacts
    <2> QED
      BY <2>1 DEF Overlaid
  <1>2. PutInode(e, n, i) = PutBlk(v, b, y)
    BY <1>0, Commute
  <1>3. Good(PutBlk(v, b, y), R, None)
    <2>1. DataOf(v, R, n, b) /\ v.inode[n].mode = "file"
      BY <1>0
    <2> HIDE DEF v
    <2> QED
      BY <1>0, <2>1, Wipe
  <1>4. DataOf(d, R, n, b)
    <2> SUFFICES ASSUME NEW m \in R, NEW k \in Slots, Ptr(d, m, k) = b
                 PROVE  m = n /\ k # MaxLen
      BY DEF DataOf
    <2>1. Ptr(v, m, k) = b
      BY <1>1, SlotFacts
    <2> QED
      BY <2>1 DEF DataOf
  <1>5. Good(e, R, None)
    <2> HIDE DEF d
    <2> QED
      BY <1>0, <1>4, Wipe
  <1>6. Mid(t, R, None, g, x) /\ t \in Sessions /\ t.d = e /\ Alike(s, t)
    <2>1. Mid(s, R, None, g, x) /\ (g => Settled(None))
      BY NoneTyped DEF Drafted
    <2> QED
      BY <1>5, <2>1, WriteBlockMid
  <1>7. e.inode = d.inode
    BY ONLY <1>0, b \in BlockNos, y \in Blocks, PutBlkFacts
  <1> HIDE DEF t
  <1>8. Drafted(t, i, R, n, g, x)
    BY <1>0, <1>2, <1>3, <1>6, <1>7 DEF Drafted
  <1> QED
    BY <1>6, <1>8 DEF t

\* The inode j in memory is i with b at slot h.
Gains(d, i, j, h, b) ==
    /\ j \in Inodes /\ j.mode = i.mode /\ j.links = i.links /\ Extends(i, j)
    /\ \A k \in Slots : PtrOf(d, j, k) = PtrOf(d, i, k) \/ (k = h /\ PtrOf(d, j, k) = b)

LEMMA GainDirect ==
    ASSUME NEW d \in Disks, NEW i \in Inodes, NEW l \in 0 .. NDirect - 1, i.block[l] = 0,
           NEW b \in BlockNos
    PROVE  Gains(d, i, [i EXCEPT !.block[l] = b, !.blocks = @ + 1], l, b)
  <1> DEFINE f == [i.block EXCEPT ![l] = b]
             j == [i EXCEPT !.block[l] = b, !.blocks = @ + 1]
  <1>0. i.block \in [0 .. NDirect - 1 -> Refs] /\ i.blocks \in Nat /\ b \in Refs
    BY SlotFacts DEF Inodes
  <1>1. /\ f \in [0 .. NDirect - 1 -> Refs]
        /\ \A k \in 0 .. NDirect - 1 : f[k] = IF k = l THEN b ELSE i.block[k]
    BY <1>0, Zenon
  <1>2. j = [i EXCEPT !.block = f, !.blocks = i.blocks + 1]
    BY DEF Inodes
  <1> HIDE DEF f, j
  <1>3. /\ j \in Inodes /\ j.mode = i.mode /\ j.links = i.links /\ j.block = f /\ j.ind = i.ind
    <2>1. i.blocks + 1 \in Nat
      BY <1>0
    <2> DEFINE c == i.blocks + 1
    <2> HIDE DEF c
    <2>2. j = [i EXCEPT !.block = f, !.blocks = c] /\ c \in Nat
      BY <1>2, <2>1 DEF c
    <2> QED
      BY <1>1, <2>2, Zenon DEF Inodes
  <1>4. Extends(i, j)
    BY <1>1, <1>3 DEF Extends
  <1>5. ASSUME NEW k \in Slots
        PROVE  PtrOf(d, j, k) = PtrOf(d, i, k) \/ (k = l /\ PtrOf(d, j, k) = b)
    <2>1. k < NDirect \/ k \in NDirect .. MaxLen - 1 \/ k = MaxLen
      BY Numbers DEF Slots
    <2>2. CASE k < NDirect
      <3>1. k \in 0 .. NDirect - 1
        BY <2>2, Numbers DEF Slots
      <3>2. PtrOf(d, i, k) = i.block[k] /\ PtrOf(d, j, k) = j.block[k]
        BY <1>3, <2>2, PtrFacts
      <3> QED
        BY <1>1, <1>3, <3>1, <3>2
    <2>3. CASE k \in NDirect .. MaxLen - 1 \/ k = MaxLen
      BY <1>3, <2>3, PtrFacts
    <2> QED
      BY <2>1, <2>2, <2>3
  <1>6. Gains(d, i, j, l, b)
    BY <1>3, <1>4, <1>5 DEF Gains
  <1> QED
    BY <1>6 DEF j

LEMMA GainTable ==
    ASSUME NEW d \in Disks, NEW i \in Inodes, i.ind = 0, NEW b \in BlockNos,
           \A k \in 0 .. PtrsPerBlock - 1 : d.blk[b].ptrs[k] = 0
    PROVE  Gains(d, i, [i EXCEPT !.ind = b], MaxLen, b)
  <1> DEFINE j == [i EXCEPT !.ind = b]
  <1>0. b \in Refs /\ b # 0
    BY SlotFacts
  <1>3. /\ j \in Inodes /\ j.mode = i.mode /\ j.links = i.links /\ j.block = i.block /\ j.ind = b
    BY <1>0 DEF Inodes
  <1> HIDE DEF j
  <1>4. Extends(i, j)
    BY <1>3 DEF Extends
  <1>5. ASSUME NEW k \in Slots
        PROVE  PtrOf(d, j, k) = PtrOf(d, i, k) \/ (k = MaxLen /\ PtrOf(d, j, k) = b)
    <2>1. k < NDirect \/ k \in NDirect .. MaxLen - 1 \/ k = MaxLen
      BY Numbers DEF Slots
    <2>2. CASE k < NDirect
      BY <1>3, <2>2, PtrFacts
    <2>3. CASE k \in NDirect .. MaxLen - 1
      <3>1. k - NDirect \in 0 .. PtrsPerBlock - 1
        BY <2>3, Numbers
      <3>2. PtrOf(d, i, k) = 0
        BY <2>3, PtrFacts
      <3>3. PtrOf(d, j, k) = d.blk[b].ptrs[k - NDirect]
        BY <1>0, <1>3, <2>3, PtrFacts
      <3> QED
        BY <3>1, <3>2, <3>3
    <2>4. CASE k = MaxLen
      BY <1>3, <2>4, PtrFacts
    <2> QED
      BY <2>1, <2>2, <2>3, <2>4
  <1>6. Gains(d, i, j, MaxLen, b)
    BY <1>3, <1>4, <1>5 DEF Gains
  <1> QED
    BY <1>6 DEF j

\* A block nobody points at once the inode i is written.
Loose(d, i, R, n, b) == b \in BlockNos /\ b \in d.bbm /\ Unowned(PutInode(d, n, i), R, b)

LEMMA DraftPoint ==
    ASSUME NEW s \in Sessions, NEW i, NEW R, NEW n \in R, NEW g, NEW x, Drafted(s, i, R, n, g, x),
           NEW j, NEW h, NEW b, Gains(s.d, i, j, h, b), Loose(s.d, i, R, n, b)
    PROVE  Drafted(s, j, R, n, g, x)
  <1> DEFINE d == s.d
             v == PutInode(d, n, i)
             w == PutInode(d, n, j)
  <1>0. Backed(d, v, i, R, n) /\ Overlaid(d, v, i, R, n)
    BY DraftFacts
  <1>1. /\ d \in Disks /\ n \in InodeNos /\ R \in SUBSET InodeNos
        /\ i \in Inodes /\ i.mode = "file" /\ d.inode[n].mode = "file"
        /\ v \in Disks /\ v.inode[n] = i /\ v.bbm = d.bbm /\ v.ibm = d.ibm /\ v.blk = d.blk
        /\ Good(v, R, None) /\ Extends(d.inode[n], i)
    BY <1>0 DEF Backed
  <1>2. /\ j \in Inodes /\ j.mode = i.mode /\ j.links = i.links /\ Extends(i, j)
        /\ \A k \in Slots : PtrOf(d, j, k) = PtrOf(d, i, k) \/ (k = h /\ PtrOf(d, j, k) = b)
    BY DEF Gains
  <1>3. b \in BlockNos /\ b \in d.bbm /\ Unowned(v, R, b)
    BY DEF Loose
  <1>4. /\ w \in Disks /\ w.bbm = d.bbm /\ w.ibm = d.ibm /\ w.blk = d.blk
        /\ \A m \in InodeNos : w.inode[m] = IF m = n THEN j ELSE d.inode[m]
    BY ONLY <1>1, <1>2, PutInodeFacts
  <1>5. /\ \A m \in InodeNos \ {n}, k \in Slots : Ptr(w, m, k) = Ptr(d, m, k)
        /\ \A k \in Slots : Ptr(w, n, k) = PtrOf(d, j, k)
    BY ONLY <1>1, <1>2, PutInodePtrs
  <1>6. \A m \in InodeNos : v.inode[m] = IF m = n THEN i ELSE d.inode[m]
    BY ONLY <1>1, PutInodeFacts
  <1> HIDE DEF v, w, d
  <1>7. \A m \in R, k \in Slots : /\ m # n => Ptr(w, m, k) = Ptr(v, m, k)
                                  /\ m = n => Ptr(v, m, k) = PtrOf(d, i, k)
    BY <1>0, <1>1, <1>5 DEF Overlaid
  <1>8. Repointed(v, w, R, n, h, b, h, 0)
    BY <1>1, <1>2, <1>5, <1>7 DEF Repointed
  <1>9. Fresh(v, w, R, b) /\ Fresh(v, w, R, 0)
    BY <1>3, <1>4 DEF Fresh
  <1>10. Own(w, R)
    <2>1. \A m \in R, k \in Slots : Ptr(v, m, k) # 0 => Ptr(v, m, k) \in w.bbm
      BY <1>1, <1>4, Owned
    <2> QED
      BY <1>1, <1>4, <1>8, <1>9, <2>1, OwnStep
  <1>11. OnFile(v, w, R, n)
    BY <1>1, <1>2, <1>4, <1>6, <1>7 DEF OnFile
  <1>12. Good(w, R, None)
    BY <1>1, <1>4, <1>10, <1>11, FileStep
  <1>13. Extends(d.inode[n], j)
    BY <1>1, <1>2 DEF Extends
  <1> QED
    <2>1. Mid(s, R, None, g, x)
      BY DEF Drafted
    <2> QED
      BY <1>1, <1>2, <1>12, <1>13, <2>1 DEF Drafted, w, d

\* A block is allocated.
LEMMA DraftAlloc ==
    ASSUME NEW s \in Sessions, NEW i, NEW R, NEW n \in R, NEW g, NEW x, Drafted(s, i, R, n, g, x),
           NEW t, t = AllocBlock(s)
    PROVE  /\ Drafted(t, i, R, n, g, x) /\ t \in Sessions /\ t.marks = s.marks
           /\ t.d.blk = s.d.blk
           /\ t.ok => Loose(t.d, i, R, n, t.out)
           /\ ~t.ok => t.out = 0
  <1>0. /\ Mid(t, R, None, g, x) /\ t \in Sessions /\ t.marks = s.marks
        /\ t.d.ibm = s.d.ibm /\ t.d.inode = s.d.inode /\ t.d.blk = s.d.blk
        /\ t.ok => /\ t.out \in BlockNos /\ t.out \notin s.d.bbm
                   /\ t.d.bbm = s.d.bbm \cup {t.out}
        /\ ~t.ok => t.d = s.d /\ t.out = 0
    <2>1. Mid(s, R, None, g, x)
      BY DEF Drafted
    <2> QED
      BY ONLY <2>1, s \in Sessions, t = AllocBlock(s), AllocBlockMid
  <1>1. s.d.bbm \subseteq t.d.bbm
    BY <1>0
  <1>2. Drafted(t, i, R, n, g, x)
    BY <1>0, <1>1, DraftBits
  <1>3. ASSUME t.ok
        PROVE  Loose(t.d, i, R, n, t.out)
    <2> DEFINE v == PutInode(s.d, n, i)
               w == PutInode(t.d, n, i)
    <2>1. Backed(s.d, v, i, R, n) /\ Overlaid(s.d, v, i, R, n)
      BY DraftFacts
    <2>2. Overlaid(t.d, w, i, R, n)
      BY <1>0, <1>2, DraftFacts
    <2>3. v \in Disks /\ Good(v, R, None) /\ t.out \notin v.bbm /\ t.out # 0
      BY <1>0, <1>3, <2>1, SlotFacts DEF Backed
    <2> HIDE DEF v, w
    <2>4. Unowned(v, R, t.out)
      BY <2>3, FreeUnowned
    <2>5. \A m \in R, k \in Slots : Ptr(w, m, k) = Ptr(v, m, k)
      <3>1. \A k \in Slots : PtrOf(t.d, i, k) = PtrOf(s.d, i, k)
        BY <1>0 DEF PtrOf, BlockLookup
      <3>2. \A m \in R, k \in Slots : Ptr(t.d, m, k) = Ptr(s.d, m, k)
        BY <1>0 DEF Ptr, PtrOf, BlockLookup
      <3> QED
        BY <2>1, <2>2, <3>1, <3>2 DEF Overlaid
    <2>6. Unowned(w, R, t.out)
      BY <2>4, <2>5 DEF Unowned
    <2> QED
      BY <1>0, <1>3, <2>6 DEF Loose, w
  <1> QED
    BY <1>0, <1>2, <1>3

\* The block is entered in the table that the inode in memory has.
LEMMA DraftPointed ==
    ASSUME NEW s \in Sessions, NEW i, NEW R, NEW n \in R, NEW g, NEW x, Drafted(s, i, R, n, g, x),
           NEW j \in 0 .. PtrsPerBlock - 1, NEW b, Loose(s.d, i, R, n, b), i.ind # 0,
           NEW t, t = WriteBlock(s, i.ind, WithPtr(s.d.blk[i.ind], j, b))
    PROVE  /\ Drafted(t, i, R, n, g, x) /\ t \in Sessions /\ Alike(s, t)
           /\ PtrOf(t.d, i, j + NDirect) = b
  <1> DEFINE d == s.d
             v == PutInode(d, n, i)
             a == i.ind
             y == WithPtr(d.blk[a], j, b)
             e == PutBlk(d, a, y)
  <1>0. Backed(d, v, i, R, n) /\ Overlaid(d, v, i, R, n)
    BY DraftFacts
  <1>1. /\ d \in Disks /\ n \in InodeNos /\ R \in SUBSET InodeNos /\ Good(d, R, None)
        /\ i \in Inodes /\ i.mode = "file" /\ d.inode[n].mode = "file" /\ d.inode[n] \in Inodes
        /\ v \in Disks /\ v.inode[n] = i /\ v.bbm = d.bbm /\ v.ibm = d.ibm /\ v.blk = d.blk
        /\ Good(v, R, None) /\ Extends(d.inode[n], i)
    BY <1>0 DEF Backed
  <1>2. b \in BlockNos /\ b \in d.bbm /\ Unowned(v, R, b) /\ b \in Refs
    BY SlotFacts DEF Loose
  <1>3. a \in BlockNos
    BY <1>1, PtrFacts, SlotFacts
  <1>4. /\ e = Pointed(d, a, j, b) /\ PutBlk(v, a, y) = Pointed(v, a, j, b)
    BY <1>1 DEF Pointed
  <1>5. /\ y \in Blocks /\ e \in Disks /\ e.inode = d.inode /\ e.blk[a] = y
        /\ e.blk[a].ptrs[j] = b
    <2>1. LET f == Pointed(d, a, j, b)
              z == WithPtr(d.blk[a], j, b)
           IN  /\ f \in Disks /\ f.inode = d.inode
               /\ z \in Blocks /\ f.blk[a] = z
               /\ \A k \in 0 .. PtrsPerBlock - 1 :
                     f.blk[a].ptrs[k] = IF k = j THEN b ELSE d.blk[a].ptrs[k]
      <3> HIDE DEF a, d
      <3> QED
        BY <1>1, <1>2, <1>3, PointedFacts
    <2> QED
      BY <1>4, <2>1
  <1>6. PutInode(e, n, i) = PutBlk(v, a, y)
    <2> HIDE DEF a, y, d
    <2> QED
      BY <1>1, <1>3, <1>5, Commute
  <1>7. Good(PutBlk(v, a, y), R, None)
    <2> HIDE DEF y
    <2>1. Linkable(v, R, None, n, j + NDirect, b) /\ v.inode[n].ind # 0 /\ v.inode[n].ind = a
      BY <1>1, <1>2 DEF Linkable
    <2> HIDE DEF v, a
    <2>2. Good(Pointed(v, v.inode[n].ind, j, b), R, None)
      BY <1>1, <2>1, PointedGood
    <2> QED
      BY <1>4, <2>1, <2>2
  <1>8. Unowned(d, R, b)
    BY <1>0, <1>2, SlotFacts DEF Overlaid, Unowned
  <1>9. Good(e, R, None)
    <2>1. CASE d.inode[n].ind # 0
      <3>1. d.inode[n].ind = a
        BY <1>1, <2>1 DEF Extends
      <3>2. Linkable(d, R, None, n, j + NDirect, b)
        BY <1>1, <1>2, <1>8 DEF Linkable
      <3> HIDE DEF d, a, e
      <3>3. Good(Pointed(d, d.inode[n].ind, j, b), R, None)
        BY <1>1, <2>1, <3>2, PointedGood
      <3> QED
        BY <1>4, <3>1, <3>3
    <2>2. CASE d.inode[n].ind = 0
      <3>1. MaxLen \in Slots /\ Ptr(v, n, MaxLen) = a /\ Ptr(d, n, MaxLen) = 0 /\ a # 0
        BY <1>1, <2>2, SlotFacts DEF Ptr, PtrOf
      <3> HIDE DEF v, d, a, y
      <3>2. \A m \in R, k \in Slots : Ptr(v, m, k) = a => m = n /\ k = MaxLen
        BY <1>1, <3>1, Owned
      <3>3. Unowned(d, R, a)
        BY <1>0, <3>1, <3>2 DEF Overlaid, Unowned
      <3> QED
        BY <1>1, <1>3, <1>5, <3>3, OtherBlock
    <2> QED
      BY <2>1, <2>2
  <1>10. Mid(t, R, None, g, x) /\ t \in Sessions /\ t.d = e /\ Alike(s, t)
    <2>1. Mid(s, R, None, g, x) /\ (g => Settled(None)) /\ t = WriteBlock(s, a, y)
      BY NoneTyped DEF Drafted
    <2> HIDE DEF a, y
    <2> QED
      BY ONLY <1>3, <1>5, <1>9, <2>1, s \in Sessions, WriteBlockMid DEF e, d
  <1>11. Drafted(t, i, R, n, g, x)
    <2> HIDE DEF e, v
    <2> QED
      BY <1>1, <1>5, <1>6, <1>7, <1>10 DEF Drafted
  <1>12. PtrOf(t.d, i, j + NDirect) = b
    <2>1. j + NDirect \in Slots /\ j + NDirect \in NDirect .. MaxLen - 1 /\ (j + NDirect) - NDirect = j
      BY Numbers DEF Slots
    <2>2. PtrOf(e, i, j + NDirect) = e.blk[a].ptrs[(j + NDirect) - NDirect]
      <3> HIDE DEF e
      <3> QED
        BY <1>1, <1>5, <2>1, PtrFacts
    <2> QED
      BY <1>5, <1>10, <2>1, <2>2
  <1> QED
    BY <1>10, <1>11, <1>12

Drafts == [s : Sessions, i : Inodes, done : Int, stop : BOOLEAN]

\* A draft in the course of ext2_write_data.
Writing(w, R, n, g, x) == w \in Drafts /\ Drafted(w.s, w.i, R, n, g, x)

\* The block of a chunk has been looked for: it is 0 or the one at slot l.
Located(w, l, R, n, g, x) ==
    /\ Writing(w, R, n, g, x)
    /\ w.s.out # 0 => l \in Logicals /\ w.s.out = PtrOf(w.s.d, w.i, l)

LEMMA DraftFields ==
    ASSUME NEW w \in Drafts, NEW t \in Sessions
    PROVE  /\ [w EXCEPT !.s = t] \in Drafts /\ [w EXCEPT !.s = t].s = t /\ [w EXCEPT !.s = t].i = w.i
           /\ w.s \in Sessions /\ w.i \in Inodes /\ w.done \in Int /\ w.stop \in BOOLEAN
  BY DEF Drafts

LEMMA DraftReturn ==
    ASSUME NEW s \in Sessions, NEW i, NEW R, NEW n \in R, NEW g, NEW x, Drafted(s, i, R, n, g, x),
           NEW v \in Int
    PROVE  /\ Drafted(Return(s, v), i, R, n, g, x) /\ Return(s, v) \in Sessions
           /\ Return(s, v).d = s.d /\ Return(s, v).ok = TRUE /\ Return(s, v).out = v
           /\ Drafted(Fail(s), i, R, n, g, x) /\ Fail(s) \in Sessions
           /\ Fail(s).d = s.d /\ Fail(s).ok = FALSE /\ Fail(s).out = 0
  <1>1. Mid(s, R, None, g, x)
    BY DEF Drafted
  <1>2. /\ Mid(Return(s, v), R, None, g, x) /\ Return(s, v) \in Sessions
        /\ Return(s, v).d = s.d /\ Return(s, v).ok = TRUE /\ Return(s, v).out = v
        /\ Mid(Fail(s), R, None, g, x) /\ Fail(s) \in Sessions
        /\ Fail(s).d = s.d /\ Fail(s).ok = FALSE /\ Fail(s).out = 0
    BY ONLY <1>1, s \in Sessions, v \in Int, ReturnMid, Zenon
  <1>3. Drafted(Return(s, v), i, R, n, g, x)
    BY <1>2 DEF Drafted
  <1>4. Drafted(Fail(s), i, R, n, g, x)
    BY <1>2 DEF Drafted
  <1> QED
    BY <1>2, <1>3, <1>4

\* A direct pointer is filled.
LEMMA HoldDirectOK ==
    ASSUME NEW R, NEW n \in R, NEW g, NEW x, NEW w, Writing(w, R, n, g, x),
           NEW l \in 0 .. NDirect - 1, w.i.block[l] = 0
    PROVE  Located(HoldDirect(w, AllocBlock(w.s), l), l, R, n, g, x)
  <1> DEFINE s == w.s
             i == w.i
             a == AllocBlock(s)
             j == [i EXCEPT !.block[l] = a.out, !.blocks = @ + 1]
             u == HoldDirect(w, a, l)
  <1>0. w \in Drafts /\ s \in Sessions /\ i \in Inodes /\ Drafted(s, i, R, n, g, x)
    BY DEF Writing, Drafts
  <1>1. /\ Drafted(a, i, R, n, g, x) /\ a \in Sessions
        /\ a.ok => Loose(a.d, i, R, n, a.out)
        /\ ~a.ok => a.out = 0
    <2> HIDE DEF s, i
    <2> QED
      BY <1>0, DraftAlloc
  <1> HIDE DEF a
  <1>2. CASE ~a.ok
    <2>1. u = [w EXCEPT !.s = a]
      BY <1>2 DEF HoldDirect
    <2>2. u \in Drafts /\ u.s = a /\ u.i = i
      BY <1>0, <1>1, <2>1, DraftFields
    <2> HIDE DEF u
    <2>3. Located(u, l, R, n, g, x)
      BY <1>1, <1>2, <2>2 DEF Located, Writing
    <2> QED
      BY <2>3 DEF u, a
  <1>3. CASE a.ok
    <2>0. a.out \in BlockNos /\ a.d \in Disks /\ i.block[l] = 0
      BY <1>1, <1>3, SessionFacts DEF Loose
    <2>1. Gains(a.d, i, j, l, a.out)
      <3> HIDE DEF i
      <3> QED
        BY <1>0, <2>0, GainDirect, Zenon
    <2>2. u = [w EXCEPT !.s = a, !.i = j]
      BY <1>3, Zenon DEF HoldDirect, Writing, Drafts
    <2>a. j.block[l] = a.out
      BY <1>0, Zenon DEF Inodes
    <2> HIDE DEF j, u, i, s
    <2>3. j \in Inodes
      BY <2>1 DEF Gains
    <2>4. u \in Drafts /\ u.s = a /\ u.i = j
      BY ONLY <1>0, <1>1, <2>2, <2>3, Zenon DEF Drafts
    <2>5. Drafted(a, j, R, n, g, x)
      BY <1>1, <1>3, <2>1, DraftPoint
    <2>6. l \in Logicals /\ l \in Slots /\ l < NDirect
      BY Numbers DEF Logicals, Slots
    <2>7. PtrOf(a.d, j, l) = j.block[l]
      BY <2>0, <2>3, <2>6, PtrFacts
    <2>8. Located(u, l, R, n, g, x)
      BY <2>4, <2>5, <2>6, <2>7, <2>a DEF Located, Writing
    <2> QED
      BY <2>8 DEF u, s, a
  <1> QED
    BY <1>2, <1>3

\* The inode in memory has a table, or there is no space for one.
Tabling(w, R, n, g, x) ==
    /\ Writing(w, R, n, g, x)
    /\ w.s.ok => w.i.ind # 0
    /\ ~w.s.ok => w.s.out = 0

LEMMA ZeroNewOK ==
    ASSUME NEW R, NEW n \in R, NEW g, NEW x, NEW i, NEW a \in Sessions, Drafted(a, i, R, n, g, x),
           a.ok, Loose(a.d, i, R, n, a.out), i.ind = 0
    PROVE  LET t == WriteBlock(a, a.out, ZeroBlock)
           IN  /\ t \in Sessions /\ t.ok /\ t.out = a.out /\ a.out # 0
               /\ [i EXCEPT !.ind = a.out] \in Inodes
               /\ Drafted(t, [i EXCEPT !.ind = a.out], R, n, g, x)
  <1> DEFINE d == a.d
             b == a.out
             v == PutInode(d, n, i)
             t == WriteBlock(a, b, ZeroBlock)
             w == PutInode(t.d, n, i)
             j == [i EXCEPT !.ind = b]
  <1>0. b \in BlockNos /\ b \in d.bbm /\ Unowned(v, R, b) /\ b # 0
    BY SlotFacts DEF Loose
  <1>1. Backed(d, v, i, R, n)
    BY DraftFacts
  <1>2. /\ d \in Disks /\ v \in Disks /\ i \in Inodes /\ n \in InodeNos /\ R \in SUBSET InodeNos
        /\ v.bbm = d.bbm
    BY <1>1 DEF Backed
  <1>3. DataOf(v, R, n, b)
    BY <1>0 DEF DataOf, Unowned
  <1>4. ZeroBlock \in Blocks /\ \A k \in 0 .. PtrsPerBlock - 1 : ZeroBlock.ptrs[k] = 0
    BY ZeroFacts
  <1>5. /\ Drafted(t, i, R, n, g, x) /\ t \in Sessions /\ Alike(a, t)
        /\ t.d = PutBlk(d, b, ZeroBlock)
    <2> HIDE DEF b
    <2> QED
      BY <1>0, <1>3, <1>4, DraftWipe
  <1>6. /\ t.d \in Disks /\ t.d.bbm = d.bbm /\ t.d.blk[b] = ZeroBlock
    <2>1. LET e == PutBlk(d, b, ZeroBlock)
          IN  /\ e \in Disks /\ e.bbm = d.bbm
              /\ \A q \in BlockNos : e.blk[q] = IF q = b THEN ZeroBlock ELSE d.blk[q]
      BY ONLY <1>0, <1>2, <1>4, PutBlkFacts
    <2> QED
      BY <1>0, <1>5, <2>1
  <1>7. w = PutBlk(v, b, ZeroBlock)
    <2> HIDE DEF d, b
    <2> QED
      BY <1>0, <1>2, <1>4, <1>5, Commute
  <1> HIDE DEF t, v
  <1>8. Unowned(w, R, b)
    <2> SUFFICES ASSUME NEW m \in R, NEW k \in Slots
                 PROVE  Ptr(w, m, k) # b
      BY DEF Unowned
    <2>1. m \in InodeNos /\ Ptr(v, m, MaxLen) = v.inode[m].ind /\ MaxLen \in Slots
      BY <1>2, SlotFacts DEF Ptr, PtrOf
    <2>2. v.inode[m].ind # b
      BY <1>0, <2>1 DEF Unowned
    <2> HIDE DEF b, w
    <2>3. Ptr(w, m, k) = Ptr(v, m, k)
      BY <1>0, <1>2, <1>4, <1>7, <2>1, <2>2, PutBlkPtrs
    <2> QED
      BY <1>0, <2>3 DEF Unowned
  <1>9. Loose(t.d, i, R, n, b)
    BY <1>0, <1>6, <1>8 DEF Loose
  <1>10. Gains(t.d, i, j, MaxLen, b)
    <2> HIDE DEF b
    <2> QED
      BY <1>0, <1>2, <1>4, <1>6, GainTable
  <1>11. j \in Inodes
    BY <1>10 DEF Gains
  <1>12. Drafted(t, j, R, n, g, x)
    <2> HIDE DEF b, j
    <2> QED
      BY <1>5, <1>9, <1>10, DraftPoint
  <1> QED
    BY <1>0, <1>5, <1>11, <1>12 DEF t, Alike

LEMMA WithTableOK ==
    ASSUME NEW R, NEW n \in R, NEW g, NEW x, NEW w, Writing(w, R, n, g, x)
    PROVE  Tabling(WithTable(w, Table(w.s, w.i.ind)), R, n, g, x)
  <1> DEFINE s == w.s
             i == w.i
             a == AllocBlock(s)
             t == Table(s, i.ind)
             u == WithTable(w, t)
  <1>0. w \in Drafts /\ s \in Sessions /\ i \in Inodes /\ Drafted(s, i, R, n, g, x) /\ i.ind \in Int
    BY Numbers DEF Writing, Drafts, Inodes, Refs
  <1>1. CASE i.ind # 0
    <2> HIDE DEF s
    <2>1. t = Return(s, i.ind)
      BY <1>1 DEF Table
    <2>2. Drafted(t, i, R, n, g, x) /\ t \in Sessions /\ t.ok = TRUE /\ t.out = i.ind
      <3> DEFINE v == i.ind
      <3> HIDE DEF v, i
      <3>1. v \in Int
        BY <1>0 DEF v
      <3>2. Drafted(Return(s, v), i, R, n, g, x) /\ Return(s, v) \in Sessions
            /\ Return(s, v).ok = TRUE /\ Return(s, v).out = v
        BY <1>0, <3>1, DraftReturn, Zenon
      <3> QED
        BY <2>1, <3>2 DEF v
    <2> HIDE DEF t
    <2>3. u = [w EXCEPT !.s = t, !.i = i]
      <3>1. u = [w EXCEPT !.s = t, !.i.ind = i.ind]
        BY <2>2 DEF WithTable
      <3> QED
        BY <1>0, <3>1, Zenon DEF Drafts, Inodes
    <2> HIDE DEF u, i
    <2>4. u \in Drafts /\ u.s = t /\ u.i = i
      BY ONLY <1>0, <2>2, <2>3, Zenon DEF Drafts
    <2>5. Tabling(u, R, n, g, x)
      BY <1>1, <2>2, <2>4 DEF Tabling, Writing
    <2> QED
      BY <2>5 DEF u, t, i, s
  <1>2. CASE i.ind = 0
    <2>1. /\ Drafted(a, i, R, n, g, x) /\ a \in Sessions
          /\ a.ok => Loose(a.d, i, R, n, a.out)
          /\ ~a.ok => a.out = 0
      <3> HIDE DEF s, i
      <3> QED
        BY <1>0, DraftAlloc
    <2>2. t = ZeroNew(a)
      BY <1>2 DEF Table
    <2> HIDE DEF a
    <2>3. CASE ~a.ok
      <3>1. t = a
        BY <2>2, <2>3 DEF ZeroNew
      <3>2. u = [w EXCEPT !.s = a]
        BY <2>3, <3>1 DEF WithTable
      <3>3. u \in Drafts /\ u.s = a /\ u.i = i
        BY <1>0, <2>1, <3>2, DraftFields
      <3> HIDE DEF u
      <3>4. Tabling(u, R, n, g, x)
        BY <2>1, <2>3, <3>3 DEF Tabling, Writing
      <3> QED
        BY <3>4 DEF u
    <2>4. CASE a.ok
      <3> DEFINE j == [i EXCEPT !.ind = a.out]
                 e == WriteBlock(a, a.out, ZeroBlock)
      <3>1. e \in Sessions /\ e.ok /\ e.out = a.out /\ a.out # 0 /\ j \in Inodes
            /\ Drafted(e, j, R, n, g, x)
        <4> HIDE DEF i
        <4> QED
          BY <1>2, <2>1, <2>4, ZeroNewOK
      <3>2. t = e
        BY <2>2, <2>4 DEF ZeroNew
      <3> HIDE DEF e, t
      <3>3. u = [w EXCEPT !.s = e, !.i = j]
        BY <1>0, <3>1, <3>2, Zenon DEF WithTable, Drafts
      <3>a. j.ind = a.out
        BY <1>0 DEF Inodes
      <3> HIDE DEF u, j
      <3>4. u \in Drafts /\ u.s = e /\ u.i = j
        BY ONLY <1>0, <3>1, <3>3, Zenon DEF Drafts
      <3>5. Tabling(u, R, n, g, x)
        BY <3>1, <3>4, <3>a DEF Tabling, Writing
      <3> QED
        BY <3>5 DEF u, t
    <2> QED
      BY <2>3, <2>4
  <1> QED
    BY <1>1, <1>2

\* An entry of the table is filled.
LEMMA ThenIndirectOK ==
    ASSUME NEW R, NEW n \in R, NEW g, NEW x, NEW w, Tabling(w, R, n, g, x),
           NEW l \in NDirect .. MaxLen - 1
    PROVE  Located(ThenIndirect(w, l), l, R, n, g, x)
  <1> DEFINE s == w.s
             i == w.i
             a == AllocBlock(s)
             u == HoldIndirect(w, a, l)
  <1>0. w \in Drafts /\ s \in Sessions /\ i \in Inodes /\ Drafted(s, i, R, n, g, x)
    BY DEF Tabling, Writing, Drafts
  <1>1. CASE ~s.ok
    BY <1>1 DEF ThenIndirect, Tabling, Located
  <1>2. CASE s.ok
    <2>0. i.ind # 0 /\ ThenIndirect(w, l) = u
      BY <1>2 DEF Tabling, ThenIndirect
    <2>1. /\ Drafted(a, i, R, n, g, x) /\ a \in Sessions
          /\ a.ok => Loose(a.d, i, R, n, a.out)
          /\ ~a.ok => a.out = 0
      <3> HIDE DEF s, i
      <3> QED
        BY <1>0, DraftAlloc
    <2> HIDE DEF a
    <2>2. CASE ~a.ok
      <3>1. u = [w EXCEPT !.s = a]
        BY <2>2 DEF HoldIndirect
      <3>2. u \in Drafts /\ u.s = a /\ u.i = i
        BY <1>0, <2>1, <3>1, DraftFields
      <3> HIDE DEF u
      <3>3. Located(u, l, R, n, g, x)
        BY <2>1, <2>2, <3>2 DEF Located, Writing
      <3> QED
        BY <2>0, <3>3
    <2>3. CASE a.ok
      <3> DEFINE k == l - NDirect
                 t == SetPointer(a, i.ind, k, a.out)
                 j == [i EXCEPT !.blocks = @ + 1]
      <3>0. k \in 0 .. PtrsPerBlock - 1 /\ k + NDirect = l /\ l \in Logicals /\ l \in Slots
        BY Numbers DEF Logicals, Slots
      <3>1. t = WriteBlock(a, i.ind, WithPtr(a.d.blk[i.ind], k, a.out))
        <4>1. k < PtrsPerBlock
          BY <3>0, Numbers
        <4> HIDE DEF k
        <4> QED
          BY <4>1 DEF SetPointer, WithPtr
      <3>2. u = [w EXCEPT !.s = t, !.i = j]
        BY <1>0, <2>3 DEF HoldIndirect, Drafts
      <3>3. j \in Inodes /\ j.mode = i.mode /\ j.links = i.links /\ j.block = i.block /\ j.ind = i.ind
        BY <1>0 DEF Inodes
      <3> HIDE DEF u, j, t, i, s, k
      <3>4. /\ Drafted(t, i, R, n, g, x) /\ t \in Sessions /\ Alike(a, t)
            /\ PtrOf(t.d, i, k + NDirect) = a.out
        BY <2>0, <2>1, <2>3, <3>0, <3>1, DraftPointed
      <3>5. Drafted(t, j, R, n, g, x)
        BY <3>3, <3>4, DraftResize
      <3>6. u \in Drafts /\ u.s = t /\ u.i = j
        BY ONLY <1>0, <3>2, <3>3, <3>4, Zenon DEF Drafts
      <3>7. PtrOf(t.d, j, l) = a.out /\ t.out = a.out
        BY <3>0, <3>3, <3>4 DEF PtrOf, BlockLookup, Alike
      <3>8. Located(u, l, R, n, g, x)
        BY <3>0, <3>5, <3>6, <3>7 DEF Located, Writing
      <3> QED
        BY <2>0, <3>8
    <2> QED
      BY <2>2, <2>3
  <1> QED
    BY <1>1, <1>2

LEMMA FileAllocBlockOK ==
    ASSUME NEW R, NEW n \in R, NEW g, NEW x, NEW w, Writing(w, R, n, g, x),
           NEW l \in Nat, BlockLookup(w.s.d, w.i, l) = 0
    PROVE  Located(FileAllocBlock(w, l), l, R, n, g, x)
  <1>1. CASE l < NDirect
    <2>1. w.i.block[l] = 0 /\ l \in 0 .. NDirect - 1
      BY <1>1, Numbers DEF BlockLookup
    <2>2. FileAllocBlock(w, l) = HoldDirect(w, AllocBlock(w.s), l)
      <3>1. ~(l \in NDirect .. MaxLen - 1)
        BY <1>1, Numbers
      <3> QED
        BY <1>1, <3>1 DEF FileAllocBlock
    <2> QED
      BY <2>1, <2>2, HoldDirectOK
  <1>2. CASE l \in NDirect .. MaxLen - 1
    <2> DEFINE u == WithTable(w, Table(w.s, w.i.ind))
    <2>1. Tabling(u, R, n, g, x)
      BY WithTableOK
    <2>2. FileAllocBlock(w, l) = ThenIndirect(u, l)
      <3>1. ~(l < NDirect)
        BY <1>2, Numbers
      <3> QED
        BY <1>2, <3>1 DEF FileAllocBlock
    <2> HIDE DEF u
    <2> QED
      BY <1>2, <2>1, <2>2, ThenIndirectOK
  <1>3. CASE ~(l < NDirect) /\ ~(l \in NDirect .. MaxLen - 1)
    <2> DEFINE s == w.s
               i == w.i
               t == Fail(s)
               u == [w EXCEPT !.s = t]
    <2>0. w \in Drafts /\ s \in Sessions /\ i \in Inodes /\ Drafted(s, i, R, n, g, x)
      BY DEF Writing, Drafts
    <2>1. FileAllocBlock(w, l) = u
      BY <1>3 DEF FileAllocBlock
    <2>2. Drafted(t, i, R, n, g, x) /\ t \in Sessions /\ t.out = 0
      <3> HIDE DEF s, i
      <3>1. 0 \in Int
        OBVIOUS
      <3> QED
        BY <2>0, <3>1, DraftReturn, Zenon
    <2> HIDE DEF t
    <2>3. u \in Drafts /\ u.s = t /\ u.i = i
      BY <2>0, <2>2, DraftFields
    <2> HIDE DEF u
    <2> QED
      BY <2>1, <2>2, <2>3 DEF Located, Writing
  <1> QED
    BY <1>1, <1>2, <1>3

LEMMA LocateChunkOK ==
    ASSUME NEW R, NEW n \in R, NEW g, NEW x, NEW w, Writing(w, R, n, g, x),
           NEW l \in Nat, NEW at
    PROVE  Located(LocateChunk(w, l, at, BlockLookup(w.s.d, w.i, l)), l, R, n, g, x)
  <1> DEFINE s == w.s
             i == w.i
             b == BlockLookup(s.d, i, l)
             t == Return(s, b)
             u == [w EXCEPT !.s = t]
  <1>0. w \in Drafts /\ s \in Sessions /\ i \in Inodes /\ Drafted(s, i, R, n, g, x) /\ s.d \in Disks
    BY SessionFacts DEF Writing, Drafts
  <1>1. CASE b = 0 /\ at >= i.size
    <2>1. LocateChunk(w, l, at, b) = FileAllocBlock(w, l)
      BY <1>1 DEF LocateChunk
    <2> QED
      BY <1>1, <2>1, FileAllocBlockOK
  <1>2. CASE ~(b = 0 /\ at >= i.size)
    <2>1. LocateChunk(w, l, at, b) = u
      BY <1>2 DEF LocateChunk
    <2>2. b \in Int /\ (b # 0 => l \in Logicals /\ b = PtrOf(s.d, i, l))
      <3>1. CASE l \in Logicals
        <4>1. b = PtrOf(s.d, i, l) /\ b \in Refs
          <5> HIDE DEF s, i
          <5> QED
            BY <1>0, <3>1, PtrFacts, SlotFacts
        <4> QED
          BY <3>1, <4>1, Numbers DEF Refs
      <3>2. CASE l \notin Logicals
        <4>1. ~(l < NDirect) /\ ~(l \in NDirect .. MaxLen - 1)
          BY <3>2, Numbers DEF Logicals
        <4> QED
          BY <4>1 DEF BlockLookup
      <3> QED
        BY <3>1, <3>2
    <2> HIDE DEF b, s, i
    <2>3. Drafted(t, i, R, n, g, x) /\ t \in Sessions /\ t.out = b /\ t.d = s.d
      BY <1>0, <2>2, DraftReturn, Zenon
    <2> HIDE DEF t
    <2>4. u \in Drafts /\ u.s = t /\ u.i = i
      BY <1>0, <2>3, DraftFields DEF i
    <2> HIDE DEF u
    <2>5. Located(u, l, R, n, g, x)
      BY <2>2, <2>3, <2>4 DEF Located, Writing
    <2> QED
      BY <2>1, <2>5 DEF b, s, i
  <1> QED
    BY <1>1, <1>2

LEMMA StoreChunkOK ==
    ASSUME NEW R, NEW n \in R, NEW g, NEW x, NEW w, NEW l, Located(w, l, R, n, g, x),
           NEW at, NEW len \in Int, NEW end \in Nat
    PROVE  Writing(StoreChunk(w, at, len, end), R, n, g, x)
  <1> DEFINE s == w.s
             i == w.i
             b == s.out
             t == WriteBlock(s, b, ZeroBlock)
             j == [i EXCEPT !.size = IF at >= @ THEN end ELSE @]
             u == StoreChunk(w, at, len, end)
  <1>0. /\ w \in Drafts /\ s \in Sessions /\ i \in Inodes /\ Drafted(s, i, R, n, g, x) /\ s.d \in Disks
        /\ w.done \in Int /\ w.stop \in BOOLEAN
        /\ b # 0 => l \in Logicals /\ b = PtrOf(s.d, i, l)
    BY SessionFacts DEF Located, Writing, Drafts
  <1>1. CASE b = 0
    <2>1. u = [w EXCEPT !.stop = TRUE]
      BY <1>1 DEF StoreChunk
    <2>2. u \in Drafts /\ u.s = s /\ u.i = i
      BY ONLY <1>0, <2>1, Zenon DEF Drafts
    <2> HIDE DEF u
    <2>3. Writing(u, R, n, g, x)
      BY <1>0, <2>2 DEF Writing
    <2> QED
      BY <2>3 DEF u
  <1>2. CASE b # 0
    <2>1. u = [w EXCEPT !.s = t, !.done = w.done + len, !.i = j]
      BY <1>0, <1>2 DEF StoreChunk, Drafts
    <2>2. j \in Inodes /\ j.mode = i.mode /\ j.links = i.links /\ j.block = i.block /\ j.ind = i.ind
      <3> DEFINE z == IF at >= i.size THEN end ELSE i.size
      <3>1. z \in Nat /\ j = [i EXCEPT !.size = z]
        BY <1>0 DEF Inodes
      <3> HIDE DEF z, j
      <3> QED
        BY ONLY <1>0, <3>1, Zenon DEF Inodes
    <2> DEFINE v == PutInode(s.d, n, i)
    <2>3. Backed(s.d, v, i, R, n) /\ Overlaid(s.d, v, i, R, n)
      <3> HIDE DEF s, i
      <3> QED
        BY <1>0, DraftFacts
    <2>4. v \in Disks /\ Good(v, R, None)
      BY <2>3 DEF Backed
    <2>5. l \in Slots /\ l # MaxLen /\ b = Ptr(v, n, l)
      BY <1>0, <1>2, <2>3, SlotFacts DEF Overlaid
    <2> HIDE DEF v, b, s, i, j, u
    <2>6. b \in BlockNos /\ \A m \in R, k \in Slots : Ptr(v, m, k) = b => m = n /\ k = l
      BY <1>2, <2>4, <2>5, Owned
    <2>7. DataOf(v, R, n, b)
      BY <2>5, <2>6 DEF DataOf
    <2>8. Drafted(t, i, R, n, g, x) /\ t \in Sessions
      BY <1>0, <2>6, <2>7, ZeroFacts, DraftWipe DEF v
    <2> HIDE DEF t
    <2>9. Drafted(t, j, R, n, g, x)
      BY <2>2, <2>8, DraftResize
    <2>10. u \in Drafts /\ u.s = t /\ u.i = j
      <3> DEFINE c == w.done + len
      <3>1. c \in Int
        BY <1>0
      <3>2. u = [w EXCEPT !.s = t, !.done = c, !.i = j]
        BY <2>1
      <3> HIDE DEF c
      <3> QED
        BY ONLY <1>0, <2>2, <2>8, <3>1, <3>2, Zenon DEF Drafts
    <2>11. Writing(u, R, n, g, x)
      BY <2>9, <2>10 DEF Writing
    <2> QED
      BY <2>11 DEF u
  <1> QED
    BY <1>1, <1>2

LEMMA ChunkOK ==
    ASSUME NEW R, NEW n \in R, NEW g, NEW x, NEW w, Writing(w, R, n, g, x),
           NEW l \in Nat, NEW off \in Nat, NEW end \in Nat
    PROVE  Writing(ChunkIn(w, l, off, end), R, n, g, x)
  <1> DEFINE a == l * BlockUnits
             c == (l + 1) * BlockUnits
             at == Max({off, a})
             to == Min({end, c})
             y == LocateChunk(w, l, at, BlockLookup(w.s.d, w.i, l))
  <1>1. a \in Nat /\ c \in Nat
    <2>1. BlockUnits \in Nat
      BY Numbers
    <2>2. \A p, q \in Nat : p * q \in Nat
      OBVIOUS
    <2> QED
      BY <2>1, <2>2
  <1> HIDE DEF a, c
  <1>2. at \in Int
    <2> DEFINE T == {off, a}
    <2>1. off + a \in Nat /\ T \subseteq 0 .. off + a /\ T # {}
      BY <1>1
    <2>2. \A q \in T : q \in Int
      BY <1>1
    <2> HIDE DEF T
    <2>3. Max(T) \in T
      BY <2>1, MaxFacts, Zenon
    <2> QED
      BY <2>2, <2>3 DEF T
  <1>3. to \in Int
    <2> DEFINE T == {end, c}
    <2>1. T \subseteq Nat /\ T # {}
      BY <1>1
    <2> HIDE DEF T
    <2> DEFINE m == Min(T)
    <2>2. m \in T
      BY <2>1, MinFacts, Zenon
    <2> HIDE DEF m
    <2>4. m \in Int
      BY <2>1, <2>2
    <2>3. Min(T) \in Int
      BY <2>4 DEF m
    <2> QED
      BY <2>3 DEF T
  <1> HIDE DEF at, to
  <1>4. ChunkIn(w, l, off, end) = IF w.stop THEN w ELSE StoreChunk(y, at, to - at, end)
    BY DEF ChunkIn, WriteChunk, at, to, a, c
  <1>5. Located(y, l, R, n, g, x)
    BY LocateChunkOK
  <1> DEFINE len == to - at
  <1>6. len \in Int
    BY <1>2, <1>3
  <1> HIDE DEF y, len
  <1>7. Writing(StoreChunk(y, at, len, end), R, n, g, x)
    BY <1>5, <1>6, StoreChunkOK
  <1> QED
    BY <1>4, <1>7 DEF len

LEMMA WriteDataOK ==
    ASSUME NEW R, NEW n \in R, NEW g, NEW x, NEW s \in Sessions, NEW i, Drafted(s, i, R, n, g, x),
           NEW off \in Nat, NEW end \in Nat, off <= end
    PROVE  Writing(WriteData(s, i, off, end), R, n, g, x)
  <1> DEFINE S == {w \in Drafts : Writing(w, R, n, g, x)}
             first == off \div BlockUnits
             turns == BlocksFor(end) - first
             w0 == Draft(s, i, 0, FALSE)
             Turn(w, k) == ChunkIn(w, first + k - 1, off, end)
             step == [k \in 1 .. turns |-> [w \in S |-> Turn(w, k)]]
             P(h) == h = [k \in 0 .. turns |-> IF k = 0 THEN w0 ELSE Turn(h[k - 1], k)]
             G == CHOOSE f : P(f)
  <1>1. first \in Nat /\ turns \in Nat
    <2> DEFINE y == end + BlockUnits - 1
    <2>1. y \in Nat /\ off <= y
      BY Numbers
    <2> HIDE DEF y
    <2>2. first \in Nat /\ y \div BlockUnits \in Nat /\ first <= y \div BlockUnits
      BY <2>1, DivMod
    <2>3. BlocksFor(end) = y \div BlockUnits
      BY DEF BlocksFor, y
    <2> HIDE DEF first
    <2> QED
      BY <2>2, <2>3
  <1>2. WriteData(s, i, off, end) = G[turns]
    BY Zenon DEF WriteData
  <1> HIDE DEF first, turns
  <1>3. w0 \in S
    <2>1. i \in Inodes
      BY DEF Drafted
    <2>2. w0 \in Drafts /\ w0.s = s /\ w0.i = i
      BY <2>1 DEF Draft, Drafts
    <2> HIDE DEF w0
    <2> QED
      BY <2>2 DEF Writing
  <1>4. ASSUME NEW w \in S, NEW k \in 1 .. turns
        PROVE  Turn(w, k) \in S
    <2> DEFINE l == first + k - 1
               u == ChunkIn(w, l, off, end)
    <2>1. l \in Nat /\ Writing(w, R, n, g, x)
      BY <1>1
    <2> HIDE DEF l
    <2>2. Writing(u, R, n, g, x)
      BY <2>1, ChunkOK
    <2>3. u \in S
      BY <2>2 DEF Writing
    <2> QED
      BY <2>3 DEF l
  <1> HIDE DEF Turn, w0, S
  <1>5. step \in [1 .. turns -> [S -> S]]
    BY <1>4
  <1>6. IsLoop(turns, S, w0, step)
    BY <1>1, <1>3, <1>5 DEF IsLoop
  <1>7. PICK h : Turns(h, turns, S, w0, step)
    <2> HIDE DEF step
    <2> QED
      BY <1>6, LoopExists
  <1>8. /\ h \in [0 .. turns -> S] /\ h[0] = w0
        /\ \A k \in 1 .. turns : h[k] = Turn(h[k - 1], k)
    <2>1. /\ h \in [0 .. turns -> S] /\ h[0] = w0
          /\ \A k \in 1 .. turns : h[k] = step[k][h[k - 1]]
      BY <1>7 DEF Turns
    <2>2. ASSUME NEW k \in 1 .. turns
          PROVE  h[k] = Turn(h[k - 1], k)
      <3>1. h[k - 1] \in S
        BY <1>1, <2>1
      <3> QED
        BY <2>1, <3>1, Zenon
    <2> QED
      BY <2>1, <2>2
  <1>9. P(h)
    <2>1. \A k \in 0 .. turns : k = 0 \/ k \in 1 .. turns
      BY <1>1
    <2>2. \A k \in 0 .. turns : h[k] = IF k = 0 THEN w0 ELSE Turn(h[k - 1], k)
      BY <1>8, <2>1
    <2> QED
      BY <1>8, <2>2
  <1>10. P(G)
    BY <1>9, Zenon
  <1> HIDE DEF G
  <1>a. \A k \in 0 .. turns : G[k] = IF k = 0 THEN w0 ELSE Turn(G[k - 1], k)
    BY <1>10, Zenon
  <1>b. 0 \in 0 .. turns /\ \A k \in 1 .. turns : k \in 0 .. turns /\ k # 0
    BY <1>1
  <1>11. G[0] = w0 /\ \A k \in 1 .. turns : G[k] = Turn(G[k - 1], k)
    BY <1>a, <1>b, Zenon
  <1>12. G[turns] \in S
    <2> DEFINE Q == {k \in 0 .. turns : G[k] \in S}
    <2>1. 0 \in Q
      BY <1>3, <1>11, <1>b
    <2>2. ASSUME NEW k \in 1 .. turns, k - 1 \in Q
          PROVE  k \in Q
      <3>1. G[k - 1] \in S
        BY <2>2
      <3>2. G[k] \in S
        BY <1>4, <1>11, <3>1
      <3> QED
        BY <1>b, <3>2
    <2> HIDE DEF Q
    <2>3. 0 .. turns \subseteq Q
      BY <1>1, <2>1, <2>2, UpTo
    <2>4. turns \in 0 .. turns
      BY <1>1
    <2> QED
      BY <2>3, <2>4 DEF Q
  <1> QED
    BY <1>2, <1>12 DEF S

LEMMA PutInodeSame ==
    ASSUME NEW d \in Disks, NEW n \in InodeNos
    PROVE  PutInode(d, n, d.inode[n]) = d
  BY DEF PutInode, Disks

LEMMA NodeWriteOK ==
    ASSUME NEW s \in Sessions, NEW R, NEW g, NEW x, Mid(s, R, None, g, x), NEW n \in R,
           s.d.inode[n].mode = "file", NEW off \in Nat, NEW size \in Nat
    PROVE  CallOK(NodeWrite(s, n, off, size), g, x)
  <1> DEFINE i == s.d.inode[n]
             end == off + size
             w == WriteData(s, i, off, end)
             t == w.s
             k == off + w.done
             j == [w.i EXCEPT !.size = k]
             u == WriteInode(t, n, j)
  <1>0. /\ s.d \in Disks /\ Good(s.d, R, None) /\ n \in InodeNos /\ i \in Inodes
        /\ PutInode(s.d, n, i) = s.d
    BY SessionFacts, DiskFacts, PutInodeSame DEF Mid, Good
  <1>1. Drafted(s, i, R, n, g, x)
    BY <1>0 DEF Drafted, Extends
  <1>2. end \in Nat /\ off <= end
    OBVIOUS
  <1>3. Writing(w, R, n, g, x)
    <2> HIDE DEF i, end
    <2> QED
      BY <1>1, <1>2, WriteDataOK
  <1>4. NodeWrite(s, n, off, size) = SaveGrown(w, n, off, i.size)
    BY DEF NodeWrite
  <1> HIDE DEF w
  <1>5. t \in Sessions /\ w.i \in Inodes /\ w.done \in Int /\ Drafted(t, w.i, R, n, g, x)
    BY <1>3 DEF Writing, Drafts
  <1>6. Mid(t, R, None, g, x)
    BY <1>5 DEF Drafted
  <1>7. CASE w.done > 0 /\ off + w.done > i.size
    <2>1. SaveGrown(w, n, off, i.size) = Return(u, w.done)
      BY <1>7 DEF SaveGrown
    <2>2. k \in Nat
      BY <1>5, <1>7
    <2> HIDE DEF k
    <2>3. j \in Inodes /\ j.mode = w.i.mode /\ j.links = w.i.links /\ j.block = w.i.block /\ j.ind = w.i.ind
      BY ONLY <1>5, <2>2, Zenon DEF Inodes
    <2> HIDE DEF j, t
    <2>4. Drafted(t, j, R, n, g, x)
      <3> DEFINE y == w.i
      <3> HIDE DEF y
      <3>1. /\ Drafted(t, y, R, n, g, x) /\ j \in Inodes
            /\ j.mode = y.mode /\ j.links = y.links /\ j.block = y.block /\ j.ind = y.ind
        BY <1>5, <2>3 DEF y
      <3> QED
        BY <1>5, <3>1, DraftResize
    <2>5. Good(PutInode(t.d, n, j), R, None) /\ (g => Settled(None))
      BY <2>4, NoneTyped DEF Drafted
    <2>6. Mid(u, R, None, g, x) /\ u \in Sessions
      BY <1>0, <1>5, <1>6, <2>3, <2>5, WriteInodeMid
    <2> HIDE DEF u
    <2>7. Mid(Return(u, w.done), R, None, g, x)
      <3> DEFINE v == w.done
      <3> HIDE DEF v
      <3>1. v \in Int
        BY <1>5 DEF v
      <3>2. Mid(Return(u, v), R, None, g, x)
        BY ONLY <2>6, <3>1, ReturnMid, Zenon
      <3> QED
        BY <3>2 DEF v
    <2> QED
      BY <1>4, <2>1, <2>7 DEF CallOK, Done
  <1>8. CASE ~(w.done > 0 /\ off + w.done > i.size)
    <2>1. SaveGrown(w, n, off, i.size) = Return(t, w.done)
      BY <1>8 DEF SaveGrown
    <2> HIDE DEF t
    <2>2. Mid(Return(t, w.done), R, None, g, x)
      <3> DEFINE v == w.done
      <3> HIDE DEF v
      <3>1. v \in Int
        BY <1>5 DEF v
      <3>2. Mid(Return(t, v), R, None, g, x)
        BY ONLY <1>5, <1>6, <3>1, ReturnMid, Zenon
      <3> QED
        BY <3>2 DEF v
    <2> QED
      BY <1>4, <2>1, <2>2 DEF CallOK, Done
  <1> QED
    BY <1>7, <1>8

----------------------------------------------------------------------------
(* The actions *)

\* What can be reached is in use.
LEMMA StepIn ==
    ASSUME NEW d \in Disks, NEW R, NEW c, Good(d, R, c), NEW T \in SUBSET R
    PROVE  Step(d, T) \in SUBSET R
  <1> SUFFICES ASSUME NEW p \in T, d.inode[p].mode = "dir", NEW name \in Names,
                      FindIn(Seen(d, d.inode[p]), name).inode # 0
               PROVE  FindIn(Seen(d, d.inode[p]), name).inode \in R
    BY DEF Step, Children
  <1>1. DirLookup(d, p, name) = FindIn(Seen(d, d.inode[p]), name)
    BY DEF DirLookup
  <1>2. DirLookup(d, p, name) # NoEntry
    BY <1>1 DEF NoEntry, DirEntry
  <1>3. DirLookup(d, p, name).inode \in R
    BY <1>2, LookupFacts
  <1> QED
    BY <1>1, <1>3

LEMMA ReachIn ==
    ASSUME NEW d \in Disks, NEW R, NEW c, Good(d, R, c)
    PROVE  Reach(d) \in SUBSET R
  <1> DEFINE S == SUBSET R
             r == {Root}
             Turn(T) == Step(d, T)
             step == [k \in 1 .. NInodes |-> [T \in S |-> Turn(T)]]
             P(h) == h = [k \in 0 .. NInodes |-> IF k = 0 THEN r ELSE Turn(h[k - 1])]
             G == CHOOSE f : P(f)
  <1>1. NInodes \in Nat
    BY Numbers
  <1>2. Reach(d) = G[NInodes]
    BY Zenon DEF Reach
  <1>3. r \in S
    BY DEF Good, Used
  <1>4. ASSUME NEW T \in S
        PROVE  Turn(T) \in S
    BY StepIn
  <1> HIDE DEF Turn, r, S
  <1>5. step \in [1 .. NInodes -> [S -> S]]
    BY <1>4
  <1>6. IsLoop(NInodes, S, r, step)
    BY <1>1, <1>3, <1>5 DEF IsLoop
  <1>7. PICK h : Turns(h, NInodes, S, r, step)
    <2> HIDE DEF step
    <2> QED
      BY <1>6, LoopExists
  <1>8. /\ h \in [0 .. NInodes -> S] /\ h[0] = r
        /\ \A k \in 1 .. NInodes : h[k] = Turn(h[k - 1])
    <2>1. /\ h \in [0 .. NInodes -> S] /\ h[0] = r
          /\ \A k \in 1 .. NInodes : h[k] = step[k][h[k - 1]]
      BY <1>7 DEF Turns
    <2>2. ASSUME NEW k \in 1 .. NInodes
          PROVE  h[k] = Turn(h[k - 1])
      <3>1. h[k - 1] \in S
        BY <1>1, <2>1
      <3> QED
        BY <2>1, <3>1, Zenon
    <2> QED
      BY <2>1, <2>2
  <1>9. P(h)
    <2>1. \A k \in 0 .. NInodes : k = 0 \/ k \in 1 .. NInodes
      BY <1>1
    <2>2. \A k \in 0 .. NInodes : h[k] = IF k = 0 THEN r ELSE Turn(h[k - 1])
      BY <1>8, <2>1
    <2> QED
      BY <1>8, <2>2
  <1>10. P(G)
    BY <1>9, Zenon
  <1> HIDE DEF G
  <1>a. \A k \in 0 .. NInodes : G[k] = IF k = 0 THEN r ELSE Turn(G[k - 1])
    BY <1>10, Zenon
  <1>b. 0 \in 0 .. NInodes /\ \A k \in 1 .. NInodes : k \in 0 .. NInodes /\ k # 0
    BY <1>1
  <1>11. G[0] = r /\ \A k \in 1 .. NInodes : G[k] = Turn(G[k - 1])
    BY <1>a, <1>b, Zenon
  <1>12. G[NInodes] \in S
    <2> DEFINE Q == {k \in 0 .. NInodes : G[k] \in S}
    <2>1. 0 \in Q
      BY <1>3, <1>11, <1>b
    <2>2. ASSUME NEW k \in 1 .. NInodes, k - 1 \in Q
          PROVE  k \in Q
      <3>1. G[k - 1] \in S
        BY <2>2
      <3>2. G[k] \in S
        BY <1>4, <1>11, <3>1
      <3> QED
        BY <1>b, <3>2
    <2> HIDE DEF Q
    <2>3. 0 .. NInodes \subseteq Q
      BY <1>1, <2>1, <2>2, UpTo
    <2>4. NInodes \in 0 .. NInodes
      BY <1>1
    <2> QED
      BY <2>3, <2>4 DEF Q
  <1> QED
    BY <1>2, <1>12 DEF S

(***************************************************************************)
(* The inductive invariant: outside the windows that marks names there is  *)
(* a set of inodes in use for which the disk is in order, and before the   *)
(* first reboot the counts in memory are exact.                            *)
(***************************************************************************)
Sound == disk \in Disks /\ fs \in Counts /\ OKDisk(disk) /\ (boots = 0 => Exact(Now))

EInv == boots \in Nat /\ (Intact => Sound)

LEMMA NowMid ==
    ASSUME disk \in Disks, fs \in Counts, NEW R, Good(disk, R, None), NEW g, NEW x, x => Exact(Now)
    PROVE  Now \in Sessions /\ Now.d = disk /\ Mid(Now, R, None, g, x)
  <1>1. /\ Now \in Sessions /\ Now.d = disk /\ Now.log = <<>>
    BY DEF Now, Session, Sessions
  <1>2. Logged(Now.log)
    BY <1>1 DEF Logged
  <1> QED
    BY <1>1, <1>2, NoneTyped DEF Mid

\* A call is sound unless something dangerous has happened by its end.
Owes(call, done, g, x) == done = {} => CallOK(call, g, x)

LEMMA ApplyOK ==
    ASSUME EInv, NEW call, NEW done, NEW window, NEW g, NEW x,
           boots = 0 => x, window = {} => g, Intact => Owes(call, done, g, x),
           Apply(call, done, window)
    PROVE  EInv'
  <1>0. boots \in Nat
    BY DEF EInv
  <1>1. CASE Completes(call, done)
    <2>1. disk' = call.d /\ fs' = call.m /\ marks' = marks \cup done \cup call.marks /\ boots' = boots
      BY <1>1 DEF Completes
    <2>2. ASSUME Intact'
          PROVE  Sound'
      <3>1. Intact /\ done = {} /\ call.marks = {}
        BY <2>1, <2>2 DEF Intact
      <3>2. PICK R : Mid(call, R, None, g, x)
        BY <3>1 DEF Owes, CallOK, Done
      <3>3. call \in Sessions /\ Good(call.d, R, None) /\ (x => Exact(call))
        BY <3>2 DEF Mid
      <3>4. call.d \in Disks /\ call.m \in Counts /\ OKDisk(call.d)
        BY <3>3, SessionFacts DEF OKDisk, Good
      <3>5. boots' = 0 => Exact(Now)'
        <4> SUFFICES ASSUME boots = 0
                     PROVE  Exact(Now)'
          BY <2>1
        <4>1. Exact(call)
          BY <3>3
        <4>2. Now'.d = call.d /\ Now'.m = call.m
          BY <2>1 DEF Now, Session
        <4> QED
          BY <4>1, <4>2 DEF Exact
      <3> QED
        BY <2>1, <3>4, <3>5 DEF Sound
    <2> QED
      BY <1>0, <2>1, <2>2 DEF EInv
  <1>2. ASSUME NEW k \in 1 .. Len(call.log) - 1, Boot(call.log[k]),
               marks' = marks \cup done \cup window \cup call.marks
        PROVE  EInv'
    <2>1. boots' = boots + 1 /\ disk' = call.log[k] /\ fs' = disk'.count
      BY <1>2 DEF Boot
    <2>2. ASSUME Intact'
          PROVE  Sound'
      <3>1. Intact /\ done = {} /\ call.marks = {} /\ window = {}
        BY <1>2, <2>2 DEF Intact
      <3>2. PICK R : Mid(call, R, None, g, x)
        BY <3>1, Zenon DEF Owes, CallOK, Done
      <3>3. call \in Sessions /\ Logged(call.log)
        BY <3>1, <3>2 DEF Mid
      <3>4. k \in 1 .. Len(call.log) /\ call.log[k] \in Disks
        <4>1. call.log \in Seq(Disks)
          BY <3>3, SessionFacts
        <4>2. Len(call.log) \in Nat
          BY <4>1
        <4>3. k \in 1 .. Len(call.log)
          BY <4>2
        <4> QED
          BY <4>1, <4>3
      <3>5. OKDisk(call.log[k])
        BY <3>3, <3>4 DEF Logged
      <3>6. call.log[k].count \in Counts
        BY <3>4, DiskFacts
      <3>7. boots' # 0
        BY <1>0, <2>1
      <3> QED
        BY <2>1, <3>4, <3>5, <3>6, <3>7 DEF Sound
    <2>3. boots' \in Nat
      BY <1>0, <2>1
    <2> QED
      BY <2>2, <2>3 DEF EInv
  <1>3. ASSUME NEW d, Boot(d),
               marks' = marks \cup done \cup window \cup call.marks \cup {"torn"}
        PROVE  EInv'
    <2>1. boots' \in Nat
      BY <1>0, <1>3 DEF Boot
    <2>2. ~Intact'
      BY <1>3 DEF Intact
    <2> QED
      BY <2>1, <2>2 DEF EInv
  <1> QED
    BY <1>1, <1>2, <1>3, Zenon DEF Apply

LEMMA SoundReach ==
    ASSUME EInv, Intact
    PROVE  \E R : /\ disk \in Disks /\ fs \in Counts /\ Good(disk, R, None)
                  /\ Reach(disk) \in SUBSET R /\ (boots = 0 => Exact(Now))
  <1>1. disk \in Disks /\ fs \in Counts /\ OKDisk(disk) /\ (boots = 0 => Exact(Now))
    BY DEF EInv, Sound
  <1>2. PICK R : Good(disk, R, None)
    BY <1>1 DEF OKDisk
  <1>3. Reach(disk) \in SUBSET R
    BY <1>1, <1>2, ReachIn
  <1> QED
    BY <1>1, <1>2, <1>3

\* What a call may start from.
Begins(R, g, x) ==
    /\ Now \in Sessions /\ Now.d = disk /\ Mid(Now, R, None, g, x) /\ Reach(disk) \in SUBSET R

LEMMA Begin ==
    ASSUME EInv, Intact, NEW g, NEW x, x => boots = 0
    PROVE  \E R : Begins(R, g, x)
  <1>1. PICK R : /\ disk \in Disks /\ fs \in Counts /\ Good(disk, R, None)
                 /\ Reach(disk) \in SUBSET R /\ (boots = 0 => Exact(Now))
    BY SoundReach
  <1>2. Now \in Sessions /\ Now.d = disk /\ Mid(Now, R, None, g, x)
    BY <1>1, NowMid
  <1> QED
    BY <1>1, <1>2 DEF Begins

LEMMA TouchOK ==
    ASSUME EInv, NEW p \in Reach(disk), NEW n \in Names, Touch(p, n)
    PROVE  EInv'
  <1> DEFINE s == CreateFile(Now, p, n)
             x == boots = 0
  <1>1. (boots = 0 => x) /\ (x => boots = 0)
    OBVIOUS
  <1> HIDE DEF x
  <1>2. ASSUME Intact
        PROVE  Owes(s, {}, TRUE, x)
    <2>1. PICK R : Begins(R, TRUE, x)
      BY <1>1, <1>2, Begin, Zenon
    <2>2. Now \in Sessions /\ Mid(Now, R, None, TRUE, x) /\ p \in R
      BY <2>1, Zenon DEF Begins
    <2>3. CallOK(s, TRUE, x)
      BY <2>2, CreateFileOK, Zenon
    <2> QED
      BY <2>3, Zenon DEF Owes
  <1>3. Apply(s, {}, {})
    BY DEF Touch
  <1> DEFINE g == TRUE
             z == {}
  <1>4. (z = {} => g) /\ (Intact => Owes(s, z, g, x)) /\ Apply(s, z, z)
    BY <1>2, <1>3, Zenon
  <1> HIDE DEF s, g, z
  <1> QED
    BY <1>1, <1>4, ApplyOK, Zenon

LEMMA UnlinkOK ==
    ASSUME EInv, NEW p \in Reach(disk), NEW n \in Names, Unlink(p, n)
    PROVE  EInv'
  <1> DEFINE s == RemoveFile(Now, p, n)
             x == boots = 0
  <1>1. (boots = 0 => x) /\ (x => boots = 0)
    OBVIOUS
  <1> HIDE DEF x
  <1>2. ASSUME Intact
        PROVE  Owes(s, {}, TRUE, x)
    <2>1. PICK R : Begins(R, TRUE, x)
      BY <1>1, <1>2, Begin, Zenon
    <2>2. Now \in Sessions /\ Mid(Now, R, None, TRUE, x) /\ p \in R
      BY <2>1, Zenon DEF Begins
    <2>3. CallOK(s, TRUE, x)
      BY <2>2, RemoveFileOK, Zenon
    <2> QED
      BY <2>3, Zenon DEF Owes
  <1>3. Apply(s, {}, {})
    BY DEF Unlink
  <1> DEFINE g == TRUE
             z == {}
  <1>4. (z = {} => g) /\ (Intact => Owes(s, z, g, x)) /\ Apply(s, z, z)
    BY <1>2, <1>3, Zenon
  <1> HIDE DEF s, g, z
  <1> QED
    BY <1>1, <1>4, ApplyOK, Zenon

LEMMA RmdirOK ==
    ASSUME EInv, NEW p \in Reach(disk), NEW n \in Names, Rmdir(p, n)
    PROVE  EInv'
  <1> DEFINE s == RemoveDir(Now, p, n)
             x == boots = 0
  <1>1. (boots = 0 => x) /\ (x => boots = 0)
    OBVIOUS
  <1> HIDE DEF x
  <1>2. ASSUME Intact
        PROVE  Owes(s, {}, TRUE, x)
    <2>1. PICK R : Begins(R, TRUE, x)
      BY <1>1, <1>2, Begin, Zenon
    <2>2. Now \in Sessions /\ Mid(Now, R, None, TRUE, x) /\ p \in R
      BY <2>1, Zenon DEF Begins
    <2>3. CallOK(s, TRUE, x)
      BY <2>2, RemoveDirOK, Zenon
    <2> QED
      BY <2>3, Zenon DEF Owes
  <1>3. Apply(s, {}, {})
    BY DEF Rmdir
  <1> DEFINE g == TRUE
             z == {}
  <1>4. (z = {} => g) /\ (Intact => Owes(s, z, g, x)) /\ Apply(s, z, z)
    BY <1>2, <1>3, Zenon
  <1> HIDE DEF s, g, z
  <1> QED
    BY <1>1, <1>4, ApplyOK, Zenon

LEMMA MkdirOK ==
    ASSUME EInv, NEW p \in Reach(disk), NEW n \in Names, Mkdir(p, n)
    PROVE  EInv'
  <1> DEFINE s == CreateDir(Now, p, n)
             x == boots = 0
             done == IF disk.inode[p].mode = "file" THEN {"below_file"} ELSE {}
  <1>1. (boots = 0 => x) /\ (x => boots = 0)
    OBVIOUS
  <1> HIDE DEF x
  <1>2. ASSUME Intact
        PROVE  Owes(s, done, TRUE, x)
    <2>1. PICK R : Begins(R, TRUE, x)
      BY <1>1, <1>2, Begin, Zenon
    <2>2. Now \in Sessions /\ Mid(Now, R, None, TRUE, x) /\ p \in R /\ Now.d = disk
      BY <2>1, Zenon DEF Begins
    <2>3. ASSUME done = {}
          PROVE  CallOK(s, TRUE, x)
      <3>1. disk.inode[p].mode # "file"
        BY <2>3
      <3>2. Now.d.inode[p].mode = "dir"
        BY <2>2, <3>1 DEF Mid, Good, Used
      <3> QED
        BY <2>2, <3>2, CreateDirOK, Zenon
    <2> HIDE DEF done
    <2> QED
      BY <2>3, Zenon DEF Owes
  <1>3. Apply(s, done, {})
    BY DEF Mkdir
  <1> DEFINE g == TRUE
             z == {}
  <1>4. (z = {} => g) /\ (Intact => Owes(s, done, g, x)) /\ Apply(s, done, z)
    BY <1>2, <1>3, Zenon
  <1> HIDE DEF s, g, z, done
  <1> QED
    BY <1>1, <1>4, ApplyOK, Zenon

LEMMA MvOK ==
    ASSUME EInv, NEW p \in DirsAmong(disk, Reach(disk)), NEW n \in Names,
           NEW q \in DirsAmong(disk, Reach(disk)), NEW m \in Names, Mv(p, n, q, m)
    PROVE  EInv'
  <1> DEFINE s == Rename(Now, p, n, q, m)
             x == boots = 0
             g == FALSE
             window == {"rename"}
             z == {}
  <1>1. (boots = 0 => x) /\ (x => boots = 0) /\ ~g /\ (window = {} => g)
    OBVIOUS
  <1>3. Apply(s, z, window)
    BY DEF Mv
  <1> HIDE DEF x, g, window, z
  <1>2. ASSUME Intact
        PROVE  Owes(s, z, g, x)
    <2>1. PICK R : Begins(R, g, x)
      BY <1>1, <1>2, Begin
    <2>2. Now \in Sessions /\ Mid(Now, R, None, g, x) /\ p \in R /\ q \in R
          /\ Now.d.inode[q].mode = "dir"
      BY <2>1 DEF Begins, DirsAmong
    <2>3. CallOK(s, g, x)
      BY <1>1, <2>2, RenameOK
    <2> QED
      BY <2>3 DEF Owes
  <1> HIDE DEF s
  <1> QED
    BY <1>1, <1>2, <1>3, ApplyOK, Zenon

LEMMA TruncateOK ==
    ASSUME EInv, NEW n \in FilesAmong(disk, Reach(disk)), NEW size \in TruncSizes, Truncate(n, size)
    PROVE  EInv'
  <1> DEFINE s == TruncateFile(Now, n, size)
             x == boots = 0
             g == FALSE
             window == {"truncate"}
             z == {}
  <1>1. (boots = 0 => x) /\ (x => boots = 0) /\ ~g /\ (window = {} => g)
    OBVIOUS
  <1>3. Apply(s, z, window)
    BY DEF Truncate
  <1> HIDE DEF x, g, window, z
  <1>2. ASSUME Intact
        PROVE  Owes(s, z, g, x)
    <2>1. PICK R : Begins(R, g, x)
      BY <1>1, <1>2, Begin
    <2>2. Now \in Sessions /\ Mid(Now, R, None, g, x) /\ n \in R
          /\ Now.d.inode[n].mode = "file" /\ size \in Nat
      BY <2>1, Ext2Assumption DEF Begins, FilesAmong
    <2>3. CallOK(s, g, x)
      BY <1>1, <2>2, TruncateFileOK
    <2> QED
      BY <2>3 DEF Owes
  <1> HIDE DEF s
  <1> QED
    BY <1>1, <1>2, <1>3, ApplyOK, Zenon

LEMMA WriteOK ==
    ASSUME EInv, NEW n \in FilesAmong(disk, Reach(disk)), NEW size \in WriteSizes, Write(n, size)
    PROVE  EInv'
  <1>0. PICK off \in {0, disk.inode[n].size} : Apply(NodeWrite(Now, n, off, size), {}, {})
    BY DEF Write
  <1> DEFINE s == NodeWrite(Now, n, off, size)
             x == boots = 0
             g == TRUE
             z == {}
  <1>1. (boots = 0 => x) /\ (x => boots = 0) /\ (z = {} => g) /\ Apply(s, z, z)
    BY <1>0
  <1> HIDE DEF x, g, z
  <1>2. ASSUME Intact
        PROVE  Owes(s, z, g, x)
    <2>1. PICK R : Begins(R, g, x)
      BY <1>1, <1>2, Begin
    <2>2. Now \in Sessions /\ Mid(Now, R, None, g, x) /\ n \in R
          /\ Now.d.inode[n].mode = "file" /\ Now.d = disk
      BY <2>1 DEF Begins, FilesAmong
    <2>3. size \in Nat
      BY Ext2Assumption
    <2>4. off \in Nat
      <3>1. disk \in Disks /\ n \in InodeNos
        BY <2>2, SessionFacts DEF Mid, Good
      <3>2. disk.inode[n].size \in Nat
        BY <3>1, DiskFacts DEF Inodes
      <3> QED
        BY <1>0, <3>2
    <2>5. CallOK(s, g, x)
      BY <2>2, <2>3, <2>4, NodeWriteOK
    <2> QED
      BY <2>5 DEF Owes
  <1> HIDE DEF s
  <1> QED
    BY <1>1, <1>2, ApplyOK, Zenon

LEMMA RebootOK ==
    ASSUME EInv, Reboot
    PROVE  EInv'
  <1>1. boots \in Nat /\ boots' = boots + 1 /\ disk' = disk /\ fs' = disk.count /\ marks' = marks
    BY DEF EInv, Reboot, Boot
  <1>2. ASSUME Intact'
        PROVE  Sound'
    <2>1. disk \in Disks /\ OKDisk(disk)
      BY <1>1, <1>2 DEF EInv, Intact, Sound
    <2>2. disk.count \in Counts
      BY <2>1, DiskFacts
    <2>3. boots' # 0
      BY <1>1
    <2> QED
      BY <1>1, <2>1, <2>2, <2>3 DEF Sound
  <1>3. boots' \in Nat
    BY <1>1
  <1> QED
    BY <1>2, <1>3 DEF EInv

\* mkfs.ext2 leaves a disk that is in order.
LEMMA InitGood ==
    ASSUME EInit
    PROVE  disk \in Disks /\ fs \in Counts /\ Good(disk, {Root}, None)
  <1> DEFINE d == disk
             free == [blocks |-> NBlocks - 1, inodes |-> NInodes - 1]
             i == DirInode(1)
             y == FirstDirBlock(Root, Root)
             none == NewInode("none", 0, 0)
             F == [n \in InodeNos |-> IF n = Root THEN i ELSE none]
             B == [b \in BlockNos |-> IF b = 1 THEN y ELSE ZeroBlock]
  <1>1. /\ d = [bbm |-> {1}, ibm |-> {Root}, count |-> free, inode |-> F, blk |-> B] /\ fs = free
    BY DEF EInit
  <1>2. 1 \in BlockNos /\ Root \in InodeNos /\ Root = 1 /\ 1 # 0
    BY Numbers DEF BlockNos
  <1>3. y \in Blocks /\ DOMAIN y.ents = {0, 1} /\ Headed(y.ents)
    BY <1>2, FirstBlockFacts
  <1>4. none \in Inodes
    <2> DEFINE z == [j \in 0 .. NDirect - 1 |-> 0]
    <2>1. z \in [0 .. NDirect - 1 -> Refs] /\ 0 \in Refs
      BY SlotFacts
    <2>2. none = [mode |-> "none", links |-> 0, size |-> 0, blocks |-> 0, block |-> z, ind |-> 0]
      BY DEF NewInode
    <2> HIDE DEF z, none
    <2> QED
      BY <2>1, <2>2 DEF Inodes, Modes
  <1>5. free \in Counts
    BY Numbers DEF Counts
  <1>6. i \in Inodes
    <2>1. \A e \in Disks : i \in Inodes
      BY <1>2, NewInodeFacts
    <2> DEFINE e == [bbm |-> {}, ibm |-> {}, count |-> free, inode |-> [n \in InodeNos |-> none],
                     blk |-> [b \in BlockNos |-> y]]
    <2> HIDE DEF free, none, y, i
    <2>2. e \in Disks
      BY <1>3, <1>4, <1>5 DEF Disks
    <2> QED
      BY <2>1, <2>2
  <1> HIDE DEF free, none, y, i
  <1>7. F \in [InodeNos -> Inodes] /\ F[Root] = i
    BY <1>2, <1>4, <1>6
  <1>8. B \in [BlockNos -> Blocks] /\ B[1] = y
    BY <1>2, <1>3, ZeroFacts
  <1> HIDE DEF F, B
  <1>9. /\ d \in Disks /\ d.inode[Root] = i /\ d.blk[1] = y /\ d.bbm = {1} /\ d.ibm = {Root}
        /\ fs \in Counts
    BY <1>1, <1>2, <1>5, <1>7, <1>8 DEF Disks
  <1> HIDE DEF d
  <1>10. /\ i.mode = "dir" /\ i.links = 2 /\ i.blocks = 1
         /\ \A k \in Slots : PtrOf(d, i, k) = IF k = 0 THEN 1 ELSE 0
    BY <1>2, <1>9, NewInodeFacts DEF i
  <1>11. \A k \in Slots : Ptr(d, Root, k) = IF k = 0 THEN 1 ELSE 0
    BY <1>9, <1>10 DEF Ptr
  <1>12. 0 \in Slots /\ \A l \in Logicals : l \in Slots
    BY SlotFacts
  <1>13. \A l \in Logicals, o \in Offs : ~Live(d, Root, l, o)
    <2> SUFFICES ASSUME NEW l \in Logicals, NEW o \in Offs, Live(d, Root, l, o)
                 PROVE  FALSE
      OBVIOUS
    <2>1. Ptr(d, Root, l) = 1
      BY <1>11, <1>12 DEF Live
    <2>2. o \in {0, 1} /\ y.ents[o].name \notin {".", ".."}
      BY <1>3, <1>9, <2>1 DEF Live
    <2> QED
      BY <1>3, <2>2 DEF Headed
  <1>14. Used(d, {Root})
    BY <1>9, <1>10 DEF Used
  <1>15. Own(d, {Root})
    BY <1>9, <1>11 DEF Own
  <1>16. Heads(d, {Root})
    BY <1>3, <1>9, <1>10, <1>11, <1>12 DEF Heads
  <1>17. Leads(d, {Root}) /\ OneName(d, {Root}, None) /\ NamedAt(d, {Root}, None)
    BY <1>13 DEF Leads, OneName, NamedAt
  <1>18. Parents(d, {Root}, None)
    BY <1>13, NoneTyped DEF Parents
  <1>19. Linked(d, {Root}, None)
    <2>1. Kids(d, Root) = {}
      BY <1>13 DEF Kids
    <2>2. Crowd(d, None, Root) = {}
      BY <1>2, <2>1, NoneTyped DEF Crowd
    <2>3. Cardinality(Crowd(d, None, Root)) = 0
      BY <2>2, FS_EmptySet
    <2> QED
      BY <1>9, <1>10, <2>3 DEF Linked
  <1>20. Carried(d, {Root}, None) /\ Typed(None)
    BY NoneTyped DEF Carried
  <1>21. Good(d, {Root}, None)
    BY <1>2, <1>9, <1>14, <1>15, <1>16, <1>17, <1>18, <1>19, <1>20 DEF Good
  <1> QED
    BY <1>9, <1>21 DEF d

LEMMA InitInv ==
    ASSUME EInit
    PROVE  EInv
  <1>1. disk \in Disks /\ fs \in Counts /\ Good(disk, {Root}, None)
    BY InitGood
  <1>2. OKDisk(disk)
    BY <1>1 DEF OKDisk, Good
  <1>3. Exact(Now)
    <2>1. /\ disk.bbm = {1} /\ disk.ibm = {Root}
          /\ fs.blocks = NBlocks - 1 /\ fs.inodes = NInodes - 1
      BY DEF EInit
    <2>2. ASSUME NEW n \in Nat, n >= 1
          PROVE  Cardinality((1 .. n) \ {1}) = n - 1
      <3>1. IsFiniteSet(1 .. n) /\ Cardinality(1 .. n) = n /\ 1 \in 1 .. n
        BY <2>2, FS_Interval
      <3> QED
        BY <3>1, FS_RemoveElement, Zenon
    <2>3. Now.m = fs /\ Now.d = disk
      BY DEF Now, Session
    <2> QED
      BY <2>1, <2>2, <2>3, Numbers DEF Exact, BlockNos, InodeNos
  <1>4. boots = 0
    BY DEF EInit
  <1> QED
    BY <1>1, <1>2, <1>3, <1>4 DEF EInv, Sound

LEMMA NextInv ==
    ASSUME EInv, [ENext]_evars
    PROVE  EInv'
  <1>1. CASE \E p \in Reach(disk), n \in Names : Touch(p, n) \/ Mkdir(p, n)
    BY <1>1, TouchOK, MkdirOK
  <1>2. ASSUME NEW p \in DirsAmong(disk, Reach(disk)), NEW n \in Names,
               \/ Unlink(p, n)
               \/ Rmdir(p, n)
               \/ \E q \in DirsAmong(disk, Reach(disk)), m \in Names : Mv(p, n, q, m)
        PROVE  EInv'
    <2>1. p \in Reach(disk)
      BY DEF DirsAmong
    <2>2. CASE Unlink(p, n)
      BY <2>1, <2>2, UnlinkOK
    <2>3. CASE Rmdir(p, n)
      BY <2>1, <2>3, RmdirOK
    <2>4. CASE \E q \in DirsAmong(disk, Reach(disk)), m \in Names : Mv(p, n, q, m)
      BY <2>4, MvOK
    <2> QED
      BY <1>2, <2>2, <2>3, <2>4
  <1>3. CASE \E n \in FilesAmong(disk, Reach(disk)) :
                \/ \E size \in TruncSizes : Truncate(n, size)
                \/ \E size \in WriteSizes : Write(n, size)
    BY <1>3, TruncateOK, WriteOK
  <1>4. CASE Reboot
    BY <1>4, RebootOK
  <1>5. CASE UNCHANGED evars
    <2>1. disk' = disk /\ fs' = fs /\ marks' = marks /\ boots' = boots
      BY <1>5 DEF evars
    <2> QED
      BY <2>1 DEF EInv, Intact, Sound, Now
  <1> QED
    BY <1>1, <1>2, <1>3, <1>4, <1>5 DEF ENext

(***************************************************************************)
(* The disk stays in order through every call of the driver and every loss *)
(* of power outside the windows that marks names.                          *)
(***************************************************************************)
THEOREM Ext2Invariant == ESpec => []EInv
  <1>1. EInit => EInv
    BY InitInv
  <1>2. EInv /\ [ENext]_evars => EInv'
    BY NextInv
  <1> QED
    BY <1>1, <1>2, PTL DEF ESpec

LEMMA OwnedOK ==
    ASSUME EInv
    PROVE  BlocksOwned
  <1> SUFFICES ASSUME Intact
               PROVE  OwnedIn(Reach(disk), RefsOf(Reach(disk)))
    BY DEF BlocksOwned
  <1> DEFINE Q == Reach(disk)
             r == RefsOf(Q)
  <1>1. PICK R : disk \in Disks /\ Good(disk, R, None) /\ Q \in SUBSET R
    BY SoundReach
  <1> HIDE DEF Q
  <1>2. R \in SUBSET InodeNos /\ Own(disk, R)
    BY <1>1 DEF Good
  <1>3. ASSUME NEW n \in Q, NEW k \in 1 .. MaxLen + 1
        PROVE  k - 1 \in Slots /\ r[n][k] = Ptr(disk, n, k - 1)
    <2> DEFINE i == disk.inode[n]
    <2>1. i \in Inodes /\ 0 \in 0 .. NDirect /\ n \in R
      BY <1>1, <1>2, DiskFacts, Numbers
    <2>2. r[n] = BlockRefs(disk, i, 0)
      BY DEF RefsOf
    <2> HIDE DEF i, r
    <2>3. \A j \in 1 .. MaxLen + 1 :
             BlockRefs(disk, i, 0)[j] = IF j <= 0 THEN 0 ELSE PtrOf(disk, i, j - 1)
      BY <1>1, <2>1, RefsFacts
    <2>4. k - 1 \in Slots /\ ~(k <= 0)
      BY Numbers DEF Slots
    <2> QED
      BY <2>2, <2>3, <2>4 DEF Ptr, i
  <1> HIDE DEF r
  <1>4. ASSUME NEW n \in Q, NEW k \in 1 .. MaxLen + 1, r[n][k] # 0
        PROVE  /\ r[n][k] \in disk.bbm
               /\ \A m \in Q, j \in 1 .. MaxLen + 1 : r[m][j] = r[n][k] => m = n /\ j = k
    <2>1. n \in R /\ k - 1 \in Slots /\ r[n][k] = Ptr(disk, n, k - 1)
      BY <1>1, <1>3
    <2>2. /\ Ptr(disk, n, k - 1) \in disk.bbm
          /\ \A m \in R, h \in Slots : Ptr(disk, m, h) = Ptr(disk, n, k - 1) => m = n /\ h = k - 1
      BY <1>2, <1>4, <2>1 DEF Own
    <2>3. ASSUME NEW m \in Q, NEW j \in 1 .. MaxLen + 1, r[m][j] = r[n][k]
          PROVE  m = n /\ j = k
      <3>1. m \in R /\ j - 1 \in Slots /\ r[m][j] = Ptr(disk, m, j - 1)
        BY <1>1, <1>3
      <3>2. m = n /\ j - 1 = k - 1
        BY <2>1, <2>2, <2>3, <3>1
      <3> QED
        BY <3>2, Numbers
    <2> QED
      BY <2>1, <2>2, <2>3
  <1>5. OwnedIn(Q, r)
    BY <1>4 DEF OwnedIn
  <1> QED
    BY <1>5 DEF Q, r

LEMMA CountsOK ==
    ASSUME EInv
    PROVE  CountsExact
  <1>1. Now.m = fs /\ Now.d = disk
    BY DEF Now, Session
  <1> QED
    BY <1>1 DEF EInv, Sound, Exact, CountsExact

\* A listed entry is a name.
LEMMA ListedFacts ==
    ASSUME NEW d \in Disks, NEW p \in InodeNos, d.inode[p].mode = "dir",
           NEW x \in Listed(Seen(d, d.inode[p]))
    PROVE  /\ x \div BlockUnits \in Logicals /\ x % BlockUnits \in Offs
           /\ x = (x \div BlockUnits) * BlockUnits + (x % BlockUnits)
           /\ Live(d, p, x \div BlockUnits, x % BlockUnits)
           /\ Seen(d, d.inode[p])[x].inode = To(d, p, x \div BlockUnits, x % BlockUnits)
           /\ Seen(d, d.inode[p])[x].type = Kind(d, p, x \div BlockUnits, x % BlockUnits)
  <1> DEFINE v == Seen(d, d.inode[p])
             l == x \div BlockUnits
             o == x % BlockUnits
  <1>1. x \in DOMAIN v /\ v[x].inode # 0 /\ v[x].name \notin {".", ".."}
    BY DEF Listed
  <1>2. /\ v[x] = EntAt(d, p, x) /\ l \in Logicals /\ o \in Offs
        /\ x = l * BlockUnits + o
        /\ Ptr(d, p, l) \in BlockNos /\ o \in DOMAIN d.blk[Ptr(d, p, l)].ents
    BY <1>1, SeenFacts
  <1>3. v[x] = d.blk[Ptr(d, p, l)].ents[o]
    BY <1>2 DEF EntAt
  <1> HIDE DEF v, l, o
  <1>4. Ptr(d, p, l) # 0
    BY <1>2, SlotFacts
  <1>5. Live(d, p, l, o) /\ v[x].inode = To(d, p, l, o) /\ v[x].type = Kind(d, p, l, o)
    BY <1>1, <1>2, <1>3, <1>4 DEF Live, To, Kind
  <1> QED
    BY <1>2, <1>5 DEF v, l, o

\* The subdirectories listed are not more than those accounted for.
LEMMA ListedDirs ==
    ASSUME NEW d \in Disks, NEW R, Good(d, R, None), NEW p \in R, d.inode[p].mode = "dir",
           NEW v, v = Seen(d, d.inode[p])
    PROVE  d.inode[p].links >= 2 + Cardinality({x \in Listed(v) : v[x].type = "dir"})
  <1> DEFINE X == {x \in Listed(v) : v[x].type = "dir"}
             K == Kids(d, p)
             f == [x \in X |-> v[x].inode]
  <1>0. p \in InodeNos /\ R \in SUBSET InodeNos
    BY DEF Good
  <1>1. ASSUME NEW x \in X
        PROVE  /\ x \div BlockUnits \in Logicals /\ x % BlockUnits \in Offs
               /\ x = (x \div BlockUnits) * BlockUnits + (x % BlockUnits)
               /\ Live(d, p, x \div BlockUnits, x % BlockUnits)
               /\ v[x].inode = To(d, p, x \div BlockUnits, x % BlockUnits)
               /\ Kind(d, p, x \div BlockUnits, x % BlockUnits) = "dir"
    <2>1. x \in Listed(Seen(d, d.inode[p])) /\ v[x].type = "dir"
      OBVIOUS
    <2> QED
      BY <1>0, <2>1, ListedFacts
  <1>2. ASSUME NEW x \in X
        PROVE  v[x].inode \in K
    <2>1. v[x].inode \in R
      BY <1>1 DEF Good, Leads
    <2> QED
      BY <1>0, <1>1, <2>1 DEF Kids
  <1>3. ASSUME NEW x \in X, NEW y \in X, v[x].inode = v[y].inode
        PROVE  x = y
    <2>1. To(d, p, x \div BlockUnits, x % BlockUnits) # None.n
      BY <1>1, NoneTyped DEF Live, To
    <2>2. x \div BlockUnits = y \div BlockUnits /\ x % BlockUnits = y % BlockUnits
      BY <1>1, <1>3, <2>1 DEF Good, OneName
    <2> QED
      BY <1>1, <2>2
  <1> HIDE DEF X, K
  <1>4. f \in Injection(X, K)
    BY <1>2, <1>3 DEF Injection, IsInjective
  <1>5. K \in SUBSET (0 .. NInodes)
    BY CrowdFacts, NoneTyped, Numbers DEF K, InodeNos
  <1>6. IsFiniteSet(K) /\ Cardinality(K) \in Nat
    BY <1>5, InodeNosFinite
  <1>7. IsFiniteSet(X) /\ Cardinality(X) <= Cardinality(K)
    <2> HIDE DEF f
    <2> QED
      BY <1>4, <1>6, FS_Injection
  <1>8. Cardinality(X) \in Nat
    BY <1>7, FS_CardinalityType
  <1>9. Crowd(d, None, p) = K
    <2>1. 0 \notin K /\ p # 0
      BY <1>0, SlotFacts DEF K, Kids
    <2> QED
      BY <2>1, NoneTyped DEF Crowd, K
  <1>10. d.inode[p].links >= 2 + Cardinality(K) /\ d.inode[p].links \in Nat
    <2>1. d.inode[p].links >= 2 + Cardinality(K)
      BY <1>9 DEF Good, Linked
    <2>2. d.inode[p].links \in Nat
      BY <1>0, DiskFacts DEF Inodes
    <2> QED
      BY <2>1, <2>2
  <1>11. d.inode[p].links >= 2 + Cardinality(X)
    BY <1>6, <1>7, <1>8, <1>10
  <1> QED
    BY <1>11 DEF X

LEMMA NamesOK ==
    ASSUME EInv
    PROVE  NamesSound
  <1> DEFINE D == DirsAmong(disk, Reach(disk))
             v == ViewsOf(D)
  <1> SUFFICES ASSUME Intact
               PROVE  SoundIn(D, v)
    BY DEF NamesSound
  <1>1. PICK R : disk \in Disks /\ Good(disk, R, None) /\ Reach(disk) \in SUBSET R
    BY SoundReach
  <1>2. R \in SUBSET InodeNos /\ R \subseteq disk.ibm
    BY <1>1 DEF Good, Used
  <1>3. \A p \in D : p \in R /\ p \in InodeNos /\ disk.inode[p].mode = "dir"
    BY <1>1, <1>2 DEF DirsAmong
  <1> HIDE DEF D
  <1>4. \A p \in D : v[p] = Seen(disk, disk.inode[p])
    BY DEF ViewsOf
  <1> HIDE DEF v
  <1>5. ASSUME NEW p \in D, NEW x \in Listed(v[p])
        PROVE  /\ x \div BlockUnits \in Logicals /\ x % BlockUnits \in Offs
               /\ x = (x \div BlockUnits) * BlockUnits + (x % BlockUnits)
               /\ Live(disk, p, x \div BlockUnits, x % BlockUnits)
               /\ v[p][x].inode = To(disk, p, x \div BlockUnits, x % BlockUnits)
               /\ v[p][x].type = Kind(disk, p, x \div BlockUnits, x % BlockUnits)
    <2>1. x \in Listed(Seen(disk, disk.inode[p])) /\ v[p] = Seen(disk, disk.inode[p])
      BY <1>4
    <2>2. disk \in Disks /\ p \in InodeNos /\ disk.inode[p].mode = "dir"
      BY <1>1, <1>3
    <2> QED
      BY <2>1, <2>2, ListedFacts
  <1>6. ASSUME NEW p \in D, NEW x \in Listed(v[p])
        PROVE  EntrySound(p, v[p][x], disk.inode[v[p][x].inode])
    <2> DEFINE l == x \div BlockUnits
               o == x % BlockUnits
               m == v[p][x].inode
               i == disk.inode[m]
    <2>0. /\ l \in Logicals /\ o \in Offs /\ Live(disk, p, l, o) /\ p \in R
          /\ m = To(disk, p, l, o) /\ v[p][x].type = Kind(disk, p, l, o)
      BY <1>3, <1>5
    <2> HIDE DEF l, o, m
    <2>1. m \in R /\ v[p][x].type = i.mode
      BY <1>1, <2>0 DEF Good, Leads
    <2>2. i.mode = "file" => i.links = 1
      BY <1>1, <2>1 DEF Good, Linked
    <2>3. ASSUME i.mode = "dir"
          PROVE  disk.blk[i.block[0]].ents[1].inode = p
      <3>1. m # None.n
        BY <1>2, <2>1, NoneTyped, SlotFacts
      <3>2. DotDot(disk, m) = p
        BY <1>1, <2>0, <2>1, <2>3, <3>1, ZenonT(60) DEF Good, Parents
      <3>3. Ptr(disk, m, 0) = i.block[0]
        <4>0. m \in InodeNos
          BY <1>2, <2>1
        <4>a. i \in Inodes
          BY <1>1, <4>0, DiskFacts
        <4>b. 0 < NDirect
          BY Numbers
        <4>1. i \in Inodes /\ 0 < NDirect /\ 0 \in Slots
          BY <4>a, <4>b, SlotFacts
        <4> HIDE DEF i
        <4>2. PtrOf(disk, i, 0) = i.block[0]
          BY <1>1, <4>1, PtrFacts
        <4> QED
          BY <4>2 DEF Ptr, i
      <3> QED
        BY <3>2, <3>3 DEF DotDot
    <2>4. EntrySound(p, v[p][x], i)
      <3> HIDE DEF i
      <3> QED
        BY <1>2, <2>1, <2>2, <2>3 DEF EntrySound, m
    <2> QED
      BY <2>4 DEF m
  <1>7. ASSUME NEW p \in D, NEW x \in Listed(v[p]), NEW q \in D, NEW y \in Listed(v[q]),
               v[p][x].inode = v[q][y].inode
        PROVE  p = q /\ x = y
    <2>1. /\ x \div BlockUnits \in Logicals /\ x % BlockUnits \in Offs
          /\ x = (x \div BlockUnits) * BlockUnits + (x % BlockUnits)
          /\ Live(disk, p, x \div BlockUnits, x % BlockUnits)
          /\ v[p][x].inode = To(disk, p, x \div BlockUnits, x % BlockUnits)
      BY <1>5
    <2>2. /\ y \div BlockUnits \in Logicals /\ y % BlockUnits \in Offs
          /\ y = (y \div BlockUnits) * BlockUnits + (y % BlockUnits)
          /\ Live(disk, q, y \div BlockUnits, y % BlockUnits)
          /\ v[q][y].inode = To(disk, q, y \div BlockUnits, y % BlockUnits)
      BY <1>5
    <2>3. p \in R /\ q \in R
      BY <1>3
    <2>4. To(disk, p, x \div BlockUnits, x % BlockUnits) # None.n
      BY <2>1, NoneTyped DEF Live, To
    <2>5. p = q /\ x \div BlockUnits = y \div BlockUnits /\ x % BlockUnits = y % BlockUnits
      BY <1>1, <1>7, <2>1, <2>2, <2>3, <2>4, Zenon DEF Good, OneName
    <2> QED
      BY <2>1, <2>2, <2>5
  <1>8. ASSUME NEW p \in D
        PROVE  disk.inode[p].links >=
                  2 + Cardinality({x \in Listed(v[p]) : v[p][x].type = "dir"})
    <2> DEFINE u == v[p]
    <2>1. u = Seen(disk, disk.inode[p]) /\ p \in R /\ disk.inode[p].mode = "dir"
      BY <1>3, <1>4
    <2> HIDE DEF u
    <2>2. disk.inode[p].links >= 2 + Cardinality({x \in Listed(u) : u[x].type = "dir"})
      BY <1>1, <2>1, ListedDirs
    <2> QED
      BY <2>2 DEF u
  <1> QED
    BY <1>6, <1>7, <1>8 DEF SoundIn

(***************************************************************************)
(* Every block of a file or directory that a path can reach is marked used *)
(* and belongs to that inode alone, once: whatever ext2_create_*,          *)
(* ext2_remove_*, ext2_rename, ext2_truncate and ext2_node_write do and    *)
(* after whichever of their writes power fails, outside the windows that   *)
(* marks names.                                                            *)
(***************************************************************************)
THEOREM Ext2BlocksOwned == ESpec => []BlocksOwned
  <1>1. EInv => BlocksOwned
    BY OwnedOK
  <1> QED
    BY <1>1, Ext2Invariant, PTL

(***************************************************************************)
(* Every listed name leads to an inode in use, of the entry's type and     *)
(* with no other name; a file's link count is one, a directory's covers    *)
(* its listed subdirectories, and their ".." is the directory.             *)
(***************************************************************************)
THEOREM Ext2NamesSound == ESpec => []NamesSound
  <1>1. EInv => NamesSound
    BY NamesOK
  <1> QED
    BY <1>1, Ext2Invariant, PTL

(***************************************************************************)
(* Until the first reboot the free counts that ext2_alloc_block and        *)
(* ext2_alloc_inode decide by are the clear bits of the bitmaps, through   *)
(* every failure path of every call.                                       *)
(***************************************************************************)
THEOREM Ext2CountsExact == ESpec => []CountsExact
  <1>1. EInv => CountsExact
    BY CountsOK
  <1> QED
    BY <1>1, Ext2Invariant, PTL
=============================================================================
