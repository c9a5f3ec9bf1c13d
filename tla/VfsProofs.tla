----------------------------- MODULE VfsProofs -----------------------------
(***************************************************************************)
(* Proofs about the VFS for every set of names, every number of inodes and *)
(* descriptors, every size of the ring and every depth of path.            *)
(***************************************************************************)
EXTENDS Vfs, SequenceTheorems, FiniteSetTheorems, WellFoundedInduction, TLAPS

----------------------------------------------------------------------------
(* Loops *)

\* A set of numbers that is not empty has a least element.
LEMMA SmallestOf ==
    ASSUME NEW T, T \subseteq Nat, T # {}
    PROVE  \E x \in T : \A y \in T : x <= y
  <1> DEFINE R == OpToRel(<, Nat)
  <1>1. IsWellFoundedOn(R, Nat)
    BY NatLessThanWellFounded
  <1>2. \A x, y \in Nat : y < x => <<y, x>> \in R
    BY DEF OpToRel
  <1> HIDE DEF R
  <1>3. PICK x \in T : \A y \in T : ~(<<y, x>> \in R)
    BY <1>1, WFMin
  <1>4. ASSUME NEW y \in T
        PROVE  x <= y
    <2>1. x \in Nat /\ y \in Nat /\ ~(<<y, x>> \in R)
      BY <1>3
    <2>2. ~(y < x)
      BY <1>2, <2>1
    <2> QED
      BY <2>1, <2>2
  <1> QED
    BY <1>4

\* Induction up to n, for the set of the numbers that have the property.
LEMMA UpTo ==
    ASSUME NEW n \in Nat, NEW Good, 0 \in Good,
           \A k \in 1 .. n : k - 1 \in Good => k \in Good
    PROVE  0 .. n \subseteq Good
  <1> DEFINE Bad == {k \in 0 .. n : k \notin Good}
  <1> SUFFICES ASSUME Bad # {}
               PROVE  FALSE
    OBVIOUS
  <1>1. Bad \subseteq Nat
    OBVIOUS
  <1>2. PICK k \in Bad : \A j \in Bad : k <= j
    <2> HIDE DEF Bad
    <2> QED
      BY <1>1, SmallestOf
  <1>3. k \in 1 .. n /\ k - 1 \in 0 .. n /\ ~(k <= k - 1)
    OBVIOUS
  <1>4. k - 1 \in Good
    BY <1>2, <1>3
  <1> QED
    BY <1>3, <1>4

\* A loop that goes from state to state is a function of the number of its turns.
IsLoop(n, S, a, step) == n \in Nat /\ a \in S /\ step \in [1 .. n -> [S -> S]]

Turns(g, n, S, a, step) ==
    /\ g \in [0 .. n -> S] /\ g[0] = a
    /\ \A b \in 1 .. n : g[b] = step[b][g[b - 1]]

LEMMA LoopExists ==
    ASSUME NEW n, NEW S, NEW a, NEW step, IsLoop(n, S, a, step)
    PROVE  \E g : Turns(g, n, S, a, step)
  <1> USE DEF IsLoop
  <1> DEFINE Run(g, k) == g[0] = a /\ \A b \in 1 .. k : g[b] = step[b][g[b - 1]]
             Good == {k \in 0 .. n : \E g \in [0 .. k -> S] : Run(g, k)}
  <1>1. 0 \in Good
    <2> DEFINE g == [b \in 0 .. 0 |-> a]
    <2>1. g \in [0 .. 0 -> S] /\ Run(g, 0)
      OBVIOUS
    <2> HIDE DEF g, Run
    <2>2. \E f \in [0 .. 0 -> S] : Run(f, 0)
      BY <2>1
    <2> QED
      BY <2>2
  <1>2. ASSUME NEW k \in 1 .. n, k - 1 \in Good
        PROVE  k \in Good
    <2>1. PICK g \in [0 .. k - 1 -> S] : Run(g, k - 1)
      BY <1>2
    <2> DEFINE h == [b \in 0 .. k |-> IF b < k THEN g[b] ELSE step[k][g[k - 1]]]
    <2>2. g[k - 1] \in S /\ step[k][g[k - 1]] \in S
      BY <2>1
    <2>3. h \in [0 .. k -> S]
      BY <2>1, <2>2
    <2>4. h[0] = a
      BY <2>1
    <2>5. ASSUME NEW b \in 1 .. k
          PROVE  h[b] = step[b][h[b - 1]]
      <3>1. h[b - 1] = g[b - 1]
        OBVIOUS
      <3>2. CASE b = k
        BY <3>1, <3>2
      <3>3. CASE b # k
        <4>1. b \in 1 .. k - 1 /\ h[b] = g[b]
          BY <3>3
        <4> QED
          BY <2>1, <3>1, <4>1
      <3> QED
        BY <3>2, <3>3
    <2>6. h \in [0 .. k -> S] /\ Run(h, k)
      BY <2>3, <2>4, <2>5
    <2> HIDE DEF h, Run
    <2>7. \E f \in [0 .. k -> S] : Run(f, k)
      BY <2>6
    <2> QED
      BY <2>7
  <1> HIDE DEF Good
  <1>3. n \in Good
    <2>1. 0 .. n \subseteq Good
      BY <1>1, <1>2, UpTo
    <2> QED
      BY <2>1
  <1> QED
    BY <1>3 DEF Good, Turns

----------------------------------------------------------------------------
(* Sequences *)

\* The place of the first entry that has the property.
LEMMA MinFacts ==
    ASSUME NEW T, T \subseteq Nat, T # {}
    PROVE  Min(T) \in T /\ \A y \in T : Min(T) <= y
  <1>1. \E x \in T : \A y \in T : x <= y
    BY SmallestOf
  <1>2. Min(T) = CHOOSE x \in T : \A y \in T : x <= y
    BY DEF Min
  <1> QED
    BY <1>1, <1>2, Zenon

\* InsertAt puts an element in and moves those behind it.
LEMMA InsertFacts ==
    ASSUME NEW S, NEW s \in Seq(S), NEW e \in S, NEW i \in 1 .. Len(s) + 1
    PROVE  /\ InsertAt(s, i, e) \in Seq(S)
           /\ Len(InsertAt(s, i, e)) = Len(s) + 1
           /\ InsertAt(s, i, e)[i] = e
           /\ \A k \in 1 .. i - 1 : InsertAt(s, i, e)[k] = s[k]
           /\ \A k \in i + 1 .. Len(s) + 1 : InsertAt(s, i, e)[k] = s[k - 1]
  <1> DEFINE a == SubSeq(s, 1, i - 1)
             b == SubSeq(s, i, Len(s))
  <1>1. /\ a \in Seq(S) /\ Len(a) = i - 1 /\ \A k \in 1 .. i - 1 : a[k] = s[k]
        /\ b \in Seq(S) /\ Len(b) = Len(s) - i + 1
        /\ \A k \in 1 .. Len(s) - i + 1 : b[k] = s[i + k - 1]
    BY SubSeqProperties
  <1> HIDE DEF a, b
  <1>2. <<e>> \in Seq(S) /\ Len(<<e>>) = 1 /\ <<e>>[1] = e
    OBVIOUS
  <1>3. /\ a \o <<e>> \in Seq(S) /\ Len(a \o <<e>>) = i
        /\ (a \o <<e>>)[i] = e
        /\ \A k \in 1 .. i - 1 : (a \o <<e>>)[k] = s[k]
    BY <1>1, <1>2, ConcatProperties
  <1> DEFINE c == a \o <<e>>
  <1>4. InsertAt(s, i, e) = c \o b
    BY DEF InsertAt, a, b
  <1>5. c \in Seq(S) /\ Len(c) = i /\ c[i] = e /\ \A k \in 1 .. i - 1 : c[k] = s[k]
    BY <1>3
  <1> HIDE DEF c
  <1>6. /\ c \o b \in Seq(S) /\ Len(c \o b) = i + Len(b)
        /\ \A k \in 1 .. i + Len(b) : (c \o b)[k] = IF k <= i THEN c[k] ELSE b[k - i]
    BY <1>1, <1>5, ConcatProperties
  <1>7. Len(s) \in Nat /\ i + Len(b) = Len(s) + 1
    BY <1>1
  <1>8. ASSUME NEW k \in i + 1 .. Len(s) + 1
        PROVE  (c \o b)[k] = s[k - 1]
    <2>1. k - i \in 1 .. Len(s) - i + 1 /\ i + (k - i) - 1 = k - 1 /\ ~(k <= i)
      BY <1>7
    <2>2. b[k - i] = s[k - 1]
      BY <1>1, <2>1
    <2>3. k \in 1 .. i + Len(b)
      BY <1>7
    <2> QED
      BY <1>6, <2>1, <2>2, <2>3
  <1>9. ASSUME NEW k \in 1 .. i - 1
        PROVE  (c \o b)[k] = s[k]
    BY <1>5, <1>6, <1>7
  <1>10. (c \o b)[i] = e
    BY <1>5, <1>6, <1>7
  <1> QED
    BY <1>4, <1>6, <1>7, <1>8, <1>9, <1>10

\* RemoveAt takes an element out and moves those behind it.
LEMMA RemoveFacts ==
    ASSUME NEW S, NEW s \in Seq(S), NEW i \in 1 .. Len(s)
    PROVE  /\ RemoveAt(s, i) \in Seq(S)
           /\ Len(RemoveAt(s, i)) = Len(s) - 1
           /\ \A k \in 1 .. i - 1 : RemoveAt(s, i)[k] = s[k]
           /\ \A k \in i .. Len(s) - 1 : RemoveAt(s, i)[k] = s[k + 1]
  <1> DEFINE a == SubSeq(s, 1, i - 1)
             b == SubSeq(s, i + 1, Len(s))
  <1>1. /\ a \in Seq(S) /\ Len(a) = i - 1 /\ \A k \in 1 .. i - 1 : a[k] = s[k]
        /\ b \in Seq(S) /\ Len(b) = Len(s) - i
        /\ \A k \in 1 .. Len(s) - i : b[k] = s[i + 1 + k - 1]
    BY SubSeqProperties
  <1> HIDE DEF a, b
  <1>2. RemoveAt(s, i) = a \o b
    BY DEF RemoveAt, a, b
  <1>3. /\ a \o b \in Seq(S) /\ Len(a \o b) = Len(a) + Len(b)
        /\ \A k \in 1 .. Len(a) + Len(b) :
             (a \o b)[k] = IF k <= Len(a) THEN a[k] ELSE b[k - Len(a)]
    BY <1>1, ConcatProperties
  <1>4. Len(s) \in Nat /\ Len(a) + Len(b) = Len(s) - 1
    BY <1>1
  <1>5. ASSUME NEW k \in i .. Len(s) - 1
        PROVE  (a \o b)[k] = s[k + 1]
    <2>1. k - (i - 1) \in 1 .. Len(s) - i /\ i + 1 + (k - (i - 1)) - 1 = k + 1 /\ ~(k <= i - 1)
      BY <1>4
    <2>2. b[k - (i - 1)] = s[k + 1]
      BY <1>1, <2>1
    <2>3. k \in 1 .. Len(a) + Len(b)
      BY <1>4
    <2> QED
      BY <1>1, <1>3, <2>1, <2>2, <2>3
  <1>6. ASSUME NEW k \in 1 .. i - 1
        PROVE  (a \o b)[k] = s[k]
    BY <1>1, <1>3, <1>4
  <1> QED
    BY <1>2, <1>3, <1>4, <1>5, <1>6

----------------------------------------------------------------------------
(* Directories *)

Types   == {"free", "file", "dir"}
Entries == [name : Names, inode : Inodes]
Sizes   == {"whole", "cut", "vague"}
Records == [type : Types, ents : Seq(Entries), seen : Nat, size : Sizes]
Trees   == [Inodes -> Records]

\* The places of the entries of a directory.
At(t, p) == 1 .. Len(t[p].ents)

\* The entries other than the one at place K of P name different inodes.
OnceBut(t, P, K) ==
    \A i, j \in Inodes : \A k \in At(t, i), l \in At(t, j) :
        /\ <<i, k>> # <<P, K>> /\ <<j, l>> # <<P, K>>
        /\ t[i].ents[k].inode = t[j].ents[l].inode
        => i = j /\ k = l

\* A size covers no more than there is, and all of it unless it is vague.
SeenOK(t) ==
    \A i \in Inodes : /\ t[i].seen <= Len(t[i].ents)
                      /\ t[i].size # "vague" => t[i].seen = Len(t[i].ents)

\* Only directories have entries, an entry names an inode in use other than the
\* root, and no inode has two of them.
TreeInv(t) ==
    /\ t \in Trees /\ SeenOK(t)
    /\ t[Root].type = "dir"
    /\ \A i \in Inodes : t[i].type # "dir" => t[i].ents = <<>>
    /\ \A i \in Inodes : \A k \in At(t, i) :
         t[i].ents[k].inode # Root /\ t[t[i].ents[k].inode].type # "free"
    /\ OnceBut(t, 0, 0)

\* What vfs_lookup finds in the tree.
Find(t, p, name) == IF Has(t, p, name) THEN Child(t, p, name) ELSE 0

LEMMA InodeFacts == Inodes \subseteq Nat \ {0} /\ Root \in Inodes /\ NInodes \in Nat
  BY VfsAssumption DEF Inodes, Root

LEMMA TreeFacts ==
    ASSUME NEW t \in Trees, NEW p \in Inodes
    PROVE  /\ t[p].type \in Types /\ t[p].ents \in Seq(Entries) /\ Len(t[p].ents) \in Nat
           /\ \A k \in At(t, p) : t[p].ents[k] \in Entries
                /\ t[p].ents[k].inode \in Inodes /\ t[p].ents[k].name \in Names
           /\ t[p].seen \in Nat /\ t[p].size \in Sizes
  <1>1. /\ t[p].type \in Types /\ t[p].ents \in Seq(Entries)
        /\ t[p].seen \in Nat /\ t[p].size \in Sizes
    BY DEF Trees, Records
  <1>2. Len(t[p].ents) \in Nat /\ \A k \in 1 .. Len(t[p].ents) : t[p].ents[k] \in Entries
    BY <1>1, ElementOfSeq, LenProperties
  <1> QED
    BY <1>1, <1>2 DEF At, Entries

\* Index is the place of the first entry with the name.
LEMMA IndexFacts ==
    ASSUME NEW t \in Trees, NEW p \in Inodes, NEW name
    PROVE  /\ Index(t, p, name) \in 0 .. Len(t[p].ents)
           /\ Index(t, p, name) # 0 =>
                /\ Index(t, p, name) \in At(t, p)
                /\ t[p].ents[Index(t, p, name)].name = name
                /\ \A k \in At(t, p) : t[p].ents[k].name = name => Index(t, p, name) <= k
           /\ Index(t, p, name) = 0 => \A k \in At(t, p) : t[p].ents[k].name # name
  <1> DEFINE I == {k \in 1 .. Len(t[p].ents) : t[p].ents[k].name = name}
  <1>1. Index(t, p, name) = IF I # {} THEN Min(I) ELSE 0
    BY DEF Index, SelectInSeq
  <1>2. Len(t[p].ents) \in Nat
    BY TreeFacts
  <1>3. I \subseteq Nat
    BY <1>2
  <1>4. CASE I = {}
    BY <1>1, <1>2, <1>4 DEF At
  <1>5. CASE I # {}
    <2>1. Min(I) \in I /\ \A k \in I : Min(I) <= k
      <3> HIDE DEF I
      <3> QED
        BY <1>3, <1>5, MinFacts
    <2>2. PICK m : m = Min(I)
      OBVIOUS
    <2>3. m \in I /\ (\A k \in I : m <= k) /\ Index(t, p, name) = m
      BY <1>1, <1>5, <2>1, <2>2
    <2>4. m \in 1 .. Len(t[p].ents) /\ m # 0 /\ t[p].ents[m].name = name
      BY <2>3
    <2>5. \A k \in At(t, p) : t[p].ents[k].name = name => m <= k
      BY <2>3 DEF At
    <2> QED
      BY <2>3, <2>4, <2>5 DEF At
  <1> QED
    BY <1>4, <1>5

\* The first entry of the name, recognised.
LEMMA IndexIs ==
    ASSUME NEW t \in Trees, NEW p \in Inodes, NEW name, NEW m \in At(t, p),
           t[p].ents[m].name = name,
           \A k \in At(t, p) : t[p].ents[k].name = name => m <= k
    PROVE  Index(t, p, name) = m
  <1> DEFINE x == Index(t, p, name)
  <1>1. /\ x \in Nat /\ m \in Nat
        /\ x = 0 => \A k \in At(t, p) : t[p].ents[k].name # name
        /\ x # 0 => /\ x \in At(t, p) /\ t[p].ents[x].name = name
                    /\ \A k \in At(t, p) : t[p].ents[k].name = name => x <= k
    BY IndexFacts, TreeFacts DEF At
  <1> HIDE DEF x
  <1>2. x # 0
    BY <1>1
  <1>3. x <= m /\ m <= x
    BY <1>1, <1>2
  <1>4. x = m
    BY <1>1, <1>3
  <1> QED
    BY <1>4 DEF x

LEMMA FindFacts ==
    ASSUME NEW t \in Trees, NEW p \in Inodes, NEW name
    PROVE  /\ Find(t, p, name) \in Inodes \cup {0}
           /\ Find(t, p, name) # 0 <=> Has(t, p, name)
           /\ Find(t, p, name) # 0 => Find(t, p, name) = Child(t, p, name)
           /\ Has(t, p, name) => \E k \in At(t, p) :
                /\ k = Index(t, p, name) /\ k <= t[p].seen
                /\ t[p].ents[k].name = name /\ t[p].ents[k].inode = Child(t, p, name)
                /\ Child(t, p, name) \in Inodes
  <1>1. ASSUME Has(t, p, name)
        PROVE  \E k \in At(t, p) :
                 /\ k = Index(t, p, name) /\ k <= t[p].seen
                 /\ t[p].ents[k].name = name /\ t[p].ents[k].inode = Child(t, p, name)
                 /\ Child(t, p, name) \in Inodes
    <2>1. Index(t, p, name) # 0 /\ Index(t, p, name) <= t[p].seen
      BY <1>1, TreeFacts DEF Has
    <2>2. Index(t, p, name) \in At(t, p) /\ t[p].ents[Index(t, p, name)].name = name
      BY <2>1, IndexFacts
    <2>3. t[p].ents[Index(t, p, name)].inode \in Inodes
      BY <2>2, TreeFacts
    <2> QED
      BY <2>1, <2>2, <2>3 DEF Child
  <1> QED
    BY <1>1, InodeFacts DEF Find

----------------------------------------------------------------------------
(* Entering and removing a name *)

Put(t, p, r) == [t EXCEPT ![p] = r]

LEMMA RecordPut ==
    ASSUME NEW t \in Trees, NEW p \in Inodes, NEW n \in Seq(Entries), NEW a \in Nat,
           NEW z \in Sizes,
           NEW u, u = Put(t, p, With(t[p], n, a, z))
    PROVE  /\ u \in Trees
           /\ \A j \in Inodes : u[j].type = t[j].type
           /\ \A j \in Inodes : j # p => u[j] = t[j]
           /\ u[p].ents = n /\ u[p].seen = a /\ u[p].size = z
  <1> DEFINE r == With(t[p], n, a, z)
  <1>1. t[p] \in Records
    BY DEF Trees
  <1>2. r \in Records /\ r.type = t[p].type /\ r.ents = n /\ r.seen = a /\ r.size = z
    BY <1>1 DEF Records, With
  <1> HIDE DEF r
  <1>3. u = [t EXCEPT ![p] = r]
    BY DEF r, Put
  <1> QED
    BY <1>2, <1>3 DEF Trees

LEMMA LinkedFacts ==
    ASSUME NEW t \in Trees, NEW p \in Inodes, NEW name \in Names, NEW i \in Inodes,
           NEW place \in Places(t, p), NEW u, u = Linked(t, p, name, i, place)
    PROVE  /\ u \in Trees
           /\ \A j \in Inodes : u[j].type = t[j].type
           /\ \A j \in Inodes : j # p => u[j] = t[j]
           /\ Len(u[p].ents) = Len(t[p].ents) + 1
           /\ u[p].ents[place] = [name |-> name, inode |-> i]
           /\ \A k \in 1 .. place - 1 : u[p].ents[k] = t[p].ents[k]
           /\ \A k \in place + 1 .. Len(t[p].ents) + 1 : u[p].ents[k] = t[p].ents[k - 1]
           /\ u[p].seen = IF place <= t[p].seen + 1 THEN t[p].seen + 1 ELSE t[p].seen
           /\ u[p].size = IF t[p].size = "whole" THEN "whole" ELSE "vague"
  <1> DEFINE e == [name |-> name, inode |-> i]
             s == t[p].ents
             n == InsertAt(s, place, e)
  <1>1. e \in Entries /\ s \in Seq(Entries) /\ place \in 1 .. Len(s) + 1
    BY TreeFacts DEF Entries, Places
  <1> HIDE DEF s, e
  <1>2. /\ n \in Seq(Entries) /\ Len(n) = Len(s) + 1 /\ n[place] = e
        /\ \A k \in 1 .. place - 1 : n[k] = s[k]
        /\ \A k \in place + 1 .. Len(s) + 1 : n[k] = s[k - 1]
    <2>1. PICK b, q : b = e /\ q = s
      OBVIOUS
    <2>2. b \in Entries /\ q \in Seq(Entries) /\ place \in 1 .. Len(q) + 1
      BY <1>1, <2>1
    <2>3. /\ InsertAt(q, place, b) \in Seq(Entries) /\ Len(InsertAt(q, place, b)) = Len(q) + 1
          /\ InsertAt(q, place, b)[place] = b
          /\ \A k \in 1 .. place - 1 : InsertAt(q, place, b)[k] = q[k]
          /\ \A k \in place + 1 .. Len(q) + 1 : InsertAt(q, place, b)[k] = q[k - 1]
      BY ONLY <2>2, InsertFacts
    <2> QED
      BY <2>1, <2>3
  <1> DEFINE a == IF place <= t[p].seen + 1 THEN t[p].seen + 1 ELSE t[p].seen
             z == IF t[p].size = "whole" THEN "whole" ELSE "vague"
  <1>3. u = Put(t, p, With(t[p], n, a, z))
    BY DEF Linked, Put, s, e
  <1>a. n \in Seq(Entries) /\ a \in Nat /\ z \in Sizes
    BY <1>2, TreeFacts DEF Sizes
  <1> HIDE DEF n, a, z
  <1>4. /\ u \in Trees
        /\ \A j \in Inodes : u[j].type = t[j].type
        /\ \A j \in Inodes : j # p => u[j] = t[j]
        /\ u[p].ents = n /\ u[p].seen = a /\ u[p].size = z
    BY <1>3, <1>a, RecordPut
  <1> QED
    BY <1>2, <1>4 DEF s, e, a, z

LEMMA LinkedSize ==
    ASSUME NEW t \in Trees, NEW p \in Inodes, NEW name \in Names, NEW i \in Inodes,
           NEW place \in Places(t, p), NEW u, u = Linked(t, p, name, i, place)
    PROVE  /\ \A j \in Inodes : j # p => u[j] = t[j]
           /\ Len(u[p].ents) = Len(t[p].ents) + 1
           /\ u[p].seen = IF place <= t[p].seen + 1 THEN t[p].seen + 1 ELSE t[p].seen
           /\ u[p].size = IF t[p].size = "whole" THEN "whole" ELSE "vague"
  <1>1. /\ u \in Trees
        /\ \A j \in Inodes : u[j].type = t[j].type
        /\ \A j \in Inodes : j # p => u[j] = t[j]
        /\ Len(u[p].ents) = Len(t[p].ents) + 1
        /\ u[p].ents[place] = [name |-> name, inode |-> i]
        /\ \A k \in 1 .. place - 1 : u[p].ents[k] = t[p].ents[k]
        /\ \A k \in place + 1 .. Len(t[p].ents) + 1 : u[p].ents[k] = t[p].ents[k - 1]
        /\ u[p].seen = IF place <= t[p].seen + 1 THEN t[p].seen + 1 ELSE t[p].seen
        /\ u[p].size = IF t[p].size = "whole" THEN "whole" ELSE "vague"
    BY LinkedFacts
  <1> QED
    BY <1>1

LEMMA UnlinkedFacts ==
    ASSUME NEW t \in Trees, NEW p \in Inodes, NEW name, NEW x \in At(t, p),
           x = Index(t, p, name), x <= t[p].seen, NEW u, u = Unlinked(t, p, name)
    PROVE  /\ u \in Trees
           /\ \A j \in Inodes : u[j].type = t[j].type
           /\ \A j \in Inodes : j # p => u[j] = t[j]
           /\ Len(u[p].ents) = Len(t[p].ents) - 1
           /\ \A k \in 1 .. x - 1 : u[p].ents[k] = t[p].ents[k]
           /\ \A k \in x .. Len(t[p].ents) - 1 : u[p].ents[k] = t[p].ents[k + 1]
           /\ u[p].seen = t[p].seen - 1
           /\ u[p].size = IF x < t[p].seen THEN t[p].size
                          ELSE IF t[p].size = "whole" THEN "cut" ELSE "vague"
  <1> DEFINE s == t[p].ents
             n == RemoveAt(s, x)
             a == t[p].seen - 1
             z == IF x < t[p].seen THEN t[p].size
                  ELSE IF t[p].size = "whole" THEN "cut" ELSE "vague"
  <1>1. s \in Seq(Entries) /\ x \in 1 .. Len(s)
    BY TreeFacts DEF At
  <1> HIDE DEF s
  <1>2. /\ n \in Seq(Entries) /\ Len(n) = Len(s) - 1
        /\ \A k \in 1 .. x - 1 : n[k] = s[k]
        /\ \A k \in x .. Len(s) - 1 : n[k] = s[k + 1]
    BY <1>1, RemoveFacts
  <1>3. u = Put(t, p, With(t[p], n, a, z))
    BY DEF Unlinked, Put, s
  <1>a. a \in Nat /\ z \in Sizes
    BY <1>1, TreeFacts DEF Sizes
  <1> HIDE DEF n, a, z
  <1>4. /\ u \in Trees
        /\ \A j \in Inodes : u[j].type = t[j].type
        /\ \A j \in Inodes : j # p => u[j] = t[j]
        /\ u[p].ents = n /\ u[p].seen = a /\ u[p].size = z
    BY <1>2, <1>3, <1>a, RecordPut
  <1> QED
    BY <1>2, <1>4 DEF s, a, z

\* Directory p of t becomes that of u: the entry at place gone goes, the one at
\* place new comes (0: none), and old says where each of the others was.
Kept(old, t, u, p, new, gone) ==
    /\ old \in [At(u, p) -> Nat]
    /\ \A k \in At(u, p) : k # new =>
         old[k] \in At(t, p) /\ old[k] # gone /\ u[p].ents[k] = t[p].ents[old[k]]
    /\ \A k, l \in At(u, p) : k # new /\ l # new => (k < l <=> old[k] < old[l])
    /\ \A m \in At(t, p) : m # gone => \E k \in At(u, p) : k # new /\ old[k] = m
    /\ \A k \in At(u, p) : k # new => (k <= u[p].seen <=> old[k] <= t[p].seen)

\* Nothing else changes.
SameBut(t, u, p) ==
    /\ u \in Trees
    /\ \A j \in Inodes : u[j].type = t[j].type
    /\ \A j \in Inodes : j # p => u[j] = t[j]

LEMMA LinkedPlaces ==
    ASSUME NEW t \in Trees, NEW p \in Inodes, NEW name \in Names, NEW i \in Inodes,
           NEW place \in Places(t, p), NEW u, u = Linked(t, p, name, i, place)
    PROVE  /\ SameBut(t, u, p) /\ place \in At(u, p)
           /\ u[p].ents[place] = [name |-> name, inode |-> i]
           /\ \E old : Kept(old, t, u, p, place, 0)
  <1> DEFINE s == t[p].ents
             L == Len(s)
             n == u[p].ents
             old == [k \in At(u, p) |-> IF k < place THEN k ELSE k - 1]
  <1>1. /\ u \in Trees
        /\ \A j \in Inodes : u[j].type = t[j].type
        /\ \A j \in Inodes : j # p => u[j] = t[j]
        /\ Len(n) = L + 1
        /\ n[place] = [name |-> name, inode |-> i]
        /\ \A k \in 1 .. place - 1 : n[k] = s[k]
        /\ \A k \in place + 1 .. L + 1 : n[k] = s[k - 1]
        /\ u[p].seen = IF place <= t[p].seen + 1 THEN t[p].seen + 1 ELSE t[p].seen
    BY LinkedFacts
  <1>2. L \in Nat /\ place \in 1 .. L + 1 /\ At(t, p) = 1 .. L /\ At(u, p) = 1 .. L + 1
    BY <1>1, TreeFacts DEF Places, At
  <1> HIDE DEF s, n, L
  <1>3. old \in [At(u, p) -> Nat]
    BY <1>2
  <1>4. ASSUME NEW k \in At(u, p), k # place
        PROVE  old[k] \in At(t, p) /\ old[k] # 0 /\ n[k] = s[old[k]]
    <2>1. CASE k < place
      BY <1>1, <1>2, <2>1
    <2>2. CASE k > place
      BY <1>1, <1>2, <2>2
    <2> QED
      BY <1>2, <1>4, <2>1, <2>2
  <1>5. ASSUME NEW k \in At(u, p), NEW l \in At(u, p), k # place, l # place
        PROVE  k < l <=> old[k] < old[l]
    BY <1>2, <1>5
  <1>6. ASSUME NEW m \in At(t, p)
        PROVE  \E k \in At(u, p) : k # place /\ old[k] = m
    <2>1. CASE m < place
      <3>1. m \in At(u, p) /\ m # place /\ old[m] = m
        BY <1>2, <2>1
      <3> QED
        BY <3>1
    <2>2. CASE m >= place
      <3>1. m + 1 \in At(u, p) /\ m + 1 # place /\ old[m + 1] = m
        BY <1>2, <2>2
      <3> QED
        BY <3>1
    <2> QED
      BY <1>2, <2>1, <2>2
  <1>a. ASSUME NEW k \in At(u, p), k # place
        PROVE  k <= u[p].seen <=> old[k] <= t[p].seen
    <2>1. t[p].seen \in Nat
      BY TreeFacts
    <2> QED
      BY <1>1, <1>2, <1>a, <2>1
  <1> HIDE DEF old
  <1>7. Kept(old, t, u, p, place, 0)
    BY <1>3, <1>4, <1>5, <1>6, <1>a DEF Kept, n, s
  <1>8. SameBut(t, u, p)
    BY <1>1 DEF SameBut
  <1> QED
    BY <1>1, <1>2, <1>7, <1>8 DEF n

LEMMA UnlinkedPlaces ==
    ASSUME NEW t \in Trees, NEW p \in Inodes, NEW name, NEW x \in At(t, p),
           x = Index(t, p, name), x <= t[p].seen, NEW u, u = Unlinked(t, p, name)
    PROVE  /\ SameBut(t, u, p) /\ t[p].ents[x].name = name
           /\ \E old : Kept(old, t, u, p, 0, x)
  <1> DEFINE s == t[p].ents
             L == Len(s)
             n == u[p].ents
             old == [k \in At(u, p) |-> IF k < x THEN k ELSE k + 1]
  <1>1. /\ u \in Trees
        /\ \A j \in Inodes : u[j].type = t[j].type
        /\ \A j \in Inodes : j # p => u[j] = t[j]
        /\ Len(n) = L - 1
        /\ \A k \in 1 .. x - 1 : n[k] = s[k]
        /\ \A k \in x .. L - 1 : n[k] = s[k + 1]
        /\ u[p].seen = t[p].seen - 1
    BY UnlinkedFacts
  <1>2. L \in Nat /\ x \in 1 .. L /\ At(t, p) = 1 .. L /\ At(u, p) = 1 .. L - 1
    BY <1>1, TreeFacts DEF At
  <1> HIDE DEF s, n, L
  <1>3. old \in [At(u, p) -> Nat]
    BY <1>2
  <1>4. ASSUME NEW k \in At(u, p)
        PROVE  old[k] \in At(t, p) /\ old[k] # x /\ n[k] = s[old[k]]
    <2>1. CASE k < x
      BY <1>1, <1>2, <2>1
    <2>2. CASE k >= x
      BY <1>1, <1>2, <2>2
    <2> QED
      BY <1>2, <2>1, <2>2
  <1>5. ASSUME NEW k \in At(u, p), NEW l \in At(u, p)
        PROVE  k < l <=> old[k] < old[l]
    BY <1>2
  <1>6. ASSUME NEW m \in At(t, p), m # x
        PROVE  \E k \in At(u, p) : old[k] = m
    <2>1. CASE m < x
      <3>1. m \in At(u, p) /\ old[m] = m
        BY <1>2, <2>1
      <3> QED
        BY <3>1
    <2>2. CASE m > x
      <3>1. m - 1 \in At(u, p) /\ old[m - 1] = m
        BY <1>2, <2>2
      <3> QED
        BY <3>1
    <2> QED
      BY <1>2, <1>6, <2>1, <2>2
  <1>a. ASSUME NEW k \in At(u, p)
        PROVE  k <= u[p].seen <=> old[k] <= t[p].seen
    <2>1. t[p].seen \in Nat
      BY TreeFacts
    <2> QED
      BY <1>1, <1>2, <2>1
  <1> HIDE DEF old
  <1>7. \A k \in At(u, p) : k # 0
    BY <1>2
  <1>8. Kept(old, t, u, p, 0, x)
    BY <1>3, <1>4, <1>5, <1>6, <1>7, <1>a DEF Kept, n, s
  <1>9. SameBut(t, u, p)
    BY <1>1 DEF SameBut
  <1>10. x # 0
    BY <1>2
  <1>11. t[p].ents[x].name = name
    BY <1>10, IndexFacts
  <1> QED
    BY <1>8, <1>9, <1>11

\* A name is found as before if its entries stay.
LEMMA KeptFind ==
    ASSUME NEW t \in Trees, NEW u, NEW p \in Inodes, NEW old, NEW new, NEW gone,
           SameBut(t, u, p), Kept(old, t, u, p, new, gone), NEW n,
           new \in At(u, p) => u[p].ents[new].name # n,
           gone \in At(t, p) => t[p].ents[gone].name # n
    PROVE  Find(u, p, n) = Find(t, p, n)
  <1>0. /\ u \in Trees /\ u[p].type = t[p].type
        /\ \A k \in At(u, p) : k \in Nat \ {0}
        /\ \A k \in At(t, p) : k \in Nat \ {0}
    BY TreeFacts DEF At, SameBut
  <1>1. CASE Index(t, p, n) = 0
    <2>1. \A k \in At(t, p) : t[p].ents[k].name # n
      BY <1>1, IndexFacts
    <2>2. \A k \in At(u, p) : u[p].ents[k].name # n
      BY <2>1 DEF Kept
    <2>3. Index(u, p, n) = 0
      BY <1>0, <2>2, IndexFacts
    <2>4. ~Has(u, p, n) /\ ~Has(t, p, n)
      BY <1>1, <2>3 DEF Has
    <2> QED
      BY <2>4 DEF Find
  <1>2. CASE Index(t, p, n) # 0
    <2> DEFINE m == Index(t, p, n)
    <2>1. /\ m \in At(t, p) /\ t[p].ents[m].name = n
          /\ \A k \in At(t, p) : t[p].ents[k].name = n => m <= k
      BY <1>2, IndexFacts
    <2> HIDE DEF m
    <2>2. PICK k \in At(u, p) : k # new /\ old[k] = m
      BY <2>1 DEF Kept
    <2>3. u[p].ents[k] = t[p].ents[m]
      BY <2>2 DEF Kept
    <2>4. ASSUME NEW l \in At(u, p), u[p].ents[l].name = n
          PROVE  k <= l
      <3>1. l # new
        BY <2>4
      <3>2. m <= old[l] /\ old[l] \in At(t, p)
        BY <2>1, <2>4, <3>1 DEF Kept
      <3>3. ~(old[l] < old[k])
        BY <1>0, <2>1, <2>2, <3>2
      <3>4. ~(l < k)
        BY <2>2, <3>1, <3>3 DEF Kept
      <3> QED
        BY <1>0, <3>4
    <2>5. u[p].ents[k].name = n
      BY <2>1, <2>3
    <2>6. Index(u, p, n) = k
      BY <1>0, <2>4, <2>5, IndexIs
    <2>7. Child(u, p, n) = Child(t, p, n)
      BY <2>3, <2>6 DEF Child, m
    <2>8. k <= u[p].seen <=> m <= t[p].seen
      BY <2>2 DEF Kept
    <2>9. k \in 1 .. u[p].seen <=> m \in 1 .. t[p].seen
      BY <1>0, <2>1, <2>8, TreeFacts
    <2>10. Has(u, p, n) <=> Has(t, p, n)
      BY <1>0, <2>6, <2>9 DEF Has, m
    <2> QED
      BY <2>7, <2>10 DEF Find
  <1> QED
    BY <1>1, <1>2

LEMMA SameFind ==
    ASSUME NEW t \in Trees, NEW u, NEW p \in Inodes, SameBut(t, u, p),
           NEW j \in Inodes, j # p, NEW n
    PROVE  Find(u, j, n) = Find(t, j, n)
  <1>1. u[j] = t[j]
    BY DEF SameBut
  <1> QED
    BY <1>1 DEF Find, Has, Child, Index

\* A new name does not hide another one, and is found if it was not there before.
LEMMA LinkedFind ==
    ASSUME NEW t \in Trees, NEW p \in Inodes, NEW name \in Names, NEW i \in Inodes,
           NEW place \in Places(t, p), NEW u, u = Linked(t, p, name, i, place)
    PROVE  /\ \A j \in Inodes : \A n : j # p \/ n # name => Find(u, j, n) = Find(t, j, n)
           /\ t[p].type = "dir" /\ Index(t, p, name) = 0 /\ place <= t[p].seen + 1 =>
                Find(u, p, name) = i
  <1>1. /\ SameBut(t, u, p) /\ place \in At(u, p)
        /\ u[p].ents[place] = [name |-> name, inode |-> i]
        /\ \E old : Kept(old, t, u, p, place, 0)
    BY LinkedPlaces
  <1>2. PICK old : Kept(old, t, u, p, place, 0)
    BY <1>1
  <1>0. /\ u \in Trees /\ \A k \in At(u, p) : k \in Nat \ {0}
        /\ \A k \in At(t, p) : k \in Nat \ {0}
    BY <1>1, TreeFacts DEF At, SameBut
  <1>3. u[p].ents[place].name = name /\ u[p].ents[place].inode = i
    BY <1>1
  <1>4. ASSUME NEW n, n # name
        PROVE  Find(u, p, n) = Find(t, p, n)
    BY <1>0, <1>1, <1>2, <1>3, <1>4, KeptFind
  <1>5. ASSUME t[p].type = "dir", Index(t, p, name) = 0, place <= t[p].seen + 1
        PROVE  Find(u, p, name) = i
    <2>1. \A k \in At(t, p) : t[p].ents[k].name # name
      BY <1>5, IndexFacts
    <2>2. ASSUME NEW l \in At(u, p), u[p].ents[l].name = name
          PROVE  place <= l
      <3>1. l = place
        BY <1>2, <2>1, <2>2 DEF Kept
      <3> QED
        BY <1>0, <3>1
    <2>3. Index(u, p, name) = place
      BY <1>0, <1>1, <1>3, <2>2, IndexIs
    <2>4. place \in Nat \ {0} /\ u[p].type = "dir"
      BY <1>0, <1>1, <1>5 DEF SameBut
    <2>5. u[p].seen = t[p].seen + 1 /\ t[p].seen \in Nat
      <3>1. u[p].seen = IF place <= t[p].seen + 1 THEN t[p].seen + 1 ELSE t[p].seen
      BY LinkedSize
    <3> QED
      BY <1>5, <3>1, TreeFacts
    <2>6. place \in 1 .. u[p].seen
      BY <1>5, <2>4, <2>5
    <2> QED
      BY <1>3, <2>3, <2>4, <2>6 DEF Find, Has, Child
  <1> QED
    BY <1>1, <1>4, <1>5, SameFind

\* Removing a name does not hide another one.
LEMMA UnlinkedFind ==
    ASSUME NEW t \in Trees, NEW p \in Inodes, NEW name, NEW x \in At(t, p),
           x = Index(t, p, name), x <= t[p].seen, NEW u, u = Unlinked(t, p, name)
    PROVE  \A j \in Inodes : \A n : j # p \/ n # name => Find(u, j, n) = Find(t, j, n)
  <1>1. /\ SameBut(t, u, p) /\ t[p].ents[x].name = name
        /\ \E old : Kept(old, t, u, p, 0, x)
    BY UnlinkedPlaces
  <1>2. PICK old : Kept(old, t, u, p, 0, x)
    BY <1>1
  <1>0. 0 \notin At(u, p)
    BY DEF At
  <1>3. ASSUME NEW n, n # name
        PROVE  Find(u, p, n) = Find(t, p, n)
    BY <1>0, <1>1, <1>2, <1>3, KeptFind
  <1> QED
    BY <1>1, <1>3, SameFind

\* What the size covers is right until the next of the two.
LEMMA LinkedSeen ==
    ASSUME NEW t \in Trees, SeenOK(t), NEW p \in Inodes, NEW name \in Names, NEW i \in Inodes,
           NEW place \in Places(t, p), NEW u, u = Linked(t, p, name, i, place)
    PROVE  SeenOK(u)
  <1>1. /\ \A j \in Inodes : j # p => u[j] = t[j]
        /\ Len(u[p].ents) = Len(t[p].ents) + 1
        /\ u[p].seen = IF place <= t[p].seen + 1 THEN t[p].seen + 1 ELSE t[p].seen
        /\ u[p].size = IF t[p].size = "whole" THEN "whole" ELSE "vague"
    BY LinkedSize
  <1>2. /\ t[p].seen \in Nat /\ Len(t[p].ents) \in Nat /\ place \in 1 .. Len(t[p].ents) + 1
        /\ t[p].seen <= Len(t[p].ents) /\ (t[p].size # "vague" => t[p].seen = Len(t[p].ents))
    BY TreeFacts DEF Places, SeenOK
  <1>3. /\ u[p].seen <= Len(u[p].ents)
        /\ u[p].size # "vague" => u[p].seen = Len(u[p].ents)
    BY <1>1, <1>2
  <1> QED
    BY <1>1, <1>3 DEF SeenOK

LEMMA UnlinkedSeen ==
    ASSUME NEW t \in Trees, SeenOK(t), NEW p \in Inodes, NEW name, NEW x \in At(t, p),
           x = Index(t, p, name), x <= t[p].seen, NEW u, u = Unlinked(t, p, name)
    PROVE  SeenOK(u)
  <1>1. /\ \A j \in Inodes : j # p => u[j] = t[j]
        /\ Len(u[p].ents) = Len(t[p].ents) - 1
        /\ u[p].seen = t[p].seen - 1
        /\ u[p].size = IF x < t[p].seen THEN t[p].size
                       ELSE IF t[p].size = "whole" THEN "cut" ELSE "vague"
    BY UnlinkedFacts
  <1>2. /\ t[p].seen \in Nat /\ Len(t[p].ents) \in Nat
        /\ t[p].seen <= Len(t[p].ents) /\ (t[p].size # "vague" => t[p].seen = Len(t[p].ents))
    BY TreeFacts DEF SeenOK
  <1>3. /\ u[p].seen <= Len(u[p].ents)
        /\ u[p].size # "vague" => u[p].seen = Len(u[p].ents)
    BY <1>1, <1>2
  <1> QED
    BY <1>1, <1>3 DEF SeenOK

\* Entries that name different inodes still do.
LEMMA KeptOnce ==
    ASSUME NEW t \in Trees, NEW u, NEW p \in Inodes, NEW old, NEW new, NEW gone,
           SameBut(t, u, p), Kept(old, t, u, p, new, gone), OnceBut(t, p, gone)
    PROVE  OnceBut(u, p, new)
  <1>0. /\ \A k \in At(u, p) : k \in Nat
        /\ \A k \in At(t, p) : k \in Nat
    BY TreeFacts DEF At, SameBut
  <1> DEFINE Was(i, k) == IF i = p THEN old[k] ELSE k
  <1>1. ASSUME NEW i \in Inodes, NEW k \in At(u, i), <<i, k>> # <<p, new>>
        PROVE  /\ Was(i, k) \in At(t, i) /\ <<i, Was(i, k)>> # <<p, gone>>
               /\ u[i].ents[k] = t[i].ents[Was(i, k)]
    BY <1>1 DEF Kept, SameBut, At
  <1>2. ASSUME NEW k \in At(u, p), NEW l \in At(u, p), k # new, l # new, old[k] = old[l]
        PROVE  k = l
    <2>1. old[k] \in Nat /\ old[l] \in Nat
      BY <1>0, <1>2 DEF Kept
    <2>2. ~(old[k] < old[l]) /\ ~(old[l] < old[k])
      BY <1>2, <2>1
    <2>3. ~(k < l) /\ ~(l < k)
      BY <1>2, <2>2 DEF Kept
    <2> QED
      BY <1>0, <2>3
  <1>3. ASSUME NEW i \in Inodes, NEW j \in Inodes, NEW k \in At(u, i), NEW l \in At(u, j),
               <<i, k>> # <<p, new>>, <<j, l>> # <<p, new>>,
               u[i].ents[k].inode = u[j].ents[l].inode
        PROVE  i = j /\ k = l
    <2>1. /\ Was(i, k) \in At(t, i) /\ <<i, Was(i, k)>> # <<p, gone>>
          /\ Was(j, l) \in At(t, j) /\ <<j, Was(j, l)>> # <<p, gone>>
          /\ t[i].ents[Was(i, k)].inode = t[j].ents[Was(j, l)].inode
      BY <1>1, <1>3
    <2>2. i = j /\ Was(i, k) = Was(j, l)
      <3> HIDE DEF Was
      <3> QED
        BY <2>1 DEF OnceBut
    <2> QED
      BY <1>2, <1>3, <2>2
  <1> QED
    BY <1>3 DEF OnceBut

----------------------------------------------------------------------------
(* What is below an inode *)

Closed(t, S) == \A j \in S : \A k \in At(t, j) : t[j].ents[k].inode \in S

\* One more level.
Deeper(t, S) == S \cup {e.inode : e \in UNION {ToSet(t[j].ents) : j \in S}}

LEMMA DeeperFacts ==
    ASSUME NEW t \in Trees, NEW S \in SUBSET Inodes
    PROVE  /\ Deeper(t, S) \in SUBSET Inodes /\ S \subseteq Deeper(t, S)
           /\ Closed(t, S) <=> Deeper(t, S) = S
           /\ \A T : S \subseteq T /\ Closed(t, T) => Deeper(t, S) \subseteq T
  <1>1. ASSUME NEW j \in S
        PROVE  ToSet(t[j].ents) = {t[j].ents[k] : k \in At(t, j)}
    <2>1. t[j].ents \in Seq(Entries)
      BY TreeFacts
    <2>2. DOMAIN t[j].ents = 1 .. Len(t[j].ents)
      BY <2>1, LenProperties
    <2> QED
      BY <2>2 DEF ToSet, At
  <1>2. \A x : x \in Deeper(t, S) <=>
                 x \in S \/ \E j \in S : \E k \in At(t, j) : x = t[j].ents[k].inode
    <2> DEFINE U == UNION {ToSet(t[j].ents) : j \in S}
    <2>1. \A e : e \in U <=> \E j \in S : e \in ToSet(t[j].ents)
      OBVIOUS
    <2>2. \A j \in S : \A e : e \in ToSet(t[j].ents) <=> \E k \in At(t, j) : e = t[j].ents[k]
      BY <1>1
    <2>3. \A e : e \in U <=> \E j \in S : \E k \in At(t, j) : e = t[j].ents[k]
      <3> HIDE DEF U
      <3> SUFFICES ASSUME NEW e
                   PROVE  e \in U <=> \E j \in S : \E k \in At(t, j) : e = t[j].ents[k]
        OBVIOUS
      <3>1. e \in U <=> \E j \in S : e \in ToSet(t[j].ents)
        BY <2>1
      <3>2. \A j \in S : e \in ToSet(t[j].ents) <=> \E k \in At(t, j) : e = t[j].ents[k]
        BY <2>2
      <3> HIDE DEF ToSet, At
      <3> QED
        BY <3>1, <3>2
    <2>4. Deeper(t, S) = S \cup {e.inode : e \in U}
      BY DEF Deeper
    <2> HIDE DEF U
    <2> QED
      BY <2>3, <2>4
  <1>3. \A j \in S : \A k \in At(t, j) : t[j].ents[k].inode \in Inodes
    BY TreeFacts
  <1> QED
    BY <1>2, <1>3 DEF Closed

\* The levels of Below.
LEMMA BelowTurns ==
    ASSUME NEW t \in Trees, NEW i \in Inodes
    PROVE  \E g \in [0 .. NInodes -> SUBSET Inodes] :
             /\ g[0] = {i}
             /\ \A k \in 1 .. NInodes : g[k] = Deeper(t, g[k - 1])
             /\ Below(t, i) = g[NInodes]
  <1> DEFINE step == [k \in 1 .. NInodes |-> [S \in SUBSET Inodes |-> Deeper(t, S)]]
             P(g) == g = [k \in 0 .. NInodes |->
                            IF k = 0 THEN {i} ELSE Deeper(t, g[k - 1])]
  <1>1. NInodes \in Nat
    BY VfsAssumption
  <1>2. {i} \in SUBSET Inodes
    OBVIOUS
  <1>3. \A S \in SUBSET Inodes : Deeper(t, S) \in SUBSET Inodes
    BY DeeperFacts
  <1>4. step \in [1 .. NInodes -> [SUBSET Inodes -> SUBSET Inodes]]
    BY <1>3
  <1>5. IsLoop(NInodes, SUBSET Inodes, {i}, step)
    BY <1>1, <1>2, <1>4 DEF IsLoop
  <1>6. PICK g : Turns(g, NInodes, SUBSET Inodes, {i}, step)
    <2> HIDE DEF step
    <2> QED
      BY <1>5, LoopExists
  <1>7. /\ g \in [0 .. NInodes -> SUBSET Inodes] /\ g[0] = {i}
        /\ \A k \in 1 .. NInodes : g[k] = step[k][g[k - 1]]
    BY <1>6 DEF Turns
  <1>8. ASSUME NEW k \in 1 .. NInodes
        PROVE  g[k] = Deeper(t, g[k - 1])
    <2>1. g[k - 1] \in SUBSET Inodes
      BY <1>1, <1>7
    <2> QED
      BY <1>7, <2>1
  <1>9. P(g)
    <2>1. \A k \in 0 .. NInodes : k = 0 \/ k \in 1 .. NInodes
      BY <1>1
    <2>2. \A k \in 0 .. NInodes : g[k] = IF k = 0 THEN {i} ELSE Deeper(t, g[k - 1])
      BY <1>7, <1>8, <2>1
    <2> QED
      BY <1>7, <2>2
  <1> DEFINE G == CHOOSE f : P(f)
  <1>10. P(G)
    BY <1>9, Zenon
  <1>11. Below(t, i) = G[NInodes]
    BY DEF Below, Deeper
  <1> HIDE DEF G
  <1>a. \A k \in 0 .. NInodes : G[k] = IF k = 0 THEN {i} ELSE Deeper(t, G[k - 1])
    BY <1>10, Zenon
  <1>b. 0 \in 0 .. NInodes /\ \A k \in 1 .. NInodes : k \in 0 .. NInodes /\ k # 0
    BY <1>1
  <1>12. G[0] = {i} /\ \A k \in 1 .. NInodes : G[k] = Deeper(t, G[k - 1])
    BY <1>a, <1>b, Zenon
  <1>13. G \in [0 .. NInodes -> SUBSET Inodes]
    <2> DEFINE Good == {k \in 0 .. NInodes : G[k] \in SUBSET Inodes}
    <2>1. 0 \in Good
      BY <1>1, <1>12
    <2>2. ASSUME NEW k \in 1 .. NInodes, k - 1 \in Good
          PROVE  k \in Good
      <3>1. G[k - 1] \in SUBSET Inodes
        BY <2>2
      <3>2. Deeper(t, G[k - 1]) \in SUBSET Inodes
        BY <3>1, <1>3
      <3> QED
        BY <1>12, <3>2
    <2> HIDE DEF Good
    <2>3. 0 .. NInodes \subseteq Good
      BY <1>1, <2>1, <2>2, UpTo
    <2>4. \A k \in 0 .. NInodes : G[k] \in SUBSET Inodes
      BY <2>3 DEF Good
    <2> QED
      BY <1>10, <2>4
  <1> QED
    BY <1>11, <1>12, <1>13

\* Below is the least set that holds i and whatever its members have entries of:
\* after as many levels as there are inodes nothing is left to add.
LEMMA BelowFacts ==
    ASSUME NEW t \in Trees, NEW i \in Inodes
    PROVE  /\ Below(t, i) \in SUBSET Inodes /\ i \in Below(t, i)
           /\ Closed(t, Below(t, i))
           /\ \A S : i \in S /\ Closed(t, S) => Below(t, i) \subseteq S
  <1>0. NInodes \in Nat /\ IsFiniteSet(Inodes) /\ Cardinality(Inodes) = NInodes
    <2>1. NInodes \in Nat \ {0}
      BY VfsAssumption
    <2>2. IsFiniteSet(1 .. NInodes) /\ Cardinality(1 .. NInodes) = NInodes
      BY <2>1, FS_Interval
    <2> QED
      BY <2>1, <2>2 DEF Inodes
  <1>1. PICK g \in [0 .. NInodes -> SUBSET Inodes] :
             /\ g[0] = {i}
             /\ \A k \in 1 .. NInodes : g[k] = Deeper(t, g[k - 1])
             /\ Below(t, i) = g[NInodes]
    BY BelowTurns
  <1>2. \A k \in 1 .. NInodes : g[k - 1] \in SUBSET Inodes /\ g[k] \in SUBSET Inodes
    BY <1>0
  <1>3. i \in Below(t, i)
    <2> DEFINE Good == {k \in 0 .. NInodes : i \in g[k]}
    <2>1. 0 \in Good
      BY <1>0, <1>1
    <2>2. \A k \in 1 .. NInodes : k - 1 \in Good => k \in Good
      BY <1>1, <1>2, DeeperFacts
    <2> HIDE DEF Good
    <2>3. 0 .. NInodes \subseteq Good
      BY <1>0, <2>1, <2>2, UpTo
    <2>4. NInodes \in Good
      BY <1>0, <2>3
    <2> QED
      BY <1>1, <2>4 DEF Good
  <1>4. ASSUME NEW S, i \in S, Closed(t, S)
        PROVE  Below(t, i) \subseteq S
    <2> DEFINE Good == {k \in 0 .. NInodes : g[k] \subseteq S}
    <2>1. 0 \in Good
      BY <1>0, <1>1, <1>4
    <2>2. ASSUME NEW k \in 1 .. NInodes, k - 1 \in Good
          PROVE  k \in Good
      <3>1. g[k - 1] \subseteq S
        BY <2>2
      <3>2. Deeper(t, g[k - 1]) \subseteq S
        BY <1>2, <1>4, <3>1, DeeperFacts
      <3> QED
        BY <1>1, <3>2
    <2> HIDE DEF Good
    <2>3. 0 .. NInodes \subseteq Good
      BY <1>0, <2>1, <2>2, UpTo
    <2>4. NInodes \in Good
      BY <1>0, <2>3
    <2> QED
      BY <1>1, <2>4 DEF Good
  <1>5. Closed(t, Below(t, i))
    <2> DEFINE Big(S, k) == IsFiniteSet(S) /\ Cardinality(S) \in Nat /\ Cardinality(S) >= k + 1
               Good == {k \in 0 .. NInodes : Closed(t, g[k]) \/ Big(g[k], k)}
    <2>1. 0 \in Good
      <3>1. IsFiniteSet({i}) /\ Cardinality({i}) = 1
        BY FS_Singleton
      <3>2. Big(g[0], 0)
        BY <1>1, <3>1
      <3> QED
        BY <1>0, <3>2
    <2>2. ASSUME NEW k \in 1 .. NInodes, k - 1 \in Good
          PROVE  k \in Good
      <3> DEFINE S == g[k - 1]
                 T == g[k]
      <3>1. S \in SUBSET Inodes /\ T \in SUBSET Inodes /\ T = Deeper(t, S) /\ S \subseteq T
            /\ (Closed(t, S) <=> T = S) /\ k \in Nat
        BY <1>1, <1>2, DeeperFacts
      <3>2. Closed(t, S) \/ Big(S, k - 1)
        BY <2>2
      <3> HIDE DEF S, T
      <3>3. CASE Closed(t, S)
        <4>1. Closed(t, T)
          BY <3>1, <3>3
        <4> QED
          BY <4>1 DEF T
      <3>4. CASE ~Closed(t, S)
        <4>1. IsFiniteSet(T)
          BY <1>0, <3>1, FS_Subset
        <4>2. /\ Cardinality(S) <= Cardinality(T)
              /\ Cardinality(T) = Cardinality(S) => T = S
          BY <3>1, <4>1, FS_Subset
        <4>3. Cardinality(T) \in Nat /\ Cardinality(S) \in Nat /\ Cardinality(S) >= k
          BY <3>1, <3>2, <3>4, <4>1, FS_CardinalityType
        <4>4. Big(T, k)
          BY <3>1, <3>4, <4>1, <4>2, <4>3
        <4> QED
          BY <4>4 DEF T
      <3> QED
        BY <3>3, <3>4
    <2>3. NInodes \in Good
      <3> HIDE DEF Good
      <3>1. 0 .. NInodes \subseteq Good
        BY <1>0, <2>1, <2>2, UpTo
      <3> QED
        BY <1>0, <3>1
    <2>4. ~Big(g[NInodes], NInodes)
      <3>1. g[NInodes] \in SUBSET Inodes
        BY <1>0
      <3>2. Cardinality(g[NInodes]) <= NInodes
        BY <1>0, <3>1, FS_Subset
      <3> QED
        BY <1>0, <3>2
    <2> QED
      BY <1>1, <2>3, <2>4
  <1>6. Below(t, i) \in SUBSET Inodes
    BY <1>0, <1>1
  <1> QED
    BY <1>3, <1>4, <1>5, <1>6

----------------------------------------------------------------------------
(* Creating, removing and renaming keep the tree a tree *)

Named(t) == \A i \in Inodes : t[i].type # "free" => i \in Below(t, Root)

\* What a change keeps: the tree is one, and all is named, or all but what a
\* directory that goes did not list.
Grows(t, u) == TreeInv(u) /\ (Named(t) => Named(u))

GrowsBut(t, u) == TreeInv(u) /\ (Named(t) /\ ~Drops(t, u) => Named(u))

\* Place 0 of any directory is no place.
LEMMA OnceNone ==
    ASSUME NEW t \in Trees, NEW p
    PROVE  OnceBut(t, p, 0) <=> OnceBut(t, 0, 0)
  <1>1. \A i \in Inodes : \A k \in At(t, i) : k # 0
    BY TreeFacts DEF At
  <1> QED
    BY <1>1 DEF OnceBut

\* The entries that stay, whatever their place.
LEMMA KeptEntries ==
    ASSUME NEW t \in Trees, NEW u, NEW p \in Inodes, NEW old, NEW new, NEW gone,
           SameBut(t, u, p), Kept(old, t, u, p, new, gone), NEW j \in Inodes
    PROVE  /\ \A k \in At(u, j) : <<j, k>> # <<p, new>> =>
                \E l \in At(t, j) : <<j, l>> # <<p, gone>> /\ u[j].ents[k] = t[j].ents[l]
           /\ \A l \in At(t, j) : <<j, l>> # <<p, gone>> =>
                \E k \in At(u, j) : <<j, k>> # <<p, new>> /\ u[j].ents[k] = t[j].ents[l]
  <1>1. CASE j = p
    BY <1>1 DEF Kept
  <1>2. CASE j # p
    BY <1>2 DEF SameBut, At
  <1> QED
    BY <1>1, <1>2

\* What may be said of an entry whatever its place.
Sound(t, e) == e.inode # Root /\ t[e.inode].type # "free"

LEMMA CreatedKept ==
    ASSUME NEW t, TreeInv(t), NEW p \in Inodes, Creatable(t, p), NEW name \in Names,
           NEW type \in {"file", "dir"}, NEW place \in Places(t, p),
           NEW u, u = Created(t, p, name, type, place)
    PROVE  Grows(t, u)
  <1> DEFINE i == Min(FreeInodes(t))
             v == [t EXCEPT ![i] = Empty(type)]
  <1>1. i \in FreeInodes(t)
    <2>1. FreeInodes(t) \subseteq Nat /\ FreeInodes(t) # {}
      BY InodeFacts DEF Creatable, FreeInodes
    <2> QED
      BY <2>1, MinFacts
  <1>2. u = Linked(v, p, name, i, place)
    BY DEF Created
  <1> HIDE DEF i
  <1>3. /\ t \in Trees /\ i \in Inodes /\ t[i].type = "free" /\ t[i].ents = <<>>
        /\ t[p].type = "dir" /\ t[Root].type = "dir" /\ i # p /\ i # Root
    BY <1>1, InodeFacts DEF FreeInodes, TreeInv, Creatable
  <1>4. Empty(type) = [type |-> type, ents |-> <<>>, seen |-> 0, size |-> "whole"]
    BY DEF Empty, Free
  <1>5. /\ v \in Trees /\ v[i].type = type /\ v[i].ents = <<>>
        /\ v[i].seen = 0 /\ v[i].size = "whole"
        /\ \A j \in Inodes : j # i => v[j] = t[j]
    <2>1. Empty(type) \in Records
      BY <1>4 DEF Types, Sizes, Records
    <2>2. v \in [Inodes -> Records]
      BY <1>3, <2>1 DEF Trees
    <2>3. v[i] = Empty(type) /\ \A j \in Inodes : j # i => v[j] = t[j]
      BY <1>3 DEF Trees
    <2> QED
      BY <1>4, <2>2, <2>3 DEF Trees
  <1> HIDE DEF v
  <1>6. \A j \in Inodes : v[j].ents = t[j].ents /\ At(v, j) = At(t, j)
    BY <1>3, <1>5 DEF At
  <1>7. place \in Places(v, p)
    BY <1>6 DEF Places
  <1>8. OnceBut(v, 0, 0)
    <2>1. OnceBut(t, 0, 0)
      BY DEF TreeInv
    <2> QED
      BY <1>6, <2>1 DEF OnceBut
  <1>9. /\ SameBut(v, u, p) /\ place \in At(u, p)
        /\ u[p].ents[place] = [name |-> name, inode |-> i]
        /\ \E old : Kept(old, v, u, p, place, 0)
    BY <1>2, <1>3, <1>5, <1>7, LinkedPlaces
  <1>10. PICK old : Kept(old, v, u, p, place, 0)
    BY <1>9
  <1>11. OnceBut(u, p, place)
    BY <1>5, <1>8, <1>9, <1>10, KeptOnce, OnceNone
  <1>12. \A j \in Inodes : \A k \in At(t, j) : t[j].ents[k].inode # i /\ Sound(t, t[j].ents[k])
    BY <1>3 DEF TreeInv, Sound
  <1>13. ASSUME NEW j \in Inodes, NEW k \in At(u, j), <<j, k>> # <<p, place>>
         PROVE  u[j].ents[k].inode # i /\ Sound(t, u[j].ents[k])
    BY <1>5, <1>6, <1>9, <1>10, <1>12, <1>13, KeptEntries
  <1>14. OnceBut(u, 0, 0)
    <2> SUFFICES ASSUME NEW a \in Inodes, NEW b \in Inodes, NEW k \in At(u, a), NEW l \in At(u, b),
                        u[a].ents[k].inode = u[b].ents[l].inode
                 PROVE  a = b /\ k = l
      BY DEF OnceBut
    <2>1. CASE <<a, k>> # <<p, place>> /\ <<b, l>> # <<p, place>>
      BY <1>11, <2>1 DEF OnceBut
    <2>2. CASE <<a, k>> = <<p, place>>
      BY <1>9, <1>13, <2>2
    <2>3. CASE <<b, l>> = <<p, place>>
      BY <1>9, <1>13, <2>3
    <2> QED
      BY <2>1, <2>2, <2>3
  <1>15. \A j \in Inodes : u[j].type = IF j = i THEN type ELSE t[j].type
    BY <1>5, <1>9 DEF SameBut
  <1>16. ASSUME NEW j \in Inodes, u[j].type # "dir"
         PROVE  u[j].ents = <<>>
    <2>1. j # p /\ u[j] = v[j]
      BY <1>3, <1>9, <1>15, <1>16 DEF SameBut
    <2>2. t[j].type # "dir"
      BY <1>3, <1>15, <1>16
    <2> QED
      BY <1>6, <2>1, <2>2 DEF TreeInv
  <1>17. ASSUME NEW j \in Inodes, NEW k \in At(u, j)
         PROVE  u[j].ents[k].inode # Root /\ u[u[j].ents[k].inode].type # "free"
    <2>1. u \in Trees
      BY <1>9 DEF SameBut
    <2>2. u[j].ents[k].inode \in Inodes
      BY <2>1, TreeFacts
    <2>3. CASE <<j, k>> = <<p, place>>
      BY <1>3, <1>9, <1>15, <2>3
    <2>4. CASE <<j, k>> # <<p, place>>
      BY <1>13, <1>15, <2>2, <2>4 DEF Sound
    <2> QED
      BY <2>3, <2>4
  <1>18. TreeInv(u)
    <2>1. u \in Trees /\ u[Root].type = "dir"
      BY <1>3, <1>9, <1>15, InodeFacts DEF SameBut
    <2>2. SeenOK(v)
      BY <1>3, <1>5 DEF TreeInv, SeenOK
    <2>3. SeenOK(u)
      BY <1>2, <1>3, <1>5, <1>7, <2>2, LinkedSeen
    <2> QED
      BY <1>14, <1>16, <1>17, <2>1, <2>3 DEF TreeInv
  <1>19. ASSUME Named(t)
         PROVE  Named(u)
    <2> DEFINE S == Below(u, Root)
    <2>1. S \in SUBSET Inodes /\ Root \in S /\ Closed(u, S)
      BY <1>18, BelowFacts, InodeFacts DEF TreeInv
    <2> HIDE DEF S
    <2>2. Closed(t, S)
      <3> SUFFICES ASSUME NEW j \in S, NEW l \in At(t, j)
                   PROVE  t[j].ents[l].inode \in S
        BY DEF Closed
      <3>1. j \in Inodes /\ l \in At(v, j) /\ v[j].ents[l] = t[j].ents[l] /\ l # 0
        BY <1>6, <2>1, TreeFacts DEF At
      <3>2. \E k \in At(u, j) : u[j].ents[k] = v[j].ents[l]
        BY <1>5, <1>9, <1>10, <3>1, KeptEntries
      <3> QED
        BY <2>1, <3>1, <3>2 DEF Closed
    <2>3. Below(t, Root) \subseteq S
      BY <1>3, <2>1, <2>2, BelowFacts, InodeFacts
    <2>4. p \in S
      BY <1>3, <1>19, <2>3 DEF Named
    <2>5. i \in S
      BY <1>9, <2>1, <2>4 DEF Closed
    <2> QED
      BY <1>15, <1>19, <2>3, <2>5 DEF Named, S
  <1> QED
    BY <1>18, <1>19 DEF Grows

LEMMA RemovedKept ==
    ASSUME NEW t, TreeInv(t), NEW p \in Inodes, NEW name \in Names,
           NEW type \in {"file", "dir"}, NEW u, u = Removed(t, p, name, type)
    PROVE  GrowsBut(t, u) /\ (type = "file" => Grows(t, u))
  <1>0. CASE ~Removable(t, p, name, type)
    BY <1>0 DEF Removed, Grows, GrowsBut
  <1> SUFFICES ASSUME Removable(t, p, name, type)
               PROVE  GrowsBut(t, u) /\ (type = "file" => Grows(t, u))
    BY <1>0
  <1> DEFINE c == Child(t, p, name)
             x == Index(t, p, name)
             v == Unlinked(t, p, name)
  <1>1. u = [v EXCEPT ![c] = Free]
    BY DEF Removed
  <1>2. /\ t \in Trees /\ t[Root].type = "dir" /\ OnceBut(t, 0, 0)
        /\ Has(t, p, name) /\ t[c].type = type /\ SeenOK(t)
        /\ t[c].ents = <<>> \/ t[c].size = "vague"
    BY DEF Removable, TreeInv
  <1>3. x \in At(t, p) /\ x <= t[p].seen /\ t[p].ents[x].inode = c /\ c \in Inodes
    BY <1>2, FindFacts
  <1>4. SameBut(t, v, p) /\ \E old : Kept(old, t, v, p, 0, x)
    BY <1>2, <1>3, UnlinkedPlaces
  <1>a. SeenOK(v)
    BY <1>2, <1>3, UnlinkedSeen
  <1> HIDE DEF c, x, v
  <1>5. c # Root /\ x # 0
    BY <1>2, <1>3 DEF TreeInv, At
  <1>6. PICK old : Kept(old, t, v, p, 0, x)
    BY <1>4
  <1>7. OnceBut(v, 0, 0)
    <2>1. OnceBut(t, p, x)
      BY <1>2, <1>5, TreeFacts DEF OnceBut, At
    <2> QED
      BY <1>2, <1>4, <1>6, <2>1, KeptOnce, OnceNone DEF SameBut
  <1>8. /\ u \in Trees /\ u[c].type = "free" /\ u[c].ents = <<>> /\ u[c].seen = 0
        /\ \A j \in Inodes : j # c => u[j] = v[j]
    <2>1. Free = [type |-> "free", ents |-> <<>>, seen |-> 0, size |-> "whole"]
      BY DEF Free
    <2>2. Free \in Records
      BY <2>1 DEF Types, Sizes, Records
    <2>3. v \in Trees
      BY <1>4 DEF SameBut
    <2>4. u \in [Inodes -> Records]
      BY <1>1, <2>2, <2>3 DEF Trees
    <2>5. u[c] = Free /\ \A j \in Inodes : j # c => u[j] = v[j]
      BY <1>1, <1>3, <2>3 DEF Trees
    <2> QED
      BY <2>1, <2>4, <2>5 DEF Trees
  <1>9. /\ \A j \in Inodes : j # c => u[j].ents = v[j].ents /\ At(u, j) = At(v, j)
        /\ \A k \in At(u, c) : FALSE
    BY <1>8 DEF At
  <1>10. OnceBut(u, 0, 0)
    BY <1>7, <1>9 DEF OnceBut
  <1>11. \A j \in Inodes : u[j].type = IF j = c THEN "free" ELSE t[j].type
    BY <1>4, <1>8 DEF SameBut
  <1>12. ASSUME NEW j \in Inodes, NEW k \in At(u, j)
         PROVE  /\ u[j].ents[k].inode \in Inodes \ {c, Root}
                /\ t[u[j].ents[k].inode].type # "free"
    <2>0. j # c
      BY <1>9
    <2>1. k \in At(v, j) /\ u[j].ents[k] = v[j].ents[k] /\ k # 0
      BY <1>4, <1>9, <2>0, TreeFacts DEF At, SameBut
    <2>2. PICK l \in At(t, j) : <<j, l>> # <<p, x>> /\ v[j].ents[k] = t[j].ents[l]
      BY <1>2, <1>4, <1>6, <2>1, KeptEntries
    <2>3. t[j].ents[l].inode \in Inodes
      BY <1>2, TreeFacts
    <2>4. t[j].ents[l].inode # c
      <3>1. <<j, l>> # <<0, 0>> /\ <<p, x>> # <<0, 0>>
        BY InodeFacts
      <3> QED
        BY <1>2, <1>3, <2>2, <3>1 DEF OnceBut
    <2> QED
      BY <2>1, <2>2, <2>3, <2>4 DEF TreeInv
  <1>13. ASSUME NEW j \in Inodes, u[j].type # "dir"
         PROVE  u[j].ents = <<>>
    <2>1. CASE j = c
      BY <1>8, <2>1
    <2>2. CASE j # c
      <3>1. t[j].type # "dir" /\ t[p].type = "dir"
        BY <1>2, <1>11, <1>13, <2>2 DEF Has
      <3>2. t[j].ents = <<>> /\ v[j] = t[j]
        BY <1>4, <3>1 DEF SameBut, TreeInv
      <3> QED
        BY <1>9, <2>2, <3>2
    <2> QED
      BY <2>1, <2>2
  <1>14. TreeInv(u)
    <2>1. u[Root].type = "dir"
      BY <1>2, <1>5, <1>11, InodeFacts
    <2>2. \A j \in Inodes : \A k \in At(u, j) :
            u[j].ents[k].inode # Root /\ u[u[j].ents[k].inode].type # "free"
      BY <1>11, <1>12
    <2>3. SeenOK(u)
      BY <1>8, <1>a DEF SeenOK
    <2> QED
      BY <1>8, <1>10, <1>13, <2>1, <2>2, <2>3 DEF TreeInv
  <1>b. ASSUME t[c].ents # <<>>
        PROVE  type # "file" /\ Drops(t, u)
    <2>1. t[c].size = "vague" /\ u[c].type = "free"
      BY <1>2, <1>3, <1>11, <1>b
    <2>2. t[c].type = "dir"
      BY <1>3, <1>b DEF TreeInv
    <2> QED
      BY <1>2, <1>3, <1>b, <2>1, <2>2 DEF Drops
  <1>15. ASSUME Named(t), t[c].ents = <<>>
         PROVE  Named(u)
    <2> DEFINE S == Below(u, Root)
               T == S \cup {c}
    <2>1. S \in SUBSET Inodes /\ Root \in S /\ Closed(u, S)
      BY <1>14, BelowFacts, InodeFacts DEF TreeInv
    <2> HIDE DEF S
    <2>2. Closed(t, T)
      <3> SUFFICES ASSUME NEW j \in T, NEW l \in At(t, j)
                   PROVE  t[j].ents[l].inode \in T
        BY DEF Closed
      <3>1. CASE <<j, l>> = <<p, x>>
        BY <1>3, <3>1
      <3>2. CASE j = c
        BY <1>15, <3>2 DEF At
      <3>3. CASE <<j, l>> # <<p, x>> /\ j # c
        <4>1. j \in S /\ j \in Inodes
          BY <2>1, <3>3
        <4>2. \E k \in At(v, j) : v[j].ents[k] = t[j].ents[l]
          BY <1>2, <1>4, <1>6, <3>3, <4>1, KeptEntries
        <4>3. \E k \in At(u, j) : u[j].ents[k] = t[j].ents[l]
          BY <1>9, <3>3, <4>1, <4>2
        <4> QED
          BY <2>1, <4>1, <4>3 DEF Closed
      <3> QED
        BY <3>1, <3>2, <3>3
    <2>3. Below(t, Root) \subseteq T
      BY <1>2, <2>1, <2>2, BelowFacts, InodeFacts
    <2> QED
      BY <1>11, <1>15, <2>3 DEF Named, S
  <1> QED
    BY <1>14, <1>15, <1>b DEF Grows, GrowsBut

\* The conditions under which ext2_rename goes ahead.
Renamable(t, p, old, q, new) ==
    /\ p \in Inodes /\ q \in Inodes /\ old \in Names /\ new \in Names
    /\ p # q \/ old # new
    /\ Has(t, p, old) /\ t[q].type = "dir" /\ ~Has(t, q, new)

Rename(t, p, old, q, new, place) ==
    Unlinked(Linked(t, q, new, Child(t, p, old), place), p, old)

\* The steps of a rename: the new name is entered, the first entry of the old
\* one removed, and it is the one that was found.
LEMMA RenameSteps ==
    ASSUME NEW t \in Trees, NEW p, NEW old, NEW q, NEW new, Renamable(t, p, old, q, new),
           NEW place \in Places(t, q), NEW v, NEW c, NEW x,
           c = Child(t, p, old), v = Linked(t, q, new, c, place), x = Index(v, p, old)
    PROVE  /\ c \in Inodes /\ SameBut(t, v, q) /\ place \in At(v, q)
           /\ v[q].ents[place] = [name |-> new, inode |-> c]
           /\ Index(t, p, old) \in At(t, p) /\ t[p].ents[Index(t, p, old)].inode = c
           /\ x \in At(v, p) /\ v[p].ents[x].name = old /\ v[p].ents[x].inode = c
           /\ x <= v[p].seen /\ <<p, x>> # <<q, place>>
           /\ SameBut(v, Unlinked(v, p, old), p)
           /\ \E f : Kept(f, t, v, q, place, 0)
           /\ \E f : Kept(f, v, Unlinked(v, p, old), p, 0, x)
  <1>1. c \in Inodes /\ Index(t, p, old) \in At(t, p) /\ t[p].ents[Index(t, p, old)].inode = c
    BY FindFacts DEF Renamable
  <1>2. /\ SameBut(t, v, q) /\ place \in At(v, q)
        /\ v[q].ents[place] = [name |-> new, inode |-> c]
        /\ \E f : Kept(f, t, v, q, place, 0)
    BY <1>1, LinkedPlaces DEF Renamable
  <1>3. Find(v, p, old) = Find(t, p, old)
    BY <1>1, LinkedFind DEF Renamable
  <1>4. v \in Trees
    BY <1>2 DEF SameBut
  <1>5. Find(t, p, old) = c /\ c # 0
    BY <1>1, InodeFacts, FindFacts DEF Renamable
  <1>6. Has(v, p, old) /\ Child(v, p, old) = c
    BY <1>3, <1>4, <1>5, FindFacts DEF Renamable
  <1>7. /\ x \in At(v, p) /\ v[p].ents[x].name = old /\ v[p].ents[x].inode = c
        /\ x <= v[p].seen
    BY <1>4, <1>6, FindFacts DEF Renamable
  <1>8. <<p, x>> # <<q, place>>
    BY <1>2, <1>7 DEF Renamable
  <1>9. /\ SameBut(v, Unlinked(v, p, old), p)
        /\ \E f : Kept(f, v, Unlinked(v, p, old), p, 0, x)
    BY <1>4, <1>7, UnlinkedPlaces DEF Renamable
  <1> QED
    BY <1>1, <1>2, <1>7, <1>8, <1>9

LEMMA RenameKept ==
    ASSUME NEW t, TreeInv(t), NEW p, NEW old, NEW q, NEW new, Renamable(t, p, old, q, new),
           NEW place \in Places(t, q), NEW u, u = Rename(t, p, old, q, new, place)
    PROVE  TreeInv(u) /\ (Named(t) /\ q \notin Below(t, Child(t, p, old)) => Named(u))
  <1> DEFINE c == Child(t, p, old)
             v == Linked(t, q, new, c, place)
             x == Index(v, p, old)
             y == Index(t, p, old)
  <1>0. t \in Trees /\ t[Root].type = "dir" /\ OnceBut(t, 0, 0) /\ SeenOK(t)
    BY DEF TreeInv
  <1>1. u = Unlinked(v, p, old)
    BY DEF Rename
  <1>2. PICK z : z = x
    OBVIOUS
  <1>3. /\ c \in Inodes /\ SameBut(t, v, q) /\ place \in At(v, q)
        /\ v[q].ents[place] = [name |-> new, inode |-> c]
        /\ y \in At(t, p) /\ t[p].ents[y].inode = c
        /\ z \in At(v, p) /\ v[p].ents[z].name = old /\ v[p].ents[z].inode = c
        /\ z <= v[p].seen /\ <<p, z>> # <<q, place>>
        /\ SameBut(v, u, p)
        /\ \E f : Kept(f, t, v, q, place, 0)
        /\ \E f : Kept(f, v, u, p, 0, z)
    BY <1>0, <1>1, <1>2, RenameSteps
  <1>a. SeenOK(v)
    BY <1>0, <1>3, LinkedSeen DEF Renamable
  <1>b. SeenOK(u)
    BY <1>1, <1>2, <1>3, <1>a, UnlinkedSeen DEF Renamable, SameBut
  <1> HIDE DEF v, x, y, c
  <1>4. PICK f : Kept(f, t, v, q, place, 0)
    BY <1>3
  <1>5. PICK g : Kept(g, v, u, p, 0, z)
    BY <1>3
  <1>6. p \in Inodes /\ q \in Inodes /\ v \in Trees /\ u \in Trees
    BY <1>3 DEF Renamable, SameBut
  <1>7. OnceBut(v, q, place)
    BY <1>0, <1>3, <1>4, <1>6, KeptOnce, OnceNone
  <1>8. OnceBut(v, p, z)
    <2> SUFFICES ASSUME NEW a \in Inodes, NEW b \in Inodes, NEW k \in At(v, a), NEW l \in At(v, b),
                        <<a, k>> # <<p, z>>, <<b, l>> # <<p, z>>,
                        v[a].ents[k].inode = v[b].ents[l].inode
                 PROVE  a = b /\ k = l
      BY DEF OnceBut
    <2>1. \A j \in Inodes : \A m \in At(v, j) :
            <<j, m>> # <<q, place>> /\ v[j].ents[m].inode = c => j = p /\ m = z
      BY <1>3, <1>6, <1>7 DEF OnceBut
    <2>2. v[q].ents[place].inode = c
      BY <1>3
    <2>3. CASE <<a, k>> # <<q, place>> /\ <<b, l>> # <<q, place>>
      BY <1>7, <2>3 DEF OnceBut
    <2>4. CASE <<a, k>> = <<q, place>>
      BY <2>1, <2>2, <2>4
    <2>5. CASE <<b, l>> = <<q, place>>
      BY <2>1, <2>2, <2>5
    <2> QED
      BY <2>3, <2>4, <2>5
  <1>9. OnceBut(u, 0, 0)
    BY <1>3, <1>5, <1>6, <1>8, KeptOnce, OnceNone
  <1>10. \A j \in Inodes : u[j].type = t[j].type
    BY <1>3 DEF SameBut
  <1>11. ASSUME NEW j \in Inodes, NEW k \in At(u, j)
         PROVE  u[j].ents[k].inode # Root /\ u[u[j].ents[k].inode].type # "free"
    <2>1. k # 0 /\ u[j].ents[k].inode \in Inodes
      <3>1. k # 0
        BY DEF At
      <3> QED
        BY <1>6, <3>1, TreeFacts
    <2>2. PICK l \in At(v, j) : u[j].ents[k] = v[j].ents[l]
      BY <1>3, <1>5, <1>6, <2>1, KeptEntries
    <2>3. \E m \in Inodes : \E n \in At(t, m) : v[j].ents[l].inode = t[m].ents[n].inode
      <3>1. CASE <<j, l>> = <<q, place>>
        BY <1>3, <1>6, <3>1
      <3>2. CASE <<j, l>> # <<q, place>>
        BY <1>0, <1>3, <1>4, <1>6, <3>2, KeptEntries
      <3> QED
        BY <3>1, <3>2
    <2> QED
      BY <1>10, <2>1, <2>2, <2>3 DEF TreeInv
  <1>12. ASSUME NEW j \in Inodes, u[j].type # "dir"
         PROVE  u[j].ents = <<>>
    <2>1. t[j].type # "dir" /\ t[p].type = "dir" /\ t[q].type = "dir"
      BY <1>10, <1>12 DEF Renamable, Has
    <2>2. u[j] = t[j]
      BY <1>3, <2>1 DEF SameBut
    <2> QED
      BY <2>1, <2>2 DEF TreeInv
  <1>13. TreeInv(u)
    <2>1. u[Root].type = "dir"
      BY <1>0, <1>10, InodeFacts
    <2> QED
      BY <1>6, <1>9, <1>11, <1>12, <1>b, <2>1 DEF TreeInv
  <1>14. ASSUME Named(t), q \notin Below(t, c)
         PROVE  Named(u)
    <2> DEFINE S == Below(u, Root)
               B == Below(t, c)
               T == S \cup B
    <2>1. /\ S \in SUBSET Inodes /\ Root \in S /\ Closed(u, S)
          /\ B \in SUBSET Inodes /\ c \in B /\ Closed(t, B)
          /\ \A X : c \in X /\ Closed(t, X) => B \subseteq X
      BY <1>0, <1>3, <1>13, BelowFacts, InodeFacts DEF TreeInv
    <2>2. \A X : Root \in X /\ Closed(t, X) => Below(t, Root) \subseteq X
      BY <1>0, BelowFacts, InodeFacts
    <2> HIDE DEF S, B
    <2>3. ASSUME NEW j \in S, NEW l \in At(t, j)
          PROVE  t[j].ents[l].inode \in S \/ t[j].ents[l].inode = c
      <3>1. j \in Inodes /\ l # 0
        BY <1>0, <2>1, TreeFacts DEF At
      <3>2. PICK k \in At(v, j) : v[j].ents[k] = t[j].ents[l]
        BY <1>0, <1>3, <1>4, <1>6, <3>1, KeptEntries
      <3>3. CASE <<j, k>> = <<p, z>>
        BY <1>3, <3>2, <3>3
      <3>4. CASE <<j, k>> # <<p, z>>
        <4>1. \E m \in At(u, j) : u[j].ents[m] = v[j].ents[k]
          BY <1>3, <1>5, <1>6, <3>1, <3>4, KeptEntries
        <4> QED
          BY <2>1, <3>2, <4>1 DEF Closed
      <3> QED
        BY <3>3, <3>4
    <2>4. Closed(t, T)
      BY <2>1, <2>3 DEF Closed
    <2>5. q \in S
      <3>1. q \in Below(t, Root)
        BY <1>14 DEF Named, Renamable
      <3> QED
        BY <1>14, <2>1, <2>2, <2>4, <3>1 DEF B
    <2>6. c \in S
      <3>1. \E m \in At(u, q) : u[q].ents[m] = v[q].ents[place]
        BY <1>3, <1>5, <1>6, KeptEntries
      <3>2. v[q].ents[place].inode = c
        BY <1>3
      <3> QED
        BY <2>1, <2>5, <3>1, <3>2 DEF Closed
    <2>7. Closed(t, S)
      BY <2>3, <2>6 DEF Closed
    <2>8. Below(t, Root) \subseteq S
      BY <2>1, <2>2, <2>7
    <2> QED
      BY <1>10, <1>14, <2>8 DEF Named, S
  <1> QED
    BY <1>13, <1>14 DEF c

\* A call is refused or makes of u the tree v, in which only what the vague sizes
\* cover is different.
Redrawn(t, u, v) ==
    /\ \A i \in Inodes : v[i].type = u[i].type /\ v[i].ents = u[i].ents /\ v[i].size = u[i].size
    /\ \A i \in Inodes : u[i].size # "vague" \/ u[i] = t[i] => v[i] = u[i]

LEMMA OutcomeIs ==
    ASSUME NEW t, NEW u, TreeInv(u), NEW v \in Outcomes(t, u)
    PROVE  (v = t /\ Refused(t, u)) \/ (TreeInv(v) /\ Redrawn(t, u, v))
  <1> SUFFICES ASSUME ~(v = t /\ Refused(t, u))
               PROVE  TreeInv(v) /\ Redrawn(t, u, v)
    OBVIOUS
  <1>1. PICK f \in Covers(t, u) : v = Reseen(u, f)
    BY DEF Outcomes
  <1>2. /\ f \in [Vague(t, u) -> 0 .. NInodes]
        /\ \A i \in Vague(t, u) : f[i] <= Len(u[i].ents)
    BY <1>1 DEF Covers
  <1>3. u \in Trees /\ SeenOK(u)
    BY DEF TreeInv
  <1>4. ASSUME NEW i \in Inodes
        PROVE  /\ v[i] \in Records /\ v[i].type = u[i].type /\ v[i].ents = u[i].ents
               /\ v[i].size = u[i].size /\ v[i].seen <= Len(v[i].ents)
               /\ u[i].size # "vague" \/ u[i] = t[i] => v[i] = u[i]
    <2>1. u[i] \in Records /\ u[i].seen <= Len(u[i].ents)
      BY <1>3 DEF Trees, SeenOK
    <2>2. CASE i \in Vague(t, u)
      <3>1. f[i] \in Nat /\ f[i] <= Len(u[i].ents)
        BY <1>2, <2>2, InodeFacts
      <3>2. v[i] = [u[i] EXCEPT !.seen = f[i]]
        BY <1>1, <1>2, <2>2 DEF Reseen
      <3>3. u[i].size = "vague" /\ u[i] # t[i]
        BY <2>2 DEF Vague
      <3> QED
        BY <2>1, <3>1, <3>2, <3>3 DEF Records
    <2>3. CASE i \notin Vague(t, u)
      <3>1. v[i] = u[i]
        BY <1>1, <1>2, <2>3 DEF Reseen
      <3> QED
        BY <2>1, <3>1
    <2> QED
      BY <2>2, <2>3
  <1>5. v \in Trees
    <2>1. v = [i \in Inodes |-> v[i]]
      BY <1>1 DEF Reseen
    <2> QED
      BY <1>4, <2>1 DEF Trees
  <1>6. SeenOK(v)
    BY <1>3, <1>4 DEF SeenOK
  <1>7. \A i \in Inodes : At(v, i) = At(u, i)
    BY <1>4 DEF At
  <1>8. OnceBut(v, 0, 0)
    BY <1>4, <1>7 DEF TreeInv, OnceBut
  <1>9. \A i \in Inodes : \A k \in At(v, i) :
          v[i].ents[k].inode # Root /\ v[v[i].ents[k].inode].type # "free"
    BY <1>3, <1>4, <1>7, TreeFacts DEF TreeInv
  <1>10. v[Root].type = "dir" /\ \A i \in Inodes : v[i].type # "dir" => v[i].ents = <<>>
    BY <1>4, InodeFacts DEF TreeInv
  <1>11. TreeInv(v)
    BY <1>5, <1>6, <1>8, <1>9, <1>10 DEF TreeInv
  <1> QED
    BY <1>4, <1>11 DEF Redrawn

\* Below goes by the records.
LEMMA SameBelow ==
    ASSUME NEW u \in Trees, NEW v \in Trees, \A i \in Inodes : v[i].ents = u[i].ents,
           NEW j \in Inodes
    PROVE  Below(v, j) = Below(u, j)
  <1>1. \A S \in SUBSET Inodes : Closed(u, S) <=> Closed(v, S)
    BY DEF Closed, At
  <1>2. /\ Below(u, j) \in SUBSET Inodes /\ j \in Below(u, j) /\ Closed(u, Below(u, j))
        /\ \A S : j \in S /\ Closed(u, S) => Below(u, j) \subseteq S
    BY BelowFacts
  <1>3. /\ Below(v, j) \in SUBSET Inodes /\ j \in Below(v, j) /\ Closed(v, Below(v, j))
        /\ \A S : j \in S /\ Closed(v, S) => Below(v, j) \subseteq S
    BY BelowFacts
  <1> QED
    BY <1>1, <1>2, <1>3

LEMMA OutcomeKept ==
    ASSUME NEW t, NEW u, TreeInv(t), NEW v \in Outcomes(t, u)
    PROVE  (Grows(t, u) => Grows(t, v)) /\ (GrowsBut(t, u) => GrowsBut(t, v))
  <1> SUFFICES ASSUME TreeInv(u), v # t
               PROVE  (Grows(t, u) => Grows(t, v)) /\ (GrowsBut(t, u) => GrowsBut(t, v))
    BY DEF Grows, GrowsBut
  <1>1. TreeInv(v) /\ Redrawn(t, u, v)
    BY OutcomeIs
  <1>2. \A i \in Inodes : v[i].type = u[i].type /\ v[i].ents = u[i].ents
    BY <1>1 DEF Redrawn
  <1>3. Below(v, Root) = Below(u, Root)
    BY <1>1, <1>2, SameBelow, InodeFacts DEF TreeInv
  <1>4. Named(u) => Named(v)
    BY <1>2, <1>3 DEF Named
  <1>5. Drops(t, u) => Drops(t, v)
    BY <1>2 DEF Drops
  <1> QED
    BY <1>1, <1>4, <1>5 DEF Grows, GrowsBut

----------------------------------------------------------------------------
(* Paths *)

\* One component of a path.
Step(t, i, name) == IF i # 0 /\ Has(t, i, name) THEN Child(t, i, name) ELSE 0

LEMMA StepFacts ==
    ASSUME NEW t \in Trees, NEW i \in Inodes \cup {0}, NEW name
    PROVE  /\ Step(t, i, name) \in Inodes \cup {0}
           /\ Step(t, i, name) = IF i = 0 THEN 0 ELSE Find(t, i, name)
  <1>1. CASE i = 0
    BY <1>1 DEF Step
  <1>2. CASE i # 0
    BY <1>2, FindFacts DEF Step, Find
  <1> QED
    BY <1>1, <1>2

\* The loop of Resolve.
LEMMA ResolveTurns ==
    ASSUME NEW t \in Trees, NEW path \in Seq(Names)
    PROVE  \E r \in [0 .. Len(path) -> Inodes \cup {0}] :
             /\ r[0] = Root
             /\ \A d \in 1 .. Len(path) : r[d] = Step(t, r[d - 1], path[d])
             /\ Resolve(t, path) = r[Len(path)]
  <1> DEFINE L == Len(path)
             I == Inodes \cup {0}
             step == [d \in 1 .. L |-> [i \in I |-> Step(t, i, path[d])]]
             P(r) == r = [d \in 0 .. L |->
                            IF d = 0 THEN Root ELSE Step(t, r[d - 1], path[d])]
  <1>1. L \in Nat
    BY LenProperties
  <1>2. Root \in I
    BY InodeFacts
  <1>3. \A i \in I : \A n : Step(t, i, n) \in I
    BY StepFacts
  <1>11. Resolve(t, path) = (CHOOSE r : P(r))[L]
    BY DEF Resolve, Step
  <1> HIDE DEF I, L
  <1>4. step \in [1 .. L -> [I -> I]]
    BY <1>3
  <1>5. IsLoop(L, I, Root, step)
    BY <1>1, <1>2, <1>4 DEF IsLoop
  <1>6. PICK r : Turns(r, L, I, Root, step)
    <2> HIDE DEF step
    <2> QED
      BY <1>5, LoopExists
  <1>7. /\ r \in [0 .. L -> I] /\ r[0] = Root
        /\ \A d \in 1 .. L : r[d] = step[d][r[d - 1]]
    BY <1>6 DEF Turns
  <1>8. ASSUME NEW d \in 1 .. L
        PROVE  r[d] = Step(t, r[d - 1], path[d])
    <2>1. r[d - 1] \in I
      BY <1>1, <1>7
    <2> QED
      BY <1>7, <2>1
  <1>9. P(r)
    <2>1. \A d \in 0 .. L : d = 0 \/ d \in 1 .. L
      BY <1>1
    <2>2. \A d \in 0 .. L : r[d] = IF d = 0 THEN Root ELSE Step(t, r[d - 1], path[d])
      BY <1>7, <1>8, <2>1
    <2> QED
      BY <1>7, <2>2
  <1> DEFINE G == CHOOSE f : P(f)
  <1>10. P(G)
    BY <1>9, Zenon
  <1>12. Resolve(t, path) = G[L]
    BY <1>11
  <1> HIDE DEF G
  <1>a. \A d \in 0 .. L : G[d] = IF d = 0 THEN Root ELSE Step(t, G[d - 1], path[d])
    BY <1>10, Zenon
  <1>b. 0 \in 0 .. L /\ \A d \in 1 .. L : d \in 0 .. L /\ d # 0
    BY <1>1
  <1>13. G[0] = Root /\ \A d \in 1 .. L : G[d] = Step(t, G[d - 1], path[d])
    BY <1>a, <1>b, Zenon
  <1>14. G \in [0 .. L -> I]
    <2> DEFINE Good == {d \in 0 .. L : G[d] \in I}
    <2>1. 0 \in Good
      BY <1>1, <1>2, <1>13
    <2>2. ASSUME NEW d \in 1 .. L, d - 1 \in Good
          PROVE  d \in Good
      BY <1>3, <1>13, <2>2
    <2> HIDE DEF Good
    <2>3. 0 .. L \subseteq Good
      BY <1>1, <2>1, <2>2, UpTo
    <2>4. \A d \in 0 .. L : G[d] \in I
      BY <2>3 DEF Good
    <2> QED
      BY <1>10, <2>4
  <1> QED
    BY <1>12, <1>13, <1>14 DEF I, L

\* The components of a path, and its parent's path.
LEMMA SeqFacts ==
    ASSUME NEW x \in Seq(Names)
    PROVE  /\ Len(x) \in Nat /\ \A k \in 1 .. Len(x) : x[k] \in Names
           /\ x = <<>> <=> Len(x) = 0
  BY EmptySeq, ElementOfSeq, LenProperties

LEMMA FrontFacts ==
    ASSUME NEW x \in Seq(Names), x # <<>>
    PROVE  /\ Front(x) \in Seq(Names) /\ Len(Front(x)) = Len(x) - 1 /\ Last(x) \in Names
           /\ \A k \in 1 .. Len(x) - 1 : Front(x)[k] = x[k]
           /\ Len(x) \in Nat \ {0} /\ Last(x) = x[Len(x)]
  <1>1. Len(x) \in Nat \ {0} /\ \A k \in 1 .. Len(x) : x[k] \in Names
    BY SeqFacts
  <1>2. PICK n \in Nat : n = Len(x) - 1
    BY <1>1
  <1>3. \A k \in 1 .. n : x[k] \in Names
    BY <1>1, <1>2
  <1>4. /\ SubSeq(x, 1, n) \in Seq(Names)
        /\ Len(SubSeq(x, 1, n)) = IF 1 <= n THEN n - 1 + 1 ELSE 0
        /\ \A k \in 1 .. n - 1 + 1 : SubSeq(x, 1, n)[k] = x[1 + k - 1]
    <2>1. 1 \in Int /\ n \in Int
      OBVIOUS
    <2> QED
      BY <1>3, <2>1, SubSeqProperties
  <1>5. /\ Len(SubSeq(x, 1, n)) = n
        /\ \A k \in 1 .. n : SubSeq(x, 1, n)[k] = x[k]
    BY <1>2, <1>4
  <1>6. Len(x) \in 1 .. Len(x)
    BY <1>1
  <1> QED
    BY <1>1, <1>2, <1>4, <1>5, <1>6 DEF Front, Last

\* A path means what its last component is in what the rest of it means.
LEMMA ResolveFront ==
    ASSUME NEW t \in Trees, NEW path \in Seq(Names), path # <<>>
    PROVE  /\ Front(path) \in Seq(Names) /\ Len(Front(path)) = Len(path) - 1
           /\ Last(path) \in Names
           /\ Resolve(t, path) = Step(t, Resolve(t, Front(path)), Last(path))
  <1>0. Len(path) \in Nat /\ Len(path) # 0 /\ \A d \in 1 .. Len(path) : path[d] \in Names
    BY SeqFacts
  <1>1. /\ Front(path) \in Seq(Names) /\ Len(Front(path)) = Len(path) - 1
        /\ \A d \in 1 .. Len(path) - 1 : Front(path)[d] = path[d]
    BY FrontFacts
  <1>2. PICK r \in [0 .. Len(path) -> Inodes \cup {0}] :
             /\ r[0] = Root
             /\ \A d \in 1 .. Len(path) : r[d] = Step(t, r[d - 1], path[d])
             /\ Resolve(t, path) = r[Len(path)]
    BY ResolveTurns
  <1>3. PICK s \in [0 .. Len(path) - 1 -> Inodes \cup {0}] :
             /\ s[0] = Root
             /\ \A d \in 1 .. Len(path) - 1 : s[d] = Step(t, s[d - 1], Front(path)[d])
             /\ Resolve(t, Front(path)) = s[Len(path) - 1]
    <2> DEFINE f == Front(path)
    <2>1. f \in Seq(Names) /\ Len(f) = Len(path) - 1
      BY <1>1
    <2> HIDE DEF f
    <2>2. \E s \in [0 .. Len(f) -> Inodes \cup {0}] :
             /\ s[0] = Root
             /\ \A d \in 1 .. Len(f) : s[d] = Step(t, s[d - 1], f[d])
             /\ Resolve(t, f) = s[Len(f)]
      BY <2>1, ResolveTurns
    <2> QED
      BY <2>1, <2>2 DEF f
  <1> DEFINE n == Len(path) - 1
             Good == {d \in 0 .. n : r[d] = s[d]}
  <1>4. n \in Nat /\ n + 1 = Len(path)
    BY <1>0
  <1>5. 0 \in Good
    BY <1>2, <1>3, <1>4
  <1>6. ASSUME NEW d \in 1 .. n, d - 1 \in Good
        PROVE  d \in Good
    BY <1>1, <1>2, <1>3, <1>4, <1>6
  <1> HIDE DEF Good
  <1>7. n \in Good
    <2> HIDE DEF n
    <2>1. 0 .. n \subseteq Good
      BY <1>4, <1>5, <1>6, UpTo
    <2> QED
      BY <1>4, <2>1
  <1>8. r[Len(path) - 1] = Resolve(t, Front(path))
    BY <1>3, <1>7 DEF Good
  <1>9. Len(path) \in 1 .. Len(path)
    BY <1>0
  <1> QED
    BY <1>0, <1>1, <1>2, <1>8, <1>9 DEF Last

LEMMA ResolveFacts ==
    ASSUME NEW t \in Trees
    PROVE  /\ Resolve(t, <<>>) = Root
           /\ \A path \in Seq(Names) : Resolve(t, path) \in Inodes \cup {0}
  <1>1. <<>> \in Seq(Names) /\ Len(<<>>) = 0
    BY EmptySeq
  <1>2. \E r \in [0 .. Len(<<>>) -> Inodes \cup {0}] : r[0] = Root /\ Resolve(t, <<>>) = r[Len(<<>>)]
    BY <1>1, ResolveTurns
  <1>3. ASSUME NEW path \in Seq(Names)
        PROVE  Resolve(t, path) \in Inodes \cup {0}
    <2>1. PICK r \in [0 .. Len(path) -> Inodes \cup {0}] : Resolve(t, path) = r[Len(path)]
      BY ResolveTurns
    <2>2. Len(path) \in 0 .. Len(path)
      BY LenProperties
    <2> QED
      BY <2>1, <2>2
  <1> QED
    BY <1>1, <1>2, <1>3

----------------------------------------------------------------------------
(* Walks *)

Nodes == [inode : Inodes \cup {0}, type : Types]
Rings == [0 .. NNodes -> Nodes]

RootIs(ring) == ring[RootNode].inode = Root /\ ring[RootNode].type = "dir"

\* vfs_root is never written, and the node reached has an inode.
Walks ==
    {w \in [nodes : Rings, next : 0 .. NNodes - 1, at : -1 .. NNodes] :
       /\ RootIs(w.nodes)
       /\ w.at # Nil => w.nodes[w.at].inode \in Inodes}

LEMMA WalkFacts ==
    ASSUME NEW w \in Walks
    PROVE  /\ w.nodes \in Rings /\ w.next \in 0 .. NNodes - 1 /\ w.at \in -1 .. NNodes
           /\ RootIs(w.nodes) /\ NNodes \in Nat \ {0}
           /\ w.at # Nil => w.at \in 0 .. NNodes /\ w.nodes[w.at].inode \in Inodes
                            /\ w.nodes[w.at] \in Nodes
  BY VfsAssumption DEF Walks, Nil, Rings

\* The ring goes round.
LEMMA NextFacts ==
    ASSUME NEW n \in 0 .. NNodes - 1
    PROVE  /\ (n + 1) % NNodes = IF n + 1 = NNodes THEN 0 ELSE n + 1
           /\ (n + 1) % NNodes \in 0 .. NNodes - 1
  <1>1. NNodes \in Nat \ {0}
    BY VfsAssumption
  <1>2. CASE n + 1 = NNodes
    BY <1>1, <1>2
  <1>3. CASE n + 1 # NNodes
    BY <1>1, <1>3
  <1> QED
    BY <1>1, <1>2, <1>3

LEMMA StoredFacts ==
    ASSUME NEW w \in Walks, NEW node \in Nodes, node.inode \in Inodes,
           NEW s, s = Stored(w, node)
    PROVE  /\ s \in Walks /\ s.at = w.next /\ s.at # Nil /\ s.next = (w.next + 1) % NNodes
           /\ s.nodes[s.at] = node
           /\ \A k \in 0 .. NNodes : k # w.next => s.nodes[k] = w.nodes[k]
  <1>1. /\ w.nodes \in Rings /\ w.next \in 0 .. NNodes - 1
        /\ RootIs(w.nodes) /\ NNodes \in Nat \ {0}
    BY WalkFacts
  <1>2. w.next \in 0 .. NNodes /\ w.next # NNodes /\ w.next # -1
    BY <1>1
  <1> DEFINE r == [w.nodes EXCEPT ![w.next] = node]
             m == (w.next + 1) % NNodes
  <1>3. /\ r \in Rings /\ r[w.next] = node
        /\ \A k \in 0 .. NNodes : k # w.next => r[k] = w.nodes[k]
    BY <1>1, <1>2 DEF Rings
  <1>4. m \in 0 .. NNodes - 1
    BY <1>1, NextFacts
  <1>5. s = [nodes |-> r, next |-> m, at |-> w.next]
    BY DEF Stored
  <1> HIDE DEF r, m
  <1>6. RootIs(r)
    BY <1>1, <1>2, <1>3 DEF RootIs, RootNode
  <1>7. s.nodes = r /\ s.next = m /\ s.at = w.next
    BY <1>5
  <1>8. s \in [nodes : Rings, next : 0 .. NNodes - 1, at : -1 .. NNodes]
    BY <1>1, <1>2, <1>3, <1>4, <1>5
  <1> QED
    BY <1>2, <1>3, <1>6, <1>7, <1>8 DEF Walks, Nil, m

LEMMA LostFacts ==
    ASSUME NEW w \in Walks, NEW s, s = [w EXCEPT !.at = Nil]
    PROVE  s \in Walks /\ s.at = Nil /\ s.nodes = w.nodes /\ s.next = w.next
  <1>1. Nil \in -1 .. NNodes
    BY VfsAssumption DEF Nil
  <1> QED
    BY <1>1 DEF Walks

\* One lookup, apart from the place of the ring where it leaves the node.
LEMMA LookupFacts ==
    ASSUME NEW t \in Trees, NEW w \in Walks, NEW name,
           w.at # Nil => w.nodes[w.at].type = t[w.nodes[w.at].inode].type,
           NEW s, s = Lookup(t, w, name),
           NEW i, i = IF w.at = Nil THEN 0 ELSE w.nodes[w.at].inode
    PROVE  /\ s \in Walks
           /\ s.at = Nil <=> Step(t, i, name) = 0
           /\ s.at # Nil => s.nodes[s.at].inode = Step(t, i, name)
                            /\ s.nodes[s.at].type = t[Step(t, i, name)].type
           /\ \/ s.at = Nil /\ s.nodes = w.nodes /\ s.next = w.next
              \/ /\ s.at = w.next /\ s.next = (w.next + 1) % NNodes
                 /\ \A k \in 0 .. NNodes : k # w.next => s.nodes[k] = w.nodes[k]
  <1>1. CASE w.at = Nil
    <2>1. s = [w EXCEPT !.at = Nil]
      BY <1>1 DEF Lookup
    <2>2. Step(t, i, name) = 0
      BY <1>1 DEF Step
    <2> QED
      BY <2>1, <2>2, LostFacts
  <1>2. CASE w.at # Nil
    <2>0. i \in Inodes /\ i # 0 /\ i = w.nodes[w.at].inode /\ w.nodes[w.at].type = t[i].type
      BY <1>2, WalkFacts, InodeFacts
    <2>1. CASE ~Has(t, i, name)
      <3>1. s = [w EXCEPT !.at = Nil]
        BY <2>0, <2>1 DEF Lookup
      <3>2. Step(t, i, name) = 0
        BY <2>1 DEF Step
      <3> QED
        BY <3>1, <3>2, LostFacts
    <2>2. CASE Has(t, i, name)
      <3> DEFINE c == Child(t, i, name)
                 node == [inode |-> c, type |-> t[c].type]
      <3>1. w.nodes[w.at].type = "dir"
        BY <2>0, <2>2 DEF Has
      <3>2. s = Stored(w, node)
        BY <1>2, <2>0, <2>2, <3>1 DEF Lookup
      <3>3. c \in Inodes /\ Step(t, i, name) = c
        BY <2>0, <2>2, FindFacts DEF Step
      <3>4. node \in Nodes /\ node.inode = c /\ node.type = t[c].type
        BY <3>3, TreeFacts DEF Nodes
      <3>5. c # 0
        BY <3>3, InodeFacts
      <3> HIDE DEF node, c
      <3>6. /\ s \in Walks /\ s.at = w.next /\ s.at # Nil /\ s.next = (w.next + 1) % NNodes
            /\ s.nodes[s.at] = node
            /\ \A k \in 0 .. NNodes : k # w.next => s.nodes[k] = w.nodes[k]
        BY <3>2, <3>3, <3>4, StoredFacts
      <3> QED
        BY <3>3, <3>4, <3>5, <3>6
    <2> QED
      BY <2>1, <2>2
  <1> QED
    BY <1>1, <1>2

\* The node reached tells the type of its inode.
TrueWalks(t) ==
    {w \in Walks : w.at # Nil => w.nodes[w.at].type = t[w.nodes[w.at].inode].type}

LEMMA StartFacts ==
    ASSUME NEW t \in Trees, t[Root].type = "dir", NEW w \in Walks,
           NEW s, s = [w EXCEPT !.at = RootNode]
    PROVE  /\ s \in TrueWalks(t) /\ s.at = RootNode /\ RootNode # Nil
           /\ s.nodes = w.nodes /\ s.next = w.next /\ s.nodes[s.at].inode = Root
  <1>1. RootNode \in -1 .. NNodes /\ RootNode # Nil /\ RootNode \in 0 .. NNodes
    BY VfsAssumption DEF RootNode, Nil
  <1>2. /\ w \in [nodes : Rings, next : 0 .. NNodes - 1, at : -1 .. NNodes]
        /\ RootIs(w.nodes)
    BY DEF Walks
  <1>3. /\ s \in [nodes : Rings, next : 0 .. NNodes - 1, at : -1 .. NNodes]
        /\ s.nodes = w.nodes /\ s.next = w.next /\ s.at = RootNode
    BY <1>1, <1>2
  <1>4. s.nodes[s.at].inode = Root /\ s.nodes[s.at].type = "dir"
    BY <1>2, <1>3 DEF RootIs
  <1> QED
    BY <1>1, <1>2, <1>3, <1>4, InodeFacts DEF Walks, TrueWalks

LEMMA LookupTrue ==
    ASSUME NEW t \in Trees, NEW w \in TrueWalks(t), NEW name
    PROVE  Lookup(t, w, name) \in TrueWalks(t)
  <1>1. w \in Walks /\ (w.at # Nil => w.nodes[w.at].type = t[w.nodes[w.at].inode].type)
    BY DEF TrueWalks
  <1> DEFINE s == Lookup(t, w, name)
  <1>2. PICK i : i = IF w.at = Nil THEN 0 ELSE w.nodes[w.at].inode
    OBVIOUS
  <1>3. /\ s \in Walks
        /\ s.at # Nil => s.nodes[s.at].inode = Step(t, i, name)
                         /\ s.nodes[s.at].type = t[Step(t, i, name)].type
    BY <1>1, <1>2, LookupFacts
  <1> HIDE DEF s
  <1>4. s \in TrueWalks(t)
    BY <1>3 DEF TrueWalks
  <1> QED
    BY <1>4 DEF s

\* The loop of vfs_open_node.
LEMMA OpenTurns ==
    ASSUME NEW t \in Trees, t[Root].type = "dir", NEW w \in Walks, NEW path \in Seq(Names)
    PROVE  \E g \in [0 .. Len(path) -> TrueWalks(t)] :
             /\ g[0] = [w EXCEPT !.at = RootNode]
             /\ \A d \in 1 .. Len(path) : g[d] = Lookup(t, g[d - 1], path[d])
             /\ OpenNode(t, w, path) = g[Len(path)]
  <1> DEFINE L == Len(path)
             W == TrueWalks(t)
             a == [w EXCEPT !.at = RootNode]
             step == [d \in 1 .. L |-> [s \in W |-> Lookup(t, s, path[d])]]
             P(g) == g = [d \in 0 .. L |->
                            IF d = 0 THEN a ELSE Lookup(t, g[d - 1], path[d])]
  <1>1. L \in Nat
    BY LenProperties
  <1>2. a \in W
    BY StartFacts
  <1>3. \A s \in W : \A n : Lookup(t, s, n) \in W
    BY LookupTrue
  <1>11. OpenNode(t, w, path) = (CHOOSE g : P(g))[L]
    BY DEF OpenNode
  <1> HIDE DEF W, L, a
  <1>4. step \in [1 .. L -> [W -> W]]
    BY <1>3
  <1>5. IsLoop(L, W, a, step)
    BY <1>1, <1>2, <1>4 DEF IsLoop
  <1>6. PICK g : Turns(g, L, W, a, step)
    <2> HIDE DEF step
    <2> QED
      BY <1>5, LoopExists
  <1>7. /\ g \in [0 .. L -> W] /\ g[0] = a
        /\ \A d \in 1 .. L : g[d] = step[d][g[d - 1]]
    BY <1>6 DEF Turns
  <1>8. ASSUME NEW d \in 1 .. L
        PROVE  g[d] = Lookup(t, g[d - 1], path[d])
    <2>1. g[d - 1] \in W
      BY <1>1, <1>7
    <2> QED
      BY <1>7, <2>1
  <1>9. P(g)
    <2>1. \A d \in 0 .. L : d = 0 \/ d \in 1 .. L
      BY <1>1
    <2>2. \A d \in 0 .. L : g[d] = IF d = 0 THEN a ELSE Lookup(t, g[d - 1], path[d])
      BY <1>7, <1>8, <2>1
    <2> QED
      BY <1>7, <2>2
  <1> DEFINE G == CHOOSE f : P(f)
  <1>10. P(G)
    BY <1>9, Zenon
  <1>12. OpenNode(t, w, path) = G[L]
    BY <1>11
  <1> HIDE DEF G
  <1>a. \A d \in 0 .. L : G[d] = IF d = 0 THEN a ELSE Lookup(t, G[d - 1], path[d])
    BY <1>10, Zenon
  <1>b. 0 \in 0 .. L /\ \A d \in 1 .. L : d \in 0 .. L /\ d # 0
    BY <1>1
  <1>13. G[0] = a /\ \A d \in 1 .. L : G[d] = Lookup(t, G[d - 1], path[d])
    BY <1>a, <1>b, Zenon
  <1>14. G \in [0 .. L -> W]
    <2> DEFINE Good == {d \in 0 .. L : G[d] \in W}
    <2>1. 0 \in Good
      BY <1>1, <1>2, <1>13
    <2>2. ASSUME NEW d \in 1 .. L, d - 1 \in Good
          PROVE  d \in Good
      BY <1>3, <1>13, <2>2
    <2> HIDE DEF Good
    <2>3. 0 .. L \subseteq Good
      BY <1>1, <2>1, <2>2, UpTo
    <2>4. \A d \in 0 .. L : G[d] \in W
      BY <2>3 DEF Good
    <2> QED
      BY <1>10, <2>4
  <1> QED
    BY <1>12, <1>13, <1>14 DEF W, L, a

\* How many nodes the ring hands out before node f.
Ahead(n, f) == IF f >= n THEN f - n ELSE f - n + NNodes

LEMMA AheadNat ==
    ASSUME NEW n \in 0 .. NNodes - 1, NEW f \in 0 .. NNodes - 1
    PROVE  Ahead(n, f) \in Nat
  <1>1. NNodes \in Nat
    BY VfsAssumption
  <1> QED
    BY <1>1 DEF Ahead

\* A walk finds what the path means, leaves the ring just behind the node found,
\* and a node is not written by a walk that is shorter than the ring's way to it.
LEMMA OpenFacts ==
    ASSUME NEW t \in Trees, t[Root].type = "dir", NEW w \in Walks, NEW path \in Seq(Names),
           NEW s, s = OpenNode(t, w, path)
    PROVE  /\ s \in Walks
           /\ s.at = Nil <=> Resolve(t, path) = 0
           /\ s.at # Nil => /\ s.nodes[s.at].inode = Resolve(t, path)
                            /\ s.nodes[s.at].type = t[Resolve(t, path)].type
                            /\ s.at = RootNode \/ /\ s.at \in 0 .. NNodes - 1
                                                  /\ s.next = (s.at + 1) % NNodes
           /\ \A f \in 0 .. NNodes - 1 : Len(path) <= Ahead(w.next, f) =>
                /\ s.nodes[f] = w.nodes[f]
                /\ Ahead(s.next, f) >= Ahead(w.next, f) - Len(path)
           /\ \A f \in 0 .. NNodes - 1 : Len(path) <= Ahead(w.next, f) + 1 =>
                s.nodes[f] = w.nodes[f] \/ s.at = f
           /\ \A f \in 0 .. NNodes :
                w.nodes[f].inode \in Inodes => s.nodes[f].inode \in Inodes
  <1>0. Len(path) \in Nat
    BY LenProperties
  <1>1. PICK g \in [0 .. Len(path) -> TrueWalks(t)] :
             /\ g[0] = [w EXCEPT !.at = RootNode]
             /\ \A d \in 1 .. Len(path) : g[d] = Lookup(t, g[d - 1], path[d])
             /\ OpenNode(t, w, path) = g[Len(path)]
    BY OpenTurns
  <1>2. PICK r \in [0 .. Len(path) -> Inodes \cup {0}] :
             /\ r[0] = Root
             /\ \A d \in 1 .. Len(path) : r[d] = Step(t, r[d - 1], path[d])
             /\ Resolve(t, path) = r[Len(path)]
    BY ResolveTurns
  <1> DEFINE Found(v, i) ==
               /\ v.at = Nil <=> i = 0
               /\ v.at # Nil => /\ v.nodes[v.at].inode = i
                                /\ v.nodes[v.at].type = t[i].type
                                /\ v.at = RootNode \/ /\ v.at \in 0 .. NNodes - 1
                                                      /\ v.next = (v.at + 1) % NNodes
             Far(v, d) ==
               \A f \in 0 .. NNodes - 1 : d <= Ahead(w.next, f) =>
                 v.nodes[f] = w.nodes[f] /\ Ahead(v.next, f) >= Ahead(w.next, f) - d
             Near(v, d) ==
               \A f \in 0 .. NNodes - 1 : d <= Ahead(w.next, f) + 1 =>
                 v.nodes[f] = w.nodes[f] \/ v.at = f
             Full(v) ==
               \A f \in 0 .. NNodes : w.nodes[f].inode \in Inodes => v.nodes[f].inode \in Inodes
             Good == {d \in 0 .. Len(path) :
                        Found(g[d], r[d]) /\ Far(g[d], d) /\ Near(g[d], d) /\ Full(g[d])}
  <1>3. 0 \in Good
    <2>1. /\ g[0].at = RootNode /\ RootNode # Nil /\ g[0] \in TrueWalks(t)
          /\ g[0].nodes = w.nodes /\ g[0].next = w.next /\ g[0].nodes[g[0].at].inode = Root
      BY <1>1, StartFacts
    <2>2. Root # 0 /\ r[0] = Root
      BY <1>2, InodeFacts
    <2>3. g[0].nodes[g[0].at].type = t[Root].type
      BY <2>1 DEF TrueWalks
    <2>4. Found(g[0], r[0])
      BY <2>1, <2>2, <2>3
    <2>5. \A f \in 0 .. NNodes - 1 : Ahead(w.next, f) \in Int
      BY WalkFacts DEF Ahead
    <2>6. Far(g[0], 0)
      BY <2>1, <2>5
    <2>7. Near(g[0], 0)
      BY <2>1
    <2>8. Full(g[0])
      BY <2>1
    <2> QED
      BY <1>0, <2>4, <2>6, <2>7, <2>8
  <1>4. ASSUME NEW d \in 1 .. Len(path), d - 1 \in Good
        PROVE  d \in Good
    <2>0. d - 1 \in 0 .. Len(path) /\ d \in 0 .. Len(path) /\ d \in Nat
      BY <1>0
    <2> DEFINE v == g[d - 1]
               u == g[d]
               i == r[d - 1]
    <2>1. v \in TrueWalks(t) /\ i \in Inodes \cup {0} /\ u = Lookup(t, v, path[d])
      BY <1>1, <2>0
    <2>2. Found(v, i) /\ Far(v, d - 1) /\ Full(v)
      BY <1>4
    <2>3. r[d] = Step(t, i, path[d])
      BY <1>2
    <2> HIDE DEF v, u, i
    <2>4. /\ v \in Walks /\ (v.at # Nil => v.nodes[v.at].type = t[v.nodes[v.at].inode].type)
          /\ i = IF v.at = Nil THEN 0 ELSE v.nodes[v.at].inode
      BY <2>1, <2>2 DEF TrueWalks
    <2>5. /\ u \in Walks
          /\ u.at = Nil <=> Step(t, i, path[d]) = 0
          /\ u.at # Nil => u.nodes[u.at].inode = Step(t, i, path[d])
                           /\ u.nodes[u.at].type = t[Step(t, i, path[d])].type
          /\ \/ u.at = Nil /\ u.nodes = v.nodes /\ u.next = v.next
             \/ /\ u.at = v.next /\ u.next = (v.next + 1) % NNodes
                /\ \A k \in 0 .. NNodes : k # v.next => u.nodes[k] = v.nodes[k]
      BY <2>1, <2>4, LookupFacts
    <2>6. v.next \in 0 .. NNodes - 1 /\ NNodes \in Nat /\ w.next \in 0 .. NNodes - 1
      BY <2>4, WalkFacts
    <2>7. Found(u, r[d])
      BY <2>3, <2>5, <2>6
    <2>8. ASSUME NEW f \in 0 .. NNodes - 1, d <= Ahead(w.next, f)
          PROVE  u.nodes[f] = w.nodes[f] /\ Ahead(u.next, f) >= Ahead(w.next, f) - d
      <3>1. Ahead(w.next, f) \in Nat /\ Ahead(v.next, f) \in Nat
        BY <2>6, AheadNat
      <3>2. v.nodes[f] = w.nodes[f] /\ Ahead(v.next, f) >= Ahead(w.next, f) - (d - 1)
        BY <2>0, <2>2, <2>8, <3>1
      <3>3. v.next # f
        BY <2>0, <2>6, <2>8, <3>1, <3>2 DEF Ahead
      <3>4. CASE u.nodes = v.nodes /\ u.next = v.next
        BY <2>0, <3>1, <3>2, <3>4
      <3>5. CASE /\ u.next = (v.next + 1) % NNodes
                 /\ \A k \in 0 .. NNodes : k # v.next => u.nodes[k] = v.nodes[k]
        <4>1. u.nodes[f] = w.nodes[f]
          BY <2>6, <3>2, <3>3, <3>5
        <4>2. u.next = IF v.next + 1 = NNodes THEN 0 ELSE v.next + 1
          BY <2>6, <3>5, NextFacts
        <4>3. Ahead(u.next, f) = Ahead(v.next, f) - 1
          BY <2>6, <3>3, <4>2 DEF Ahead
        <4> QED
          BY <2>0, <3>1, <3>2, <4>1, <4>3
      <3> QED
        BY <2>5, <3>4, <3>5
    <2>a. ASSUME NEW f \in 0 .. NNodes - 1, d <= Ahead(w.next, f) + 1
          PROVE  u.nodes[f] = w.nodes[f] \/ u.at = f
      <3>1. Ahead(w.next, f) \in Nat
        BY <2>6, AheadNat
      <3>2. v.nodes[f] = w.nodes[f]
        BY <2>0, <2>2, <2>a, <3>1
      <3>3. f \in 0 .. NNodes
        BY <2>6
      <3> QED
        BY <2>5, <3>2, <3>3
    <2>b. Full(u)
      <3>1. u.at # Nil => u.nodes[u.at].inode \in Inodes
        BY <2>5, WalkFacts
      <3>2. v.next # Nil
        BY <2>6 DEF Nil
      <3> QED
        BY <2>2, <2>5, <3>1, <3>2
    <2>9. Found(g[d], r[d]) /\ Far(g[d], d) /\ Near(g[d], d) /\ Full(g[d])
      BY <2>7, <2>8, <2>a, <2>b DEF u
    <2> HIDE DEF Found, Far, Near, Full
    <2> QED
      BY <2>0, <2>9
  <1> HIDE DEF Good
  <1>5. Len(path) \in Good
    <2>1. 0 .. Len(path) \subseteq Good
      BY <1>0, <1>3, <1>4, UpTo
    <2> QED
      BY <1>0, <2>1
  <1>6. /\ Found(g[Len(path)], r[Len(path)]) /\ Far(g[Len(path)], Len(path))
        /\ Near(g[Len(path)], Len(path)) /\ Full(g[Len(path)])
    <2> HIDE DEF Found, Far, Near, Full
    <2> QED
      BY <1>5 DEF Good
  <1>7. g[Len(path)] \in Walks
    BY <1>0 DEF TrueWalks
  <1> QED
    BY <1>1, <1>2, <1>6, <1>7

----------------------------------------------------------------------------
(* The operations on paths *)

RingOK == Start \in Walks

LEMMA PathsAreSeqs == Paths \subseteq Seq(Names)
  <1>1. MaxDepth \in Nat
    BY VfsAssumption
  <1> SUFFICES ASSUME NEW path \in Paths
               PROVE  path \in Seq(Names)
    OBVIOUS
  <1>2. PICK d \in 0 .. MaxDepth : path \in [1 .. d -> Names]
    BY DEF Paths
  <1> QED
    BY <1>1, <1>2, SeqDef

\* A step that walked leaves the ring as the walk did.
LEMMA WalkedRing ==
    ASSUME NEW w \in Walks, Walked(w)
    PROVE  RingOK'
  <1> DEFINE s == [nodes |-> w.nodes, next |-> w.next, at |-> RootNode]
  <1>1. w.nodes \in Rings /\ w.next \in 0 .. NNodes - 1 /\ RootIs(w.nodes) /\ NNodes \in Nat
    BY WalkFacts
  <1>2. RootNode \in -1 .. NNodes
    BY <1>1 DEF RootNode
  <1>3. s \in [nodes : Rings, next : 0 .. NNodes - 1, at : -1 .. NNodes]
    BY <1>1, <1>2
  <1>4. s.nodes[s.at].inode = Root /\ s.nodes = w.nodes
    BY <1>1 DEF RootIs
  <1>5. s \in Walks
    BY <1>1, <1>3, <1>4, InodeFacts DEF Walks
  <1> QED
    BY <1>5 DEF Walked, RingOK, Start

\* vfs_find_parent
LEMMA ParentFacts ==
    ASSUME NEW t, TreeInv(t), NEW w \in Walks, NEW path \in Seq(Names), path # <<>>,
           NEW b, b = FindParent(t, w, path)
    PROVE  /\ b \in Walks /\ Last(path) \in Names
           /\ b.at = Nil <=> Resolve(t, Front(path)) = 0
           /\ b.at # Nil => Inode(b) = Resolve(t, Front(path)) /\ Inode(b) \in Inodes
           /\ Resolve(t, path) # 0 => b.at # Nil
           /\ Front(path) \in Seq(Names) /\ Len(Front(path)) = Len(path) - 1
  <1>1. t \in Trees /\ t[Root].type = "dir"
    BY DEF TreeInv
  <1>2. /\ Front(path) \in Seq(Names) /\ Last(path) \in Names
        /\ Len(Front(path)) = Len(path) - 1
        /\ Resolve(t, path) = Step(t, Resolve(t, Front(path)), Last(path))
    BY <1>1, ResolveFront
  <1>3. /\ b \in Walks
        /\ b.at = Nil <=> Resolve(t, Front(path)) = 0
        /\ b.at # Nil => b.nodes[b.at].inode = Resolve(t, Front(path))
    BY <1>1, <1>2, OpenFacts DEF FindParent
  <1>4. b.at # Nil => b.nodes[b.at].inode \in Inodes
    BY <1>3, WalkFacts
  <1>5. Resolve(t, path) # 0 => Resolve(t, Front(path)) # 0
    BY <1>2 DEF Step
  <1> QED
    BY <1>2, <1>3, <1>4, <1>5 DEF Inode

\* vfs_unlink and vfs_rmdir
LEMMA RemovePathFacts ==
    ASSUME NEW t, TreeInv(t), NEW w \in Walks, NEW path \in Seq(Names),
           NEW type \in {"file", "dir"}, NEW r, r = RemovePath(t, w, path, type)
    PROVE  r.w \in Walks /\ GrowsBut(t, r.t) /\ (type = "file" => Grows(t, r.t))
  <1> DEFINE a == OpenNode(t, w, path)
             b == FindParent(t, a, path)
  <1>1. t \in Trees /\ t[Root].type = "dir"
    BY DEF TreeInv
  <1>2. a \in Walks /\ (a.at # Nil => Resolve(t, path) # 0)
    BY <1>1, OpenFacts
  <1>0. r = IF a.at = Nil \/ Type(a) # type \/ path = <<>> THEN [t |-> t, w |-> a]
            ELSE [t |-> Removed(t, Inode(b), Last(path), type), w |-> b]
    BY DEF RemovePath
  <1>b. path # <<>> => /\ b \in Walks /\ Last(path) \in Names
                       /\ b.at # Nil => Inode(b) \in Inodes
                       /\ Resolve(t, path) # 0 => b.at # Nil
    <2> HIDE DEF a
    <2> QED
      BY <1>2, ParentFacts
  <1> HIDE DEF a, b
  <1>3. CASE a.at = Nil \/ Type(a) # type \/ path = <<>>
    <2>1. r.t = t /\ r.w = a
      BY <1>0, <1>3
    <2> QED
      BY <1>2, <2>1 DEF Grows, GrowsBut
  <1>4. CASE ~(a.at = Nil \/ Type(a) # type \/ path = <<>>)
    <2>1. r.t = Removed(t, Inode(b), Last(path), type) /\ r.w = b
      BY <1>0, <1>4
    <2>2. b \in Walks /\ Last(path) \in Names /\ Inode(b) \in Inodes
      BY <1>2, <1>4, <1>b
    <2>3. PICK u : u = Removed(t, Inode(b), Last(path), type)
      OBVIOUS
    <2>4. PICK p \in Inodes, n \in Names : p = Inode(b) /\ n = Last(path)
      BY <2>2
    <2>5. GrowsBut(t, u) /\ (type = "file" => Grows(t, u))
      BY <2>3, <2>4, RemovedKept
    <2> QED
      BY <2>1, <2>2, <2>3, <2>5
  <1> QED
    BY <1>3, <1>4

Frames == [path : Seq(Names), index : Nat \ {0}]

\* The beginning of vfs_rmtree
LEMMA EnterFacts ==
    ASSUME NEW t, TreeInv(t), NEW w \in Walks, NEW path \in Seq(Names),
           NEW r, r = Enter(t, w, path)
    PROVE  /\ r.w \in Walks /\ Grows(t, r.t) /\ r.stack \in Seq(Frames)
           /\ r.stack # <<>> => Resolve(t, path) # 0 /\ r.t = t
  <1> DEFINE a == OpenNode(t, w, path)
             e == RemovePath(t, a, path, "file")
             o == OpenNode(t, a, path)
  <1>1. t \in Trees /\ t[Root].type = "dir"
    BY DEF TreeInv
  <1>2. a \in Walks /\ (a.at # Nil => Resolve(t, path) # 0)
    BY <1>1, OpenFacts
  <1>3. r = IF a.at = Nil \/ Type(a) # "dir" THEN [t |-> e.t, w |-> e.w, stack |-> <<>>]
            ELSE [t |-> t, w |-> o, stack |-> <<Frame(path)>>]
    BY DEF Enter
  <1>4. e.w \in Walks /\ Grows(t, e.t) /\ o \in Walks
    <2> HIDE DEF a
    <2>1. PICK type \in {"file", "dir"} : type = "file"
      OBVIOUS
    <2>2. e = RemovePath(t, a, path, type)
      BY <2>1
    <2>3. e.w \in Walks /\ Grows(t, e.t)
      <3> HIDE DEF e
      <3> QED
        BY <1>2, <2>1, <2>2, RemovePathFacts
    <2> QED
      BY <1>1, <1>2, <2>3, OpenFacts
  <1> HIDE DEF a, e, o
  <1>5. CASE a.at = Nil \/ Type(a) # "dir"
    <2>1. r.t = e.t /\ r.w = e.w /\ r.stack = <<>>
      BY <1>3, <1>5
    <2> QED
      BY <1>4, <2>1
  <1>6. CASE ~(a.at = Nil \/ Type(a) # "dir")
    <2>1. r.t = t /\ r.w = o /\ r.stack = <<Frame(path)>>
      BY <1>3, <1>6
    <2>2. Frame(path) \in Frames
      BY DEF Frame, Frames
    <2>3. <<Frame(path)>> \in Seq(Frames)
      BY <2>2
    <2> QED
      BY <1>2, <1>4, <1>6, <2>1, <2>3 DEF Grows
  <1> QED
    BY <1>5, <1>6

----------------------------------------------------------------------------
(* The invariant *)

NoFile == \A fd \in Fds : file[fd] = Nil

Descriptors ==
    [op : {"load", "save", "echo"}, path : Seq(Names), fd : Fds,
     at : {"use", "truncate", "close"}]

Removals ==
    [op : {"rmtree"}, path : Seq(Names), stack : Seq(Frames) \ {<<>>},
     top : Inodes, below : SUBSET Inodes, thin : BOOLEAN]

\* The node is vfs_root, or the last that the ring has handed out.
Latest(f) == f = RootNode \/ (f \in 0 .. NNodes - 1 /\ next = (f + 1) % NNodes)

\* While a command holds a descriptor, the node is the one that its path names,
\* and until the truncation of a save has walked again it is the latest.
DescOK ==
    /\ cmd \in Descriptors
    /\ file[cmd.fd] \in 0 .. NNodes
    /\ \A fd \in Fds : fd # cmd.fd => file[fd] = Nil
    /\ Len(cmd.path) <= NNodes => nodes[file[cmd.fd]].inode = Resolve(tree, cmd.path)
    /\ cmd.at = "truncate" => Latest(file[cmd.fd])

CmdOK == \/ cmd = Idle /\ NoFile
         \/ cmd \in Removals /\ NoFile
         \/ DescOK

VInv ==
    /\ TreeInv(tree) /\ RingOK /\ CmdOK
    /\ file \in [Fds -> -1 .. NNodes]
    /\ ~lost => Named(tree)

LEMMA CmdCases ==
    ASSUME CmdOK
    PROVE  /\ cmd = Idle => NoFile /\ cmd.op = "none"
           /\ cmd # Idle /\ cmd.op = "rmtree" => cmd \in Removals /\ NoFile
           /\ cmd # Idle /\ cmd.op \in {"load", "save", "echo"} => DescOK
           /\ cmd \in Descriptors \cup Removals => cmd # Idle
  <1>1. Idle.op = "none"
    BY DEF Idle
  <1>2. \A c \in Removals : c.op = "rmtree"
    BY DEF Removals
  <1>3. \A c \in Descriptors : c.op \in {"load", "save", "echo"}
    BY DEF Descriptors
  <1> QED
    BY <1>1, <1>2, <1>3 DEF CmdOK, DescOK

LEMMA EmptyFacts ==
    ASSUME NEW type \in {"file", "dir"}
    PROVE  Empty(type) \in Records
  <1>1. Empty(type) = [type |-> type, ents |-> <<>>, seen |-> 0, size |-> "whole"]
    BY DEF Empty, Free
  <1> QED
    BY <1>1 DEF Types, Sizes, Records

LEMMA VInitInv == VInit => VInv
  <1> SUFFICES ASSUME VInit
               PROVE  VInv
    OBVIOUS
  <1> USE DEF VInit
  <1>0. NNodes \in Nat \ {0} /\ Root \in Inodes /\ Root = 1
    BY VfsAssumption, InodeFacts DEF Root
  <1>1. \A i \in Inodes : tree[i].ents = <<>> /\ At(tree, i) = {}
                          /\ tree[i].type = (IF i = Root THEN "dir" ELSE "free")
                          /\ tree[i].seen = 0 /\ Len(tree[i].ents) = 0
    BY DEF At, Empty, Free
  <1>2. tree \in Trees
    <2>1. Empty("dir") \in Records
      BY EmptyFacts
    <2>2. Free \in Records
      BY DEF Free, Types, Sizes, Records
    <2> QED
      BY <2>1, <2>2 DEF Trees
  <1>3. TreeInv(tree)
    BY <1>0, <1>1, <1>2 DEF TreeInv, SeenOK, OnceBut
  <1>4. RingOK
    <2>1. nodes \in Rings
      <3>1. \A k \in 0 .. NNodes : nodes[k] \in Nodes
        BY <1>0 DEF Nodes, Types
      <3> QED
        BY <3>1 DEF Rings
    <2>2. RootNode \in 0 .. NNodes
      BY <1>0 DEF RootNode
    <2>3. RootIs(nodes)
      BY <2>2 DEF RootIs
    <2>4. next \in 0 .. NNodes - 1 /\ RootNode \in -1 .. NNodes
      BY <1>0 DEF RootNode
    <2>5. nodes[RootNode].inode \in Inodes
      BY <1>0, <2>3 DEF RootIs
    <2>6. /\ Start \in [nodes : Rings, next : 0 .. NNodes - 1, at : -1 .. NNodes]
          /\ Start.nodes = nodes /\ Start.at = RootNode
      BY <2>1, <2>4 DEF Start
    <2> QED
      BY <2>3, <2>5, <2>6 DEF RingOK, Walks
  <1>5. CmdOK /\ file \in [Fds -> -1 .. NNodes]
    <2>1. Nil \in -1 .. NNodes
      BY <1>0 DEF Nil
    <2> QED
      BY <2>1 DEF CmdOK, NoFile
  <1>6. Named(tree)
    BY <1>0, <1>1, <1>2, BelowFacts DEF Named
  <1> QED
    BY <1>3, <1>4, <1>5, <1>6 DEF VInv

\* A command of one step, or the end of a removal.
LEMMA IdleKept ==
    ASSUME VInv, cmd = Idle, UNCHANGED <<file, cmd>>, NEW w \in Walks, Walked(w),
           TreeInv(tree'), ~lost' => Named(tree')
    PROVE  VInv'
  <1>1. NoFile
    BY CmdCases DEF VInv
  <1>2. RingOK'
    BY WalkedRing
  <1>3. CmdOK'
    BY <1>1 DEF CmdOK, NoFile
  <1> QED
    BY <1>2, <1>3 DEF VInv

LEMMA LookKept ==
    ASSUME VInv, NEW path \in Seq(Names), Look(path)
    PROVE  VInv'
  <1>1. PICK w : w = OpenNode(tree, Start, path)
    OBVIOUS
  <1>2. w \in Walks
    BY <1>1, OpenFacts DEF VInv, TreeInv, RingOK
  <1>3. cmd = Idle /\ Walked(w) /\ UNCHANGED <<tree, file, cmd, lost>>
    BY <1>1 DEF Look
  <1> QED
    BY <1>2, <1>3, IdleKept DEF VInv

LEMMA MakeKept ==
    ASSUME VInv, NEW path \in Seq(Names), NEW type \in {"file", "dir"}, Make(path, type)
    PROVE  VInv'
  <1>1. PICK w : /\ w = FindParent(tree, Start, path) /\ Walked(w)
                 /\ IF w.at # Nil /\ Creatable(tree, Inode(w))
                      THEN \E place \in Places(tree, Inode(w)) :
                             tree' \in Outcomes(tree,
                                         Created(tree, Inode(w), Last(path), type, place))
                      ELSE UNCHANGED tree
    BY DEF Make
  <1>2. cmd = Idle /\ path # <<>> /\ UNCHANGED <<file, cmd, lost>>
    BY DEF Make
  <1>3. w \in Walks /\ Last(path) \in Names /\ (w.at # Nil => Inode(w) \in Inodes)
    BY <1>1, <1>2, ParentFacts DEF VInv, RingOK
  <1>4. Grows(tree, tree')
    <2>1. CASE w.at # Nil /\ Creatable(tree, Inode(w))
      <3>1. PICK place \in Places(tree, Inode(w)) :
              tree' \in Outcomes(tree, Created(tree, Inode(w), Last(path), type, place))
        BY <1>1, <2>1
      <3>2. PICK p \in Inodes : p = Inode(w)
        BY <1>3, <2>1
      <3>3. PICK n \in Names : n = Last(path)
        BY <1>3
      <3>4. PICK u : u = Created(tree, p, n, type, place)
        OBVIOUS
      <3>5. Grows(tree, u) /\ TreeInv(tree)
        BY <2>1, <3>1, <3>2, <3>4, CreatedKept DEF VInv
      <3>6. tree' \in Outcomes(tree, u)
        BY <3>1, <3>2, <3>3, <3>4
      <3> QED
        BY <3>5, <3>6, OutcomeKept
    <2>2. CASE ~(w.at # Nil /\ Creatable(tree, Inode(w)))
      BY <1>1, <2>2 DEF VInv, Grows
    <2> QED
      BY <2>1, <2>2
  <1> QED
    BY <1>1, <1>2, <1>3, <1>4, IdleKept DEF VInv, Grows

LEMMA RmdirKept ==
    ASSUME VInv, NEW path \in Seq(Names), Rmdir(path)
    PROVE  VInv'
  <1>1. PICK r : /\ r = RemovePath(tree, Start, path, "dir")
                 /\ tree' \in Outcomes(tree, r.t) /\ Walked(r.w)
    BY DEF Rmdir
  <1>2. cmd = Idle /\ UNCHANGED <<file, cmd>> /\ lost' = (lost \/ Drops(tree, tree'))
    BY DEF Rmdir
  <1>3. r.w \in Walks /\ GrowsBut(tree, r.t)
    BY <1>1, RemovePathFacts DEF VInv, RingOK
  <1>4. GrowsBut(tree, tree')
    BY <1>1, <1>3, OutcomeKept DEF VInv
  <1>5. TreeInv(tree') /\ (~lost' => Named(tree'))
    BY <1>2, <1>4 DEF VInv, GrowsBut
  <1> QED
    BY <1>1, <1>2, <1>3, <1>5, IdleKept

LEMMA RmKept ==
    ASSUME VInv, NEW path \in Seq(Names), Rm(path)
    PROVE  VInv'
  <1>1. PICK w : /\ w = OpenNode(tree, Start, path)
                 /\ IF w.at # Nil /\ Type(w) = "file"
                    THEN \E r \in {RemovePath(tree, w, path, "file")} :
                           tree' \in Outcomes(tree, r.t) /\ Walked(r.w)
                    ELSE Walked(w) /\ UNCHANGED tree
    BY DEF Rm
  <1>2. cmd = Idle /\ UNCHANGED <<file, cmd, lost>>
    BY DEF Rm
  <1>3. w \in Walks
    BY <1>1, OpenFacts DEF VInv, TreeInv, RingOK
  <1>4. CASE w.at # Nil /\ Type(w) = "file"
    <2>0. PICK type \in {"file", "dir"} : type = "file"
      OBVIOUS
    <2>1. PICK r : /\ r = RemovePath(tree, w, path, type)
                   /\ tree' \in Outcomes(tree, r.t) /\ Walked(r.w)
      BY <1>1, <1>4, <2>0
    <2>2. r.w \in Walks /\ Grows(tree, r.t)
      BY <1>3, <2>0, <2>1, RemovePathFacts DEF VInv
    <2>3. Grows(tree, tree')
      BY <2>1, <2>2, OutcomeKept DEF VInv
    <2> QED
      BY <1>2, <2>1, <2>2, <2>3, IdleKept DEF VInv, Grows
  <1>5. CASE ~(w.at # Nil /\ Type(w) = "file")
    BY <1>1, <1>2, <1>3, <1>5, IdleKept DEF VInv
  <1> QED
    BY <1>4, <1>5

\* The walks of mv: where the source's parent is, and what it is by then.
LEMMA MvWalks ==
    ASSUME NEW t, TreeInv(t), NEW w \in Walks, NEW old \in Seq(Names), NEW new \in Seq(Names),
           old # <<>>, Resolve(t, old) # 0,
           NEW a, a = FindParent(t, OpenNode(t, OpenNode(t, w, old), old), old),
           NEW dst, dst = OpenNode(t, a, new),
           NEW to, to = Target(dst, old, new),
           NEW b, b = IF to = <<>> THEN dst ELSE FindParent(t, dst, to)
    PROVE  /\ a \in Walks /\ dst \in Walks /\ b \in Walks
           /\ a.at # Nil /\ Inode(a) = Resolve(t, Front(old))
           /\ b.nodes[a.at].inode \in Inodes
           /\ to \in Seq(Names) /\ Last(old) \in Names
           /\ to # <<>> => Last(to) \in Names
           /\ to # <<>> /\ b.at # Nil => Inode(b) \in Inodes /\ Inode(b) = Resolve(t, Front(to))
  <1>0. t \in Trees /\ t[Root].type = "dir"
    BY DEF TreeInv
  <1>1. PICK w1 : w1 = OpenNode(t, w, old)
    OBVIOUS
  <1>2. w1 \in Walks
    BY <1>0, <1>1, OpenFacts
  <1>3. PICK w2 : w2 = OpenNode(t, w1, old)
    OBVIOUS
  <1>4. w2 \in Walks
    BY <1>0, <1>2, <1>3, OpenFacts
  <1>5. a = FindParent(t, w2, old)
    BY <1>1, <1>3
  <1>6. /\ a \in Walks /\ Last(old) \in Names /\ a.at # Nil
        /\ Inode(a) = Resolve(t, Front(old)) /\ Inode(a) \in Inodes
    BY <1>4, <1>5, ParentFacts
  <1>7. a.at \in 0 .. NNodes /\ a.nodes[a.at].inode \in Inodes
    BY <1>6, WalkFacts
  <1>8. dst \in Walks /\ dst.nodes[a.at].inode \in Inodes
    <2>1. a \in Walks /\ dst = OpenNode(t, a, new) /\ t \in Trees /\ t[Root].type = "dir"
      BY <1>0, <1>6
    <2>2. /\ dst \in Walks
          /\ \A k \in 0 .. NNodes : a.nodes[k].inode \in Inodes => dst.nodes[k].inode \in Inodes
      BY ONLY <2>1, new \in Seq(Names), OpenFacts
    <2> QED
      BY <1>7, <2>2
  <1>9. to \in Seq(Names)
    BY <1>6, AppendProperties DEF Target
  <1>10. CASE to = <<>>
    BY <1>6, <1>8, <1>9, <1>10
  <1>11. CASE to # <<>>
    <2>1. b = FindParent(t, dst, to)
      BY <1>11
    <2>2. /\ b \in Walks /\ Last(to) \in Names /\ Front(to) \in Seq(Names)
          /\ b.at # Nil => Inode(b) \in Inodes /\ Inode(b) = Resolve(t, Front(to))
      BY <1>8, <1>9, <1>11, <2>1, ParentFacts
    <2>3. b = OpenNode(t, dst, Front(to))
      BY <2>1 DEF FindParent
    <2>4. b.nodes[a.at].inode \in Inodes
      <3>1. PICK f \in Seq(Names) : f = Front(to)
        BY <2>2
      <3>2. \A k \in 0 .. NNodes : dst.nodes[k].inode \in Inodes => b.nodes[k].inode \in Inodes
        <4>1. dst \in Walks /\ b = OpenNode(t, dst, f) /\ t \in Trees /\ t[Root].type = "dir"
          BY <1>0, <1>8, <2>3, <3>1
        <4> HIDE DEF Walks, Trees
        <4> QED
          BY ONLY <4>1, f \in Seq(Names), OpenFacts
      <3> QED
        BY <1>7, <1>8, <3>2
    <2> QED
      BY <1>6, <1>8, <1>9, <2>2, <2>4
  <1> QED
    BY <1>10, <1>11

LEMMA MvKept ==
    ASSUME VInv, NEW old \in Seq(Names), NEW new \in Seq(Names),
           old # <<>>, Resolve(tree, old) # 0, Mv(old, new)
    PROVE  VInv'
  <1>1. PICK a, dst, to, b :
          /\ a = FindParent(tree, OpenNode(tree, OpenNode(tree, Start, old), old), old)
          /\ dst = OpenNode(tree, a, new)
          /\ to = Target(dst, old, new)
          /\ b = IF to = <<>> THEN dst ELSE FindParent(tree, dst, to)
          /\ Walked(b)
          /\ IF b.at = Nil \/ to = <<>> THEN UNCHANGED <<tree, lost>>
             ELSE \E p \in {b.nodes[a.at].inode} :
                     /\ Renamed(p, Last(old), Inode(b), Last(to))
                     /\ lost' = (lost \/ (tree' # tree /\ IntoItself(p, Last(old), Inode(b))))
    BY DEF Mv
  <1>2. cmd = Idle /\ UNCHANGED <<file, cmd>>
    BY DEF Mv
  <1>3. /\ b \in Walks /\ b.nodes[a.at].inode \in Inodes /\ Last(old) \in Names
        /\ to # <<>> => Last(to) \in Names
        /\ to # <<>> /\ b.at # Nil => Inode(b) \in Inodes
    BY <1>1, MvWalks DEF VInv, RingOK
  <1>4. CASE b.at = Nil \/ to = <<>>
    BY <1>1, <1>2, <1>3, <1>4, IdleKept DEF VInv
  <1>5. CASE ~(b.at = Nil \/ to = <<>>)
    <2>1. PICK p : /\ p = b.nodes[a.at].inode
                   /\ Renamed(p, Last(old), Inode(b), Last(to))
                   /\ lost' = (lost \/ (tree' # tree /\ IntoItself(p, Last(old), Inode(b))))
      BY <1>1, <1>5
    <2>2. PICK q, m, n : q = Inode(b) /\ m = Last(old) /\ n = Last(to)
      OBVIOUS
    <2>3. p \in Inodes /\ q \in Inodes /\ m \in Names /\ n \in Names
      BY <1>3, <1>5, <2>1, <2>2
    <2>4. TreeInv(tree') /\ (~lost' => Named(tree'))
      <3>1. CASE tree' = tree
        BY <2>1, <3>1 DEF VInv
      <3>2. CASE tree' # tree
        <4>1. /\ Renamable(tree, p, m, q, n)
              /\ \E place \in Places(tree, q) :
                    tree' \in Outcomes(tree, Rename(tree, p, m, q, n, place))
          BY <2>1, <2>2, <2>3, <3>2 DEF Renamed, Renamable, Rename
        <4>2. lost' = (lost \/ q \in Below(tree, Child(tree, p, m)))
          BY <2>1, <2>2, <3>2, <4>1 DEF IntoItself, Renamable
        <4>3. PICK u : /\ tree' \in Outcomes(tree, u)
                       /\ \E place \in Places(tree, q) : u = Rename(tree, p, m, q, n, place)
          BY <4>1
        <4>4. TreeInv(u) /\ (Named(tree) /\ q \notin Below(tree, Child(tree, p, m)) => Named(u))
          BY <4>1, <4>3, RenameKept DEF VInv
        <4>5. CASE Named(tree) /\ q \notin Below(tree, Child(tree, p, m))
          <5>1. Grows(tree, u) /\ TreeInv(tree)
            BY <4>4, <4>5 DEF Grows, VInv
          <5>2. Grows(tree, tree')
            BY <4>3, <5>1, OutcomeKept
          <5> QED
            BY <4>5, <5>2 DEF Grows
        <4>6. CASE ~(Named(tree) /\ q \notin Below(tree, Child(tree, p, m)))
          <5>1. TreeInv(tree')
            BY <3>2, <4>3, <4>4, OutcomeIs
          <5>2. lost'
            BY <4>2, <4>6 DEF VInv
          <5> QED
            BY <5>1, <5>2
        <4> QED
          BY <4>5, <4>6
      <3> QED
        BY <3>1, <3>2
    <2> QED
      BY <1>1, <1>2, <1>3, <2>4, IdleKept
  <1> QED
    BY <1>4, <1>5

\* vfs_open, after a walk w of the tree as it is then.
LEMMA OpenedKept ==
    ASSUME VInv, cmd = Idle, TreeInv(tree'), ~lost' => Named(tree'),
           NEW w0 \in Walks, NEW path \in Seq(Names), NEW w, w = OpenNode(tree', w0, path),
           Walked(w), NEW op \in {"load", "save", "echo"}, NEW at \in {"use", "truncate"},
           Opened(w, op, path, at)
    PROVE  VInv'
  <1>0. NoFile /\ file \in [Fds -> -1 .. NNodes]
    BY CmdCases DEF VInv
  <1>1. /\ w \in Walks
        /\ w.at # Nil => /\ w.nodes[w.at].inode = Resolve(tree', path)
                         /\ w.at = RootNode \/ /\ w.at \in 0 .. NNodes - 1
                                               /\ w.next = (w.at + 1) % NNodes
    BY OpenFacts DEF TreeInv
  <1>2. RingOK'
    BY <1>1, WalkedRing
  <1>3. CASE w.at = Nil \/ \A fd \in Fds : file[fd] # Nil
    <2>1. UNCHANGED <<file, cmd>>
      BY <1>3 DEF Opened
    <2> QED
      BY <1>1, <2>1, IdleKept
  <1>4. CASE ~(w.at = Nil \/ \A fd \in Fds : file[fd] # Nil)
    <2> DEFINE M == {f \in Fds : file[f] = Nil}
    <2>1. M \subseteq Nat /\ M # {}
      BY <1>4, VfsAssumption DEF Fds
    <2>2. Min(M) \in M
      <3> HIDE DEF M
      <3> QED
        BY <2>1, MinFacts
    <2>3. PICK fd : fd = Min(M)
      OBVIOUS
    <2>4. fd \in Fds
      BY <2>2, <2>3
    <2>5. file' = [file EXCEPT ![fd] = w.at] /\ cmd' = Descriptor(op, path, fd, at)
      BY <1>4, <2>3 DEF Opened
    <2>6. w.at \in 0 .. NNodes /\ w.at \in -1 .. NNodes
      BY <1>1, <1>4, WalkFacts
    <2>7. file' \in [Fds -> -1 .. NNodes] /\ file'[fd] = w.at
          /\ \A f \in Fds : f # fd => file'[f] = Nil
      BY <1>0, <2>4, <2>5, <2>6 DEF NoFile
    <2>8. /\ cmd' \in Descriptors /\ cmd'.fd = fd /\ cmd'.path = path
          /\ cmd'.at = at
      BY <2>4, <2>5 DEF Descriptor, Descriptors
    <2>9. nodes' = w.nodes /\ next' = w.next
      BY DEF Walked
    <2>10. DescOK'
      BY <1>1, <1>4, <2>6, <2>7, <2>8, <2>9 DEF DescOK, Latest
    <2> QED
      BY <1>2, <2>7, <2>10 DEF VInv, CmdOK
  <1> QED
    BY <1>3, <1>4

LEMMA LoadKept ==
    ASSUME VInv, NEW path \in Seq(Names), Load(path)
    PROVE  VInv'
  <1>1. PICK w : /\ w = OpenNode(tree, Start, path) /\ Walked(w)
                 /\ Opened(w, "load", path, "use")
    BY DEF Load
  <1>2. cmd = Idle /\ tree' = tree /\ lost' = lost
    BY DEF Load
  <1>3. /\ TreeInv(tree') /\ (~lost' => Named(tree')) /\ Start \in Walks
        /\ w = OpenNode(tree', Start, path)
    BY <1>1, <1>2 DEF VInv, RingOK
  <1>4. PICK op \in {"load", "save", "echo"}, at \in {"use", "truncate"} : op = "load" /\ at = "use"
    OBVIOUS
  <1> QED
    BY <1>1, <1>2, <1>3, <1>4, OpenedKept

LEMMA CreateAndOpenKept ==
    ASSUME VInv, cmd = Idle, UNCHANGED lost, NEW path \in Seq(Names), path # <<>>,
           NEW w \in Walks, NEW p, p = FindParent(tree, w, path),
           NEW op \in {"load", "save", "echo"}, NEW at \in {"use", "truncate"},
           CreateAndOpen(p, op, path, at)
    PROVE  VInv'
  <1>1. p \in Walks /\ Last(path) \in Names /\ (p.at # Nil => Inode(p) \in Inodes)
    BY ParentFacts DEF VInv
  <1>2. CASE p.at # Nil /\ Creatable(tree, Inode(p))
    <2>1. PICK place \in Places(tree, Inode(p)) :
            \E t, s : /\ t \in Outcomes(tree, Created(tree, Inode(p), Last(path), "file", place))
                      /\ s = OpenNode(t, p, path)
                      /\ tree' = t /\ Walked(s) /\ Opened(s, op, path, at)
      BY <1>2 DEF CreateAndOpen
    <2>0. PICK t, s : /\ t \in Outcomes(tree, Created(tree, Inode(p), Last(path), "file", place))
                      /\ s = OpenNode(t, p, path)
                      /\ tree' = t /\ Walked(s) /\ Opened(s, op, path, at)
      BY <2>1
    <2>2. PICK i \in Inodes : i = Inode(p)
      BY <1>1, <1>2
    <2>3. PICK n \in Names : n = Last(path)
      BY <1>1
    <2>4. PICK type \in {"file", "dir"} : type = "file"
      OBVIOUS
    <2>a. PICK u : u = Created(tree, i, n, type, place)
      OBVIOUS
    <2>b. Grows(tree, u) /\ TreeInv(tree)
      BY <1>2, <2>2, <2>a, CreatedKept DEF VInv
    <2>c. t \in Outcomes(tree, u)
      BY <2>0, <2>2, <2>3, <2>4, <2>a
    <2>5. Grows(tree, t)
      BY <2>b, <2>c, OutcomeKept
    <2>6. TreeInv(tree') /\ (~lost' => Named(tree')) /\ s = OpenNode(tree', p, path)
      BY <2>0, <2>5 DEF VInv, Grows
    <2> QED
      BY <1>1, <2>0, <2>6, OpenedKept
  <1>3. CASE ~(p.at # Nil /\ Creatable(tree, Inode(p)))
    <2>1. Walked(p) /\ UNCHANGED <<tree, file, cmd>>
      BY <1>3 DEF CreateAndOpen
    <2> QED
      BY <1>1, <2>1, IdleKept DEF VInv
  <1> QED
    BY <1>2, <1>3

LEMMA SaveKept ==
    ASSUME VInv, NEW path \in Seq(Names), Save(path)
    PROVE  VInv'
  <1>1. PICK w : /\ w = OpenNode(tree, Start, path)
                 /\ IF w.at # Nil
                    THEN Walked(w) /\ Opened(w, "save", path, "truncate") /\ UNCHANGED tree
                    ELSE CreateAndOpen(FindParent(tree, w, path), "save", path, "truncate")
    BY DEF Save
  <1>2. cmd = Idle /\ lost' = lost
    BY DEF Save
  <1>3. w \in Walks /\ Start \in Walks /\ (w.at = Nil <=> Resolve(tree, path) = 0)
    BY <1>1, OpenFacts DEF VInv, TreeInv, RingOK
  <1>4. PICK op \in {"load", "save", "echo"}, at \in {"use", "truncate"} :
          op = "save" /\ at = "truncate"
    OBVIOUS
  <1>5. CASE w.at # Nil
    <2>1. Walked(w) /\ Opened(w, op, path, at) /\ tree' = tree
      BY <1>1, <1>4, <1>5
    <2>2. TreeInv(tree') /\ (~lost' => Named(tree')) /\ w = OpenNode(tree', Start, path)
      BY <1>1, <1>2, <2>1 DEF VInv
    <2> QED
      BY <1>2, <1>3, <2>1, <2>2, OpenedKept
  <1>6. CASE w.at = Nil
    <2>1. path # <<>>
      BY <1>3, <1>6, ResolveFacts, InodeFacts DEF VInv, TreeInv
    <2>2. PICK p : p = FindParent(tree, w, path)
      OBVIOUS
    <2>3. CreateAndOpen(p, op, path, at)
      BY <1>1, <1>4, <1>6, <2>2
    <2> QED
      BY <1>2, <1>3, <2>1, <2>2, <2>3, CreateAndOpenKept
  <1> QED
    BY <1>5, <1>6

LEMMA EchoKept ==
    ASSUME VInv, NEW path \in Seq(Names), EchoWrite(path)
    PROVE  VInv'
  <1>1. /\ cmd = Idle /\ path # <<>> /\ UNCHANGED lost
        /\ CreateAndOpen(FindParent(tree, Start, path), "echo", path, "use")
    BY DEF EchoWrite
  <1>2. PICK op \in {"load", "save", "echo"}, at \in {"use", "truncate"} :
          op = "echo" /\ at = "use"
    OBVIOUS
  <1>3. PICK p : p = FindParent(tree, Start, path)
    OBVIOUS
  <1>4. CreateAndOpen(p, op, path, at)
    BY <1>1, <1>2, <1>3
  <1>5. PICK w \in Walks : w = Start
    BY DEF VInv, RingOK
  <1> QED
    BY <1>1, <1>3, <1>4, <1>5, CreateAndOpenKept

\* The second walk of a save goes the way of the first one: it is as long as the
\* ring at most, so it comes to the descriptor's node only at its end.
LEMMA TruncateKept ==
    ASSUME VInv, Truncate
    PROVE  VInv'
  <1>1. /\ cmd # Idle /\ cmd.op = "save" /\ cmd.at = "truncate"
        /\ UNCHANGED <<tree, file, lost>>
    BY DEF Truncate
  <1>2. DescOK /\ cmd \in Descriptors /\ cmd.path \in Seq(Names) /\ cmd.fd \in Fds
    BY <1>1, CmdCases DEF VInv, DescOK, Descriptors
  <1>3. PICK w : /\ w = OpenNode(tree, Start, cmd.path) /\ Walked(w)
                 /\ cmd' = [cmd EXCEPT !.at = IF w.at # Nil /\ Type(w) = "file"
                                              THEN "use" ELSE "close"]
    BY DEF Truncate
  <1>4. PICK path, f : path = cmd.path /\ f = file[cmd.fd]
    OBVIOUS
  <1>a. path \in Seq(Names)
    BY <1>2, <1>4
  <1>5. tree \in Trees /\ tree[Root].type = "dir" /\ Start \in Walks
    BY DEF VInv, TreeInv, RingOK
  <1>6. /\ w \in Walks
        /\ w.at # Nil => w.nodes[w.at].inode = Resolve(tree, path)
        /\ \A k \in 0 .. NNodes - 1 : Len(path) <= Ahead(next, k) + 1 =>
             w.nodes[k] = nodes[k] \/ w.at = k
    <2>1. Start.next = next /\ Start.nodes = nodes
      BY DEF Start
    <2>2. w = OpenNode(tree, Start, path)
      BY <1>3, <1>4
    <2>3. PICK s \in Walks : s = Start
      BY <1>5
    <2>4. /\ w \in Walks
          /\ w.at # Nil => w.nodes[w.at].inode = Resolve(tree, path)
          /\ \A k \in 0 .. NNodes - 1 : Len(path) <= Ahead(s.next, k) + 1 =>
               w.nodes[k] = s.nodes[k] \/ w.at = k
      BY <1>5, <1>a, <2>2, <2>3, OpenFacts
    <2> QED
      BY <2>1, <2>3, <2>4
  <1>7. f \in 0 .. NNodes /\ Latest(f)
    BY <1>1, <1>2, <1>4 DEF DescOK
  <1>8. ASSUME Len(path) <= NNodes
        PROVE  w.nodes[f].inode = Resolve(tree, path)
    <2>1. nodes[f].inode = Resolve(tree, path)
      BY <1>2, <1>4, <1>8 DEF DescOK
    <2>2. CASE f = RootNode
      <3>1. RootIs(w.nodes) /\ RootIs(nodes)
        BY <1>5, <1>6, WalkFacts DEF Start
      <3> QED
        BY <2>1, <2>2, <3>1 DEF RootIs
    <2>3. CASE f \in 0 .. NNodes - 1 /\ next = (f + 1) % NNodes
      <3>1. NNodes \in Nat \ {0} /\ Len(path) \in Nat
        BY <1>a, VfsAssumption, LenProperties
      <3>2. next = IF f + 1 = NNodes THEN 0 ELSE f + 1
        BY <2>3, NextFacts
      <3>3. Ahead(next, f) + 1 = NNodes
        BY <2>3, <3>1, <3>2 DEF Ahead
      <3>4. w.nodes[f] = nodes[f] \/ w.at = f
        BY <1>6, <1>8, <2>3, <3>3
      <3>5. f # Nil
        BY <2>3, <3>1 DEF Nil
      <3> QED
        BY <1>6, <2>1, <3>4, <3>5
    <2> QED
      BY <1>7, <2>2, <2>3 DEF Latest
  <1>9. /\ cmd' \in Descriptors /\ cmd'.fd = cmd.fd /\ cmd'.path = path
        /\ cmd'.at # "truncate"
    BY <1>2, <1>3, <1>4 DEF Descriptors
  <1>10. DescOK'
    BY <1>1, <1>2, <1>3, <1>4, <1>7, <1>8, <1>9 DEF DescOK, Walked
  <1>11. RingOK'
    BY <1>3, <1>6, WalkedRing
  <1> QED
    BY <1>1, <1>10, <1>11 DEF VInv, CmdOK

LEMMA TransferKept ==
    ASSUME VInv, Transfer
    PROVE  VInv'
  <1>1. /\ cmd # Idle /\ cmd.op \in {"load", "save", "echo"}
        /\ cmd' = [cmd EXCEPT !.at = "close"]
        /\ UNCHANGED <<tree, nodes, next, file, lost>>
    BY DEF Transfer
  <1>2. DescOK /\ cmd \in Descriptors
    BY <1>1, CmdCases DEF VInv, DescOK
  <1>3. /\ cmd' \in Descriptors /\ cmd'.fd = cmd.fd /\ cmd'.path = cmd.path
        /\ cmd'.at # "truncate"
    BY <1>1, <1>2 DEF Descriptors
  <1>4. DescOK'
    BY <1>1, <1>2, <1>3 DEF DescOK
  <1> QED
    BY <1>1, <1>4 DEF VInv, CmdOK, RingOK, Start

LEMMA CloseKept ==
    ASSUME VInv, Close
    PROVE  VInv'
  <1>1. /\ cmd # Idle /\ cmd.op \in {"load", "save", "echo"}
        /\ file' = [file EXCEPT ![cmd.fd] = Nil] /\ cmd' = Idle
        /\ UNCHANGED <<tree, nodes, next, lost>>
    BY DEF Close
  <1>2. DescOK /\ cmd.fd \in Fds
    BY <1>1, CmdCases DEF VInv, DescOK, Descriptors
  <1>3. Nil \in -1 .. NNodes
    BY VfsAssumption DEF Nil
  <1>4. file' \in [Fds -> -1 .. NNodes] /\ \A fd \in Fds : file'[fd] = Nil
    BY <1>1, <1>2, <1>3 DEF VInv, DescOK
  <1> QED
    BY <1>1, <1>4 DEF VInv, CmdOK, NoFile, RingOK, Start

LEMMA RmTreeKept ==
    ASSUME VInv, NEW path \in Seq(Names), RmTree(path)
    PROVE  VInv'
  <1>1. PICK w : /\ w = OpenNode(tree, Start, path)
                 /\ IF w.at = Nil THEN Walked(w) /\ UNCHANGED <<tree, cmd>>
                    ELSE \E r \in {Enter(tree, w, path)} :
                            /\ tree' \in Outcomes(tree, r.t) /\ Walked(r.w)
                            /\ cmd' = Removing(r, path)
    BY DEF RmTree
  <1>2. cmd = Idle /\ UNCHANGED <<file, lost>> /\ NoFile
    BY CmdCases DEF RmTree, VInv
  <1>3. w \in Walks
    BY <1>1, OpenFacts DEF VInv, TreeInv, RingOK
  <1>4. CASE w.at = Nil
    BY <1>1, <1>2, <1>3, <1>4, IdleKept DEF VInv
  <1>5. CASE w.at # Nil
    <2>1. PICK r : /\ r = Enter(tree, w, path)
                   /\ tree' \in Outcomes(tree, r.t) /\ Walked(r.w) /\ cmd' = Removing(r, path)
      BY <1>1, <1>5
    <2>2. /\ r.w \in Walks /\ Grows(tree, r.t) /\ r.stack \in Seq(Frames)
          /\ r.stack # <<>> => Resolve(tree, path) # 0
      BY <1>3, <2>1, EnterFacts DEF VInv
    <2>a. Grows(tree, tree')
      BY <2>1, <2>2, OutcomeKept DEF VInv
    <2>3. CASE r.stack = <<>>
      <3>1. cmd' = cmd
        BY <1>2, <2>1, <2>3 DEF Removing
      <3> QED
        BY <1>2, <2>1, <2>2, <2>a, <3>1, IdleKept DEF VInv, Grows
    <2>4. CASE r.stack # <<>>
      <3> DEFINE top == Resolve(tree, path)
                 low == Below(tree, top)
                 thin == \A i \in low : Thin(tree, i)
      <3>1. top \in Inodes
        BY <2>2, <2>4, ResolveFacts DEF VInv, TreeInv
      <3>2. low \in SUBSET Inodes
        BY <3>1, BelowFacts DEF VInv, TreeInv
      <3>3. cmd' = [op |-> "rmtree", path |-> path, stack |-> r.stack, top |-> top,
                    below |-> low, thin |-> thin]
        BY <2>1, <2>4 DEF Removing
      <3>4. thin \in BOOLEAN /\ r.stack \in Seq(Frames) \ {<<>>}
        BY <2>2, <2>4
      <3> HIDE DEF top, low, thin
      <3>5. cmd' \in Removals
        BY <3>1, <3>2, <3>3, <3>4 DEF Removals
      <3>6. NoFile' /\ RingOK'
        BY <1>2, <2>1, <2>2, WalkedRing DEF NoFile
      <3> QED
        BY <1>2, <2>a, <3>5, <3>6 DEF VInv, CmdOK, Grows
    <2> QED
      BY <2>3, <2>4
  <1> QED
    BY <1>4, <1>5

LEMMA VisitFacts ==
    ASSUME NEW t, TreeInv(t), NEW w \in Walks, NEW path \in Seq(Names), NEW e \in Entries,
           NEW r, r = Visit(t, w, path, e)
    PROVE  r.w \in Walks /\ Grows(t, r.t) /\ r.stack \in Seq(Frames)
  <1>1. e.name \in Names
    BY DEF Entries
  <1>2. PICK long : long = Append(path, e.name)
    OBVIOUS
  <1>3. long \in Seq(Names)
    BY <1>1, <1>2, AppendProperties
  <1>4. CASE t[e.inode].type = "dir"
    <2>1. r = Enter(t, w, long)
      BY <1>2, <1>4 DEF Visit
    <2> QED
      BY <1>3, <2>1, EnterFacts
  <1>5. CASE t[e.inode].type # "dir"
    <2>1. PICK s : s = RemovePath(t, w, long, "file")
      OBVIOUS
    <2>2. r = [t |-> s.t, w |-> s.w, stack |-> <<>>]
      BY <1>2, <1>5, <2>1 DEF Visit
    <2>3. PICK type \in {"file", "dir"} : type = "file"
      OBVIOUS
    <2>4. s.w \in Walks /\ Grows(t, s.t)
      BY <1>3, <2>1, <2>3, RemovePathFacts
    <2>5. r.t = s.t /\ r.w = s.w /\ r.stack = <<>>
      BY <2>2
    <2> QED
      BY <2>4, <2>5, EmptySeq
  <1> QED
    BY <1>4, <1>5

LEMMA RmTreeStepKept ==
    ASSUME VInv, RmTreeStep
    PROVE  VInv'
  <1>1. cmd # Idle /\ cmd.op = "rmtree" /\ UNCHANGED file
        /\ lost' = (lost \/ Drops(tree, tree'))
    BY DEF RmTreeStep
  <1>2. cmd \in Removals /\ NoFile
    BY <1>1, CmdCases DEF VInv
  <1>3. PICK f, w :
          /\ f = Head(cmd.stack) /\ w = OpenNode(tree, Start, f.path)
          /\ IF w.at # Nil /\ Type(w) = "dir" /\ f.index <= tree[Inode(w)].seen
             THEN \E r \in {Visit(tree, w, f.path, tree[Inode(w)].ents[f.index])} :
                     /\ tree' \in Outcomes(tree, r.t) /\ Walked(r.w)
                     /\ cmd' = [cmd EXCEPT !.stack =
                                   r.stack \o <<[f EXCEPT !.index = @ + 1]>> \o Tail(@)]
             ELSE \E r \in {RemovePath(tree, w, f.path, "dir")} :
                     /\ tree' \in Outcomes(tree, r.t) /\ Walked(r.w)
                     /\ cmd' = (IF Tail(cmd.stack) = <<>> THEN Idle
                                ELSE [cmd EXCEPT !.stack = Tail(@)])
    BY DEF RmTreeStep
  <1>4. PICK st : st = cmd.stack
    OBVIOUS
  <1>5. st \in Seq(Frames) /\ st # <<>>
    BY <1>2, <1>4 DEF Removals
  <1>6. f \in Frames /\ Tail(st) \in Seq(Frames)
    BY <1>3, <1>4, <1>5, HeadTailProperties
  <1>7. f.path \in Seq(Names) /\ f.index \in Nat \ {0}
    BY <1>6 DEF Frames
  <1>8. tree \in Trees /\ tree[Root].type = "dir" /\ Start \in Walks /\ TreeInv(tree)
    BY DEF VInv, TreeInv, RingOK
  <1>9. w \in Walks /\ (w.at # Nil => Inode(w) \in Inodes)
    <2>1. w \in Walks
      BY <1>3, <1>7, <1>8, OpenFacts
    <2> QED
      BY <2>1, WalkFacts DEF Inode
  <1>10. CASE w.at # Nil /\ Type(w) = "dir" /\ f.index <= tree[Inode(w)].seen
    <2>1. PICK e : e = tree[Inode(w)].ents[f.index]
      OBVIOUS
    <2>2. e \in Entries
      <3>1. PICK i \in Inodes : i = Inode(w)
        BY <1>9, <1>10
      <3>2. f.index \in At(tree, i)
        BY <1>7, <1>8, <1>10, <3>1, TreeFacts DEF At, TreeInv, SeenOK
      <3> QED
        BY <1>8, <2>1, <3>1, <3>2, TreeFacts
    <2>3. PICK r : /\ r = Visit(tree, w, f.path, e)
                   /\ tree' \in Outcomes(tree, r.t) /\ Walked(r.w)
                   /\ cmd' = [cmd EXCEPT !.stack =
                                 r.stack \o <<[f EXCEPT !.index = @ + 1]>> \o Tail(st)]
      BY <1>3, <1>4, <1>10, <2>1
    <2>4. r.w \in Walks /\ Grows(tree, r.t) /\ r.stack \in Seq(Frames)
      BY <1>7, <1>8, <1>9, <2>2, <2>3, VisitFacts
    <2>a. Grows(tree, tree')
      BY <1>8, <2>3, <2>4, OutcomeKept
    <2>b. TreeInv(tree') /\ (~lost' => Named(tree'))
      BY <1>1, <2>a DEF Grows, VInv
    <2>5. PICK g : g = [f EXCEPT !.index = @ + 1]
      OBVIOUS
    <2>6. g \in Frames
      <3>1. PICK n \in Nat \ {0} : n = f.index + 1
        BY <1>7
      <3>2. g = [f EXCEPT !.index = n]
        BY <2>5, <3>1
      <3> QED
        BY <1>6, <3>2 DEF Frames
    <2>7. PICK new : new = r.stack \o <<g>> \o Tail(st)
      OBVIOUS
    <2>8. new \in Seq(Frames) /\ new # <<>>
      <3>1. <<g>> \in Seq(Frames) /\ Len(<<g>>) = 1
        BY <2>6
      <3>2. /\ r.stack \o <<g>> \in Seq(Frames)
            /\ Len(r.stack \o <<g>>) = Len(r.stack) + 1
        BY <2>4, <3>1, ConcatProperties
      <3>3. new \in Seq(Frames) /\ Len(new) = Len(r.stack \o <<g>>) + Len(Tail(st))
        BY <1>6, <2>7, <3>2, ConcatProperties
      <3>4. Len(r.stack) \in Nat /\ Len(Tail(st)) \in Nat
        BY <1>6, <2>4, LenProperties
      <3>5. Len(new) # 0
        <4>1. PICK a \in Nat, b \in Nat : a = Len(r.stack) /\ b = Len(Tail(st))
          BY <3>4
        <4>2. Len(new) = (a + 1) + b
          BY <3>2, <3>3, <4>1
        <4> HIDE DEF Frames
        <4> QED
          BY ONLY <4>2, a \in Nat, b \in Nat
      <3> QED
        BY <3>3, <3>5, EmptySeq
    <2>9. cmd' = [cmd EXCEPT !.stack = new]
      BY <2>3, <2>5, <2>7
    <2>10. cmd' \in Removals
      BY <1>2, <2>8, <2>9 DEF Removals
    <2>11. NoFile' /\ RingOK'
      BY <1>1, <1>2, <2>3, <2>4, WalkedRing DEF NoFile
    <2> QED
      BY <1>1, <2>b, <2>10, <2>11 DEF VInv, CmdOK
  <1>11. CASE ~(w.at # Nil /\ Type(w) = "dir" /\ f.index <= tree[Inode(w)].seen)
    <2>1. PICK r : /\ r = RemovePath(tree, w, f.path, "dir")
                   /\ tree' \in Outcomes(tree, r.t) /\ Walked(r.w)
                   /\ cmd' = (IF Tail(st) = <<>> THEN Idle
                              ELSE [cmd EXCEPT !.stack = Tail(st)])
      BY <1>3, <1>4, <1>11
    <2>2. PICK type \in {"file", "dir"} : type = "dir"
      OBVIOUS
    <2>3. r.w \in Walks /\ GrowsBut(tree, r.t)
      BY <1>7, <1>8, <1>9, <2>1, <2>2, RemovePathFacts
    <2>a. GrowsBut(tree, tree')
      BY <1>8, <2>1, <2>3, OutcomeKept
    <2>b. TreeInv(tree') /\ (~lost' => Named(tree'))
      BY <1>1, <2>a DEF GrowsBut, VInv
    <2>4. NoFile' /\ RingOK'
      BY <1>1, <1>2, <2>1, <2>3, WalkedRing DEF NoFile
    <2>5. CASE Tail(st) = <<>>
      BY <1>1, <2>1, <2>b, <2>4, <2>5 DEF VInv, CmdOK
    <2>6. CASE Tail(st) # <<>>
      <3>1. cmd' \in Removals
        BY <1>2, <1>6, <2>1, <2>6 DEF Removals
      <3> QED
        BY <1>1, <2>b, <2>4, <3>1 DEF VInv, CmdOK
    <2> QED
      BY <2>5, <2>6
  <1> QED
    BY <1>10, <1>11

LEMMA VNextInv == VInv /\ [VNext]_vvars => VInv'
  <1> SUFFICES ASSUME VInv, [VNext]_vvars
               PROVE  VInv'
    OBVIOUS
  <1>1. CASE UNCHANGED vvars
    BY <1>1 DEF vvars, VInv, RingOK, Start, CmdOK, NoFile, DescOK, Latest
  <1>2. ASSUME NEW path \in Paths, Command(path)
        PROVE  VInv'
    <2>1. path \in Seq(Names)
      BY PathsAreSeqs
    <2>2. CASE Look(path)
      BY <2>1, <2>2, LookKept
    <2>3. CASE Make(path, "file")
      BY <2>1, <2>3, MakeKept
    <2>4. CASE Make(path, "dir")
      BY <2>1, <2>4, MakeKept
    <2>5. CASE Rm(path)
      BY <2>1, <2>5, RmKept
    <2>6. CASE Rmdir(path)
      BY <2>1, <2>6, RmdirKept
    <2>7. CASE RmTree(path)
      BY <2>1, <2>7, RmTreeKept
    <2>8. CASE Load(path)
      BY <2>1, <2>8, LoadKept
    <2>9. CASE Save(path)
      BY <2>1, <2>9, SaveKept
    <2>10. CASE EchoWrite(path)
      BY <2>1, <2>10, EchoKept
    <2> QED
      BY <1>2, <2>2, <2>3, <2>4, <2>5, <2>6, <2>7, <2>8, <2>9, <2>10 DEF Command
  <1>3. ASSUME NEW old \in Paths, old # <<>>, Resolve(tree, old) # 0,
               NEW new \in Paths, Mv(old, new)
        PROVE  VInv'
    BY <1>3, PathsAreSeqs, MvKept
  <1> QED
    BY <1>1, <1>2, <1>3, TruncateKept, TransferKept, CloseKept, RmTreeStepKept DEF VNext

\* The tree stays a tree, nothing in it loses its record unless a directory was moved
\* into itself or removed with records that it did not list, and a descriptor keeps
\* its file.
THEOREM VfsInvariance == VSpec => []VInv
  BY VInitInv, VNextInv, PTL DEF VSpec

\* A descriptor holds the file its path names for as long as it is open, whatever
\* the size of the ring, and no command leaves one open.
THEOREM DescriptorKept == VSpec => []FdKept
  <1>1. VInv => FdKept
    <2> SUFFICES ASSUME VInv, NEW fd \in Fds, file[fd] # Nil
                 PROVE  /\ cmd # Idle /\ cmd.fd = fd
                        /\ Len(cmd.path) <= NNodes =>
                             nodes[file[fd]].inode = Resolve(tree, cmd.path)
      BY DEF FdKept
    <2>1. DescOK
      BY DEF VInv, CmdOK, NoFile
    <2>2. cmd # Idle
      BY <2>1, CmdCases DEF VInv, DescOK
    <2> QED
      BY <2>1, <2>2 DEF DescOK
  <1> QED
    BY <1>1, VfsInvariance, PTL

\* What the directories list is a tree, and all of the tree where no size is vague.
LEMMA ListingFacts ==
    ASSUME NEW t, TreeInv(t)
    PROVE  /\ Listing(t) \in Trees
           /\ \A i \in Inodes : t[i].size # "vague" => Listing(t)[i].ents = t[i].ents
  <1>1. t \in Trees /\ SeenOK(t)
    BY DEF TreeInv
  <1>2. ASSUME NEW i \in Inodes
        PROVE  /\ Listing(t)[i] \in Records
               /\ Listing(t)[i].ents = SubSeq(t[i].ents, 1, t[i].seen)
    <2>1. t[i] \in Records /\ t[i].seen <= Len(t[i].ents)
      BY <1>1 DEF Trees, SeenOK
    <2>2. t[i].ents \in Seq(Entries) /\ t[i].seen \in Nat /\ Len(t[i].ents) \in Nat
      BY <1>1, TreeFacts
    <2>3. PICK n : n = SubSeq(t[i].ents, 1, t[i].seen)
      OBVIOUS
    <2>4. n \in Seq(Entries)
      BY <2>1, <2>2, <2>3, SubSeqProperties
    <2>5. Listing(t)[i] = [t[i] EXCEPT !.ents = n]
      BY <2>3 DEF Listing
    <2> QED
      BY <2>1, <2>3, <2>4, <2>5 DEF Records
  <1>3. Listing(t) \in Trees
    BY <1>2 DEF Listing, Trees
  <1>4. ASSUME NEW i \in Inodes, t[i].size # "vague"
        PROVE  Listing(t)[i].ents = t[i].ents
    <2>1. t[i].seen = Len(t[i].ents) /\ t[i].ents \in Seq(Entries) /\ Len(t[i].ents) \in Nat
      BY <1>1, <1>4, TreeFacts DEF SeenOK
    <2>2. PICK s \in Seq(Entries) : s = t[i].ents
      BY <2>1
    <2>3. /\ SubSeq(s, 1, Len(s)) \in Seq(Entries) /\ Len(SubSeq(s, 1, Len(s))) = Len(s)
          /\ \A k \in 1 .. Len(s) : SubSeq(s, 1, Len(s))[k] = s[k]
      BY <2>1, <2>2, SubSeqProperties
    <2>4. SubSeq(s, 1, Len(s)) = s
      BY <2>3, SeqEqual
    <2> QED
      BY <1>2, <2>1, <2>2, <2>4
  <1> QED
    BY <1>3, <1>4

\* Every inode in use has a record below the root, and a path unless it is in a
\* directory whose size has become vague: nothing else is leaked by a create, a
\* removal, a move or a removal of a tree, until a directory is moved into itself or
\* removed with records that it does not list.
THEOREM NothingUnnamed == VSpec => []AllNamed
  <1>1. ASSUME VInv, ~lost, NEW i \in Inodes, tree[i].type # "free"
        PROVE  /\ i \in Below(tree, Root)
               /\ \/ i \in Below(Listing(tree), Root)
                  \/ \E d \in Inodes : tree[d].size = "vague" /\ i \in Below(tree, d)
    <2> DEFINE L == Listing(tree)
               B == Below(L, Root)
               C == {j \in Inodes : \/ j \in B
                                    \/ \E d \in Inodes : tree[d].size = "vague"
                                                         /\ j \in Below(tree, d)}
    <2>1. TreeInv(tree) /\ tree \in Trees /\ i \in Below(tree, Root)
      BY <1>1 DEF VInv, Named, TreeInv
    <2>2. /\ L \in Trees
          /\ \A j \in Inodes : tree[j].size # "vague" => L[j].ents = tree[j].ents
      BY <2>1, ListingFacts
    <2> HIDE DEF L
    <2>3. B \in SUBSET Inodes /\ Root \in B /\ Closed(L, B)
      BY <2>2, BelowFacts, InodeFacts
    <2> HIDE DEF B
    <2>4. Closed(tree, C)
      <3> SUFFICES ASSUME NEW j \in C, NEW k \in At(tree, j)
                   PROVE  tree[j].ents[k].inode \in C
        BY DEF Closed
      <3>1. j \in Inodes /\ tree[j].ents[k].inode \in Inodes
        BY <2>1, TreeFacts
      <3>2. CASE \E d \in Inodes : tree[d].size = "vague" /\ j \in Below(tree, d)
        <4>1. PICK d \in Inodes : tree[d].size = "vague" /\ j \in Below(tree, d)
          BY <3>2
        <4>2. Closed(tree, Below(tree, d))
          BY <2>1, BelowFacts
        <4>3. tree[j].ents[k].inode \in Below(tree, d)
          BY <4>1, <4>2 DEF Closed
        <4> QED
          BY <3>1, <4>1, <4>3
      <3>3. CASE tree[j].size = "vague"
        <4>1. j \in Below(tree, j)
          BY <2>1, <3>1, BelowFacts
        <4> QED
          BY <3>1, <3>2, <3>3, <4>1
      <3>4. CASE j \in B /\ tree[j].size # "vague"
        <4>1. k \in At(L, j) /\ L[j].ents[k] = tree[j].ents[k]
          BY <2>2, <3>1, <3>4 DEF At
        <4>2. tree[j].ents[k].inode \in B
          BY <2>3, <3>4, <4>1 DEF Closed
        <4> QED
          BY <3>1, <4>2
      <3> QED
        BY <3>2, <3>3, <3>4
    <2>5. Root \in C
      BY <2>3, InodeFacts
    <2>6. Below(tree, Root) \subseteq C
      <3> HIDE DEF C
      <3> QED
        BY <2>1, <2>4, <2>5, BelowFacts, InodeFacts
    <2> QED
      BY <2>1, <2>6 DEF B, L
  <1>2. VInv => AllNamed
    BY <1>1 DEF AllNamed
  <1> QED
    BY <1>2, VfsInvariance, PTL

----------------------------------------------------------------------------
(* What a move does to the paths *)

\* A path is its parent's path and its name.
LEMMA FrontLast ==
    ASSUME NEW x \in Seq(Names), NEW y \in Seq(Names), x # <<>>, y # <<>>,
           Front(x) = Front(y), Last(x) = Last(y)
    PROVE  x = y
  <1>1. /\ Len(Front(x)) = Len(x) - 1 /\ Len(x) \in Nat \ {0} /\ Last(x) = x[Len(x)]
        /\ \A k \in 1 .. Len(x) - 1 : Front(x)[k] = x[k]
    BY FrontFacts
  <1>2. /\ Len(Front(y)) = Len(y) - 1 /\ Len(y) \in Nat \ {0} /\ Last(y) = y[Len(y)]
        /\ \A k \in 1 .. Len(y) - 1 : Front(y)[k] = y[k]
    BY FrontFacts
  <1>3. Len(x) = Len(y)
    BY <1>1, <1>2
  <1>4. \A k \in 1 .. Len(x) : x[k] = y[k]
    <2> SUFFICES ASSUME NEW k \in 1 .. Len(x)
                 PROVE  x[k] = y[k]
      OBVIOUS
    <2>1. k = Len(x) \/ k \in 1 .. Len(x) - 1
      BY <1>1
    <2> QED
      BY <1>1, <1>2, <1>3, <2>1
  <1> QED
    BY <1>3, <1>4, SeqEqual

LEMMA PrefixFacts ==
    ASSUME NEW x \in Seq(Names), NEW y \in Seq(Names)
    PROVE  IsPrefix(x, y) <=> Len(x) <= Len(y) /\ \A k \in 1 .. Len(x) : x[k] = y[k]
  <1>0. /\ Len(x) \in Nat /\ \A k \in 1 .. Len(x) : x[k] \in Names
        /\ Len(y) \in Nat /\ \A k \in 1 .. Len(y) : y[k] \in Names
    BY SeqFacts
  <1> SUFFICES ASSUME Len(x) <= Len(y)
               PROVE  SubSeq(x, 1, Len(x)) = SubSeq(y, 1, Len(x)) <=>
                      \A k \in 1 .. Len(x) : x[k] = y[k]
    BY DEF IsPrefix
  <1>1. PICK n \in Nat : n = Len(x)
    BY <1>0
  <1>2. (\A k \in 1 .. n : x[k] \in Names) /\ (\A k \in 1 .. n : y[k] \in Names)
    BY <1>0, <1>1
  <1> DEFINE a == SubSeq(x, 1, n)
             b == SubSeq(y, 1, n)
  <1>3. /\ a \in Seq(Names) /\ Len(a) = (IF 1 <= n THEN n - 1 + 1 ELSE 0)
        /\ \A k \in 1 .. n - 1 + 1 : a[k] = x[1 + k - 1]
        /\ b \in Seq(Names) /\ Len(b) = (IF 1 <= n THEN n - 1 + 1 ELSE 0)
        /\ \A k \in 1 .. n - 1 + 1 : b[k] = y[1 + k - 1]
    <2>1. 1 \in Int /\ n \in Int
      OBVIOUS
    <2> QED
      BY <1>2, <2>1, SubSeqProperties
  <1>4. /\ Len(a) = n /\ Len(b) = n
        /\ \A k \in 1 .. n : a[k] = x[k]
        /\ \A k \in 1 .. n : b[k] = y[k]
    BY <1>3
  <1> HIDE DEF a, b
  <1>5. ASSUME \A k \in 1 .. n : x[k] = y[k]
        PROVE  a = b
    <2>1. \A k \in 1 .. Len(a) : a[k] = b[k]
      BY <1>4, <1>5
    <2> QED
      BY <1>3, <1>4, <2>1, SeqEqual
  <1>6. a = b => \A k \in 1 .. n : x[k] = y[k]
    BY <1>4
  <1> QED
    BY <1>1, <1>5, <1>6 DEF a, b

\* A prefix of the parent's path is a prefix of the path; a prefix of the path
\* that is none of the parent's is the path.
LEMMA PrefixFront ==
    ASSUME NEW x \in Seq(Names), NEW y \in Seq(Names), y # <<>>
    PROVE  /\ IsPrefix(x, Front(y)) => IsPrefix(x, y)
           /\ IsPrefix(x, y) => x = y \/ IsPrefix(x, Front(y))
           /\ ~IsPrefix(y, Front(y)) /\ IsPrefix(y, y)
  <1>0. Len(x) \in Nat /\ Len(y) \in Nat
    BY SeqFacts
  <1>1. /\ Front(y) \in Seq(Names) /\ Len(Front(y)) = Len(y) - 1
        /\ \A k \in 1 .. Len(y) - 1 : Front(y)[k] = y[k]
    BY FrontFacts
  <1> DEFINE f == Front(y)
  <1> HIDE DEF f
  <1>2. f \in Seq(Names) /\ Len(f) = Len(y) - 1 /\ \A k \in 1 .. Len(y) - 1 : f[k] = y[k]
    BY <1>1 DEF f
  <1>3. /\ IsPrefix(x, f) <=> Len(x) <= Len(f) /\ \A k \in 1 .. Len(x) : x[k] = f[k]
        /\ IsPrefix(x, y) <=> Len(x) <= Len(y) /\ \A k \in 1 .. Len(x) : x[k] = y[k]
        /\ IsPrefix(y, f) <=> Len(y) <= Len(f) /\ \A k \in 1 .. Len(y) : y[k] = f[k]
        /\ IsPrefix(y, y) <=> Len(y) <= Len(y) /\ \A k \in 1 .. Len(y) : y[k] = y[k]
    BY <1>2, PrefixFacts
  <1>4. IsPrefix(x, f) => IsPrefix(x, y)
    BY <1>0, <1>2, <1>3
  <1>5. ASSUME IsPrefix(x, y)
        PROVE  x = y \/ IsPrefix(x, f)
    <2>1. CASE Len(x) = Len(y)
      BY <1>3, <1>5, <2>1, SeqEqual
    <2>2. CASE Len(x) # Len(y)
      BY <1>0, <1>2, <1>3, <1>5, <2>2
    <2> QED
      BY <2>1, <2>2
  <1>6. ~IsPrefix(y, f) /\ IsPrefix(y, y)
    BY <1>0, <1>2, <1>3
  <1> QED
    BY <1>4, <1>5, <1>6 DEF f

\* What a path with components names has an entry, at the place found.
LEMMA NamedEntry ==
    ASSUME NEW t, TreeInv(t), NEW x \in Seq(Names), x # <<>>, Resolve(t, x) # 0
    PROVE  /\ Resolve(t, Front(x)) \in Inodes /\ Resolve(t, x) \in Inodes
           /\ Resolve(t, x) = Find(t, Resolve(t, Front(x)), Last(x))
           /\ \E k \in At(t, Resolve(t, Front(x))) :
                /\ t[Resolve(t, Front(x))].ents[k].name = Last(x)
                /\ t[Resolve(t, Front(x))].ents[k].inode = Resolve(t, x)
  <1>0. t \in Trees
    BY DEF TreeInv
  <1>1. /\ Front(x) \in Seq(Names)
        /\ Resolve(t, x) = Step(t, Resolve(t, Front(x)), Last(x))
    BY <1>0, ResolveFront
  <1>2. PICK i : i = Resolve(t, Front(x))
    OBVIOUS
  <1>3. i \in Inodes \cup {0} /\ i # 0 /\ Resolve(t, x) \in Inodes \cup {0}
    BY <1>0, <1>1, <1>2, ResolveFacts DEF Step
  <1>4. Has(t, i, Last(x)) /\ Resolve(t, x) = Child(t, i, Last(x))
    BY <1>1, <1>2 DEF Step
  <1>5. \E k \in At(t, i) : /\ t[i].ents[k].name = Last(x)
                            /\ t[i].ents[k].inode = Child(t, i, Last(x))
    BY <1>0, <1>3, <1>4, FindFacts
  <1> QED
    BY <1>2, <1>3, <1>4, <1>5 DEF Find

\* Two paths that name the same inode are the same.
LEMMA UniquePath ==
    ASSUME NEW t, TreeInv(t), NEW x \in Seq(Names), NEW y \in Seq(Names),
           Resolve(t, x) = Resolve(t, y), Resolve(t, x) # 0
    PROVE  x = y
  <1> DEFINE Same(k) == \A a, b \in Seq(Names) :
                          Len(a) = k /\ Resolve(t, a) = Resolve(t, b) /\ Resolve(t, a) # 0 => a = b
             Good == {k \in Nat : Same(k)}
  <1>0. t \in Trees /\ OnceBut(t, 0, 0)
    BY DEF TreeInv
  <1>1. ASSUME NEW a \in Seq(Names), a # <<>>, Resolve(t, a) # 0
        PROVE  Resolve(t, a) # Root
    BY <1>1, NamedEntry DEF TreeInv
  <1>2. Resolve(t, <<>>) = Root
    BY <1>0, ResolveFacts
  <1>3. 0 \in Good
    <2>1. ASSUME NEW a \in Seq(Names), NEW b \in Seq(Names), Len(a) = 0,
                 Resolve(t, a) = Resolve(t, b), Resolve(t, a) # 0
          PROVE  a = b
      <3>1. a = <<>>
        BY <2>1, SeqFacts
      <3>2. b = <<>>
        BY <1>1, <1>2, <2>1, <3>1
      <3> QED
        BY <3>1, <3>2
    <2> QED
      BY <2>1
  <1>4. ASSUME NEW k \in 1 .. Len(x), k - 1 \in Good
        PROVE  k \in Good
    <2>0. k \in Nat \ {0}
      BY SeqFacts
    <2>1. ASSUME NEW a \in Seq(Names), NEW b \in Seq(Names), Len(a) = k,
                 Resolve(t, a) = Resolve(t, b), Resolve(t, a) # 0
          PROVE  a = b
      <3>1. a # <<>>
        BY <2>0, <2>1, SeqFacts
      <3>2. b # <<>>
        BY <1>1, <1>2, <2>1, <3>1
      <3>3. PICK i, j : i = Resolve(t, Front(a)) /\ j = Resolve(t, Front(b))
        OBVIOUS
      <3>4. i \in Inodes /\ \E m \in At(t, i) :
              t[i].ents[m].name = Last(a) /\ t[i].ents[m].inode = Resolve(t, a)
        BY <2>1, <3>1, <3>3, NamedEntry
      <3>5. j \in Inodes /\ \E m \in At(t, j) :
              t[j].ents[m].name = Last(b) /\ t[j].ents[m].inode = Resolve(t, b)
        BY <2>1, <3>2, <3>3, NamedEntry
      <3>6. i = j /\ Last(a) = Last(b)
        <4>1. PICK m \in At(t, i) :
                t[i].ents[m].name = Last(a) /\ t[i].ents[m].inode = Resolve(t, a)
          BY <3>4
        <4>2. PICK n \in At(t, j) :
                t[j].ents[n].name = Last(b) /\ t[j].ents[n].inode = Resolve(t, b)
          BY <3>5
        <4>3. <<i, m>> # <<0, 0>> /\ <<j, n>> # <<0, 0>>
          BY <3>4, <3>5, InodeFacts
        <4>4. i = j /\ m = n
          BY <1>0, <2>1, <3>4, <3>5, <4>1, <4>2, <4>3 DEF OnceBut
        <4> QED
          BY <4>1, <4>2, <4>4
      <3>7. Front(a) \in Seq(Names) /\ Len(Front(a)) = k - 1 /\ Front(b) \in Seq(Names)
        BY <2>1, <3>1, <3>2, FrontFacts
      <3>8. i # 0
        BY <3>4, InodeFacts
      <3>9. Front(a) = Front(b)
        BY <1>4, <3>3, <3>6, <3>7, <3>8
      <3> QED
        BY <3>1, <3>2, <3>6, <3>9, FrontLast
    <2> QED
      BY <2>0, <2>1
  <1>5. Len(x) \in Nat
    BY SeqFacts
  <1> HIDE DEF Good
  <1>6. Len(x) \in Good
    <2>1. 0 .. Len(x) \subseteq Good
      BY <1>3, <1>4, <1>5, UpTo
    <2> QED
      BY <1>5, <2>1
  <1> QED
    BY <1>6 DEF Good

\* A longer path leads below.
LEMMA BelowPrefix ==
    ASSUME NEW t, TreeInv(t), NEW x \in Seq(Names), NEW y \in Seq(Names), IsPrefix(x, y),
           Resolve(t, y) # 0, Resolve(t, x) # 0
    PROVE  Resolve(t, y) \in Below(t, Resolve(t, x))
  <1> DEFINE B == Below(t, Resolve(t, x))
             In(k) == \A a \in Seq(Names) :
                        Len(a) = k /\ IsPrefix(x, a) /\ Resolve(t, a) # 0 => Resolve(t, a) \in B
             Good == {k \in Nat : In(k)}
  <1>0. t \in Trees
    BY DEF TreeInv
  <1>1. Resolve(t, x) \in B /\ Closed(t, B)
    <2>1. Resolve(t, x) \in Inodes
      BY <1>0, ResolveFacts
    <2> QED
      BY <1>0, <2>1, BelowFacts
  <1> HIDE DEF B
  <1>2. 0 \in Good
    <2>1. ASSUME NEW a \in Seq(Names), Len(a) = 0, IsPrefix(x, a)
          PROVE  a = x
      <3>1. Len(x) \in Nat /\ Len(x) <= 0
        BY <2>1, PrefixFacts, SeqFacts
      <3> QED
        BY <2>1, <3>1, SeqFacts
    <2> QED
      BY <1>1, <2>1
  <1>3. ASSUME NEW k \in 1 .. Len(y), k - 1 \in Good
        PROVE  k \in Good
    <2>0. k \in Nat \ {0}
      BY SeqFacts
    <2>1. ASSUME NEW a \in Seq(Names), Len(a) = k, IsPrefix(x, a), Resolve(t, a) # 0
          PROVE  Resolve(t, a) \in B
      <3>1. a # <<>>
        BY <2>0, <2>1, SeqFacts
      <3>2. CASE x = a
        BY <1>1, <3>2
      <3>3. CASE x # a
        <4>1. IsPrefix(x, Front(a)) /\ Front(a) \in Seq(Names) /\ Len(Front(a)) = k - 1
          BY <2>1, <3>1, <3>3, PrefixFront, FrontFacts
        <4>2. PICK i : i = Resolve(t, Front(a))
          OBVIOUS
        <4>3. i \in Inodes /\ i # 0
          BY <2>1, <3>1, <4>2, NamedEntry, InodeFacts
        <4>4. \E m \in At(t, i) : t[i].ents[m].inode = Resolve(t, a)
          BY <2>1, <3>1, <4>2, NamedEntry
        <4>5. i \in B
          BY <1>3, <4>1, <4>2, <4>3
        <4> QED
          BY <1>1, <4>4, <4>5 DEF Closed
      <3> QED
        BY <3>2, <3>3
    <2> QED
      BY <2>0, <2>1
  <1>4. Len(y) \in Nat
    BY SeqFacts
  <1> HIDE DEF Good
  <1>5. Len(y) \in Good
    <2>1. 0 .. Len(y) \subseteq Good
      BY <1>2, <1>3, <1>4, UpTo
    <2> QED
      BY <1>4, <2>1
  <1> QED
    BY <1>5 DEF Good, B

\* A rename changes what two names mean, and nothing else.
LEMMA RenameFind ==
    ASSUME NEW t, TreeInv(t), NEW p, NEW old, NEW q, NEW new, Renamable(t, p, old, q, new),
           t[q].size # "vague", NEW place \in Places(t, q), NEW u, u = Rename(t, p, old, q, new, place)
    PROVE  /\ u \in Trees
           /\ Find(u, q, new) = Child(t, p, old)
           /\ \A j \in Inodes : \A n : <<j, n>> # <<p, old>> /\ <<j, n>> # <<q, new>> =>
                Find(u, j, n) = Find(t, j, n)
  <1> DEFINE c == Child(t, p, old)
             v == Linked(t, q, new, c, place)
             x == Index(v, p, old)
             y == Index(t, p, old)
  <1>0. t \in Trees /\ p \in Inodes /\ q \in Inodes /\ old \in Names /\ new \in Names
    BY DEF TreeInv, Renamable
  <1>1. u = Unlinked(v, p, old)
    BY DEF Rename
  <1>2. PICK z : z = x
    OBVIOUS
  <1>3. /\ c \in Inodes /\ SameBut(t, v, q) /\ place \in At(v, q)
        /\ v[q].ents[place] = [name |-> new, inode |-> c]
        /\ y \in At(t, p) /\ t[p].ents[y].inode = c
        /\ z \in At(v, p) /\ v[p].ents[z].name = old /\ v[p].ents[z].inode = c
        /\ z <= v[p].seen /\ <<p, z>> # <<q, place>>
        /\ SameBut(v, u, p)
        /\ \E f : Kept(f, t, v, q, place, 0)
        /\ \E f : Kept(f, v, u, p, 0, z)
    BY <1>0, <1>1, <1>2, RenameSteps
  <1>4. t[q].type = "dir" /\ ~Has(t, q, new) /\ (q # p \/ new # old)
    BY DEF Renamable
  <1>5. PICK d, w : d = c /\ w = v /\ z = Index(w, p, old) /\ w = Linked(t, q, new, d, place)
                    /\ u = Unlinked(w, p, old)
    BY <1>1, <1>2
  <1>6. /\ d \in Inodes /\ SameBut(t, w, q) /\ z \in At(w, p) /\ SameBut(w, u, p)
        /\ d = Child(t, p, old) /\ z <= w[p].seen
    BY <1>3, <1>5
  <1> HIDE DEF v, x, y, c
  <1>a. Index(t, q, new) = 0 /\ place <= t[q].seen + 1
    <2>1. t[q].seen = Len(t[q].ents) /\ Len(t[q].ents) \in Nat
      BY <1>0, TreeFacts DEF TreeInv, SeenOK
    <2>2. Index(t, q, new) \notin At(t, q)
      BY <1>4, <2>1 DEF Has, At
    <2> QED
      BY <1>0, <2>1, <2>2, IndexFacts DEF Places
  <1>7. /\ \A j \in Inodes : \A n : j # q \/ n # new => Find(w, j, n) = Find(t, j, n)
        /\ Find(w, q, new) = d
    BY <1>0, <1>4, <1>5, <1>6, <1>a, LinkedFind
  <1>8. w \in Trees /\ u \in Trees
    BY <1>6 DEF SameBut
  <1>9. \A j \in Inodes : \A n : j # p \/ n # old => Find(u, j, n) = Find(w, j, n)
    BY <1>0, <1>5, <1>6, <1>8, UnlinkedFind
  <1> QED
    BY <1>0, <1>4, <1>6, <1>7, <1>8, <1>9

\* A rename between directories that were never shrunk leaves nothing open.
LEMMA RenameSure ==
    ASSUME NEW t, TreeInv(t), NEW p, NEW old, NEW q, NEW new, Renamable(t, p, old, q, new),
           t[p].size = "whole", t[q].size = "whole",
           NEW place \in Places(t, q), NEW u, u = Rename(t, p, old, q, new, place)
    PROVE  \A i \in Inodes : u[i].size = "vague" => u[i] = t[i]
  <1>0. t \in Trees /\ p \in Inodes /\ q \in Inodes /\ old \in Names /\ new \in Names
    BY DEF TreeInv, Renamable
  <1>1. PICK c, w, z : /\ c = Child(t, p, old) /\ w = Linked(t, q, new, c, place)
                       /\ z = Index(w, p, old) /\ u = Unlinked(w, p, old)
    BY DEF Rename
  <1>2. /\ c \in Inodes /\ SameBut(t, w, q) /\ place \in At(w, q)
        /\ w[q].ents[place] = [name |-> new, inode |-> c]
        /\ Index(t, p, old) \in At(t, p) /\ t[p].ents[Index(t, p, old)].inode = c
        /\ z \in At(w, p) /\ w[p].ents[z].name = old /\ w[p].ents[z].inode = c
        /\ z <= w[p].seen /\ <<p, z>> # <<q, place>>
    <2>1. /\ t \in Trees /\ Renamable(t, p, old, q, new) /\ place \in Places(t, q)
          /\ c = Child(t, p, old) /\ w = Linked(t, q, new, c, place) /\ z = Index(w, p, old)
      BY <1>0, <1>1
    <2> QED
      BY ONLY <2>1, RenameSteps
  <1>3. /\ \A j \in Inodes : j # q => w[j] = t[j]
        /\ w[q].size = IF t[q].size = "whole" THEN "whole" ELSE "vague"
    BY <1>0, <1>1, <1>2, LinkedSize
  <1>4. w \in Trees
    BY <1>2 DEF SameBut
  <1>5. /\ \A j \in Inodes : j # p => u[j] = w[j]
        /\ u[p].size = IF z < w[p].seen THEN w[p].size
                       ELSE IF w[p].size = "whole" THEN "cut" ELSE "vague"
    BY <1>0, <1>1, <1>2, <1>4, UnlinkedFacts
  <1>6. w[p].size = "whole" /\ w[q].size = "whole"
    BY <1>0, <1>3
  <1> QED
    BY <1>0, <1>3, <1>5, <1>6

\* A call that is not refused and leaves nothing open.
LEMMA OutcomeSure ==
    ASSUME NEW t, NEW u, TreeInv(u), NEW v \in Outcomes(t, u), v # t,
           \A i \in Inodes : u[i].size = "vague" => u[i] = t[i]
    PROVE  v = u
  <1>1. TreeInv(v) /\ Redrawn(t, u, v)
    BY OutcomeIs
  <1>2. \A i \in Inodes : v[i] = u[i]
    BY <1>1 DEF Redrawn
  <1>3. v \in Trees /\ u \in Trees
    BY <1>1 DEF TreeInv
  <1> QED
    BY <1>2, <1>3 DEF Trees

\* If only what the paths X name changes in the directories, paths that go through
\* none of X keep their meaning.
LEMMA ApartPaths ==
    ASSUME NEW t, TreeInv(t), NEW u \in Trees, NEW X \in SUBSET Seq(Names), <<>> \notin X,
           \A j \in Inodes : \A n :
              (\A x \in X : <<j, n>> # <<Resolve(t, Front(x)), Last(x)>>) =>
              Find(u, j, n) = Find(t, j, n)
    PROVE  \A path \in Seq(Names) : (\A x \in X : ~IsPrefix(x, path)) =>
              Resolve(u, path) = Resolve(t, path)
  <1> DEFINE Apart(a) == \A x \in X : ~IsPrefix(x, a)
             Same(k) == \A a \in Seq(Names) :
                          Len(a) = k /\ Apart(a) => Resolve(u, a) = Resolve(t, a)
             Good == {k \in Nat : Same(k)}
  <1>0. t \in Trees
    BY DEF TreeInv
  <1>1. 0 \in Good
    <2>1. ASSUME NEW a \in Seq(Names), Len(a) = 0
          PROVE  Resolve(u, a) = Resolve(t, a)
      <3>1. a = <<>>
        BY <2>1, SeqFacts
      <3> QED
        BY <1>0, <3>1, ResolveFacts
    <2> QED
      BY <2>1
  <1>2. ASSUME NEW l \in Nat, NEW k \in 1 .. l, k - 1 \in Good
        PROVE  k \in Good
    <2>0. k \in Nat \ {0}
      OBVIOUS
    <2>1. ASSUME NEW a \in Seq(Names), Len(a) = k, Apart(a)
          PROVE  Resolve(u, a) = Resolve(t, a)
      <3>1. a # <<>>
        BY <2>0, <2>1, SeqFacts
      <3>2. PICK f, i, e : f = Front(a) /\ i = Resolve(t, f) /\ e = Last(a)
        OBVIOUS
      <3>3. f \in Seq(Names) /\ Len(f) = k - 1
        BY <2>1, <3>1, <3>2, FrontFacts
      <3>4. Apart(f)
        BY <2>1, <3>1, <3>2, PrefixFront
      <3>5. Resolve(u, f) = i
        BY <1>2, <3>2, <3>3, <3>4
      <3>6. Resolve(t, a) = Step(t, i, e)
        BY <1>0, <3>1, <3>2, ResolveFront
      <3>7. Resolve(u, a) = Step(u, i, e)
        BY <3>1, <3>2, <3>5, ResolveFront
      <3>8. i \in Inodes \cup {0}
        BY <1>0, <3>2, <3>3, ResolveFacts
      <3>9. /\ Step(t, i, e) = IF i = 0 THEN 0 ELSE Find(t, i, e)
            /\ Step(u, i, e) = IF i = 0 THEN 0 ELSE Find(u, i, e)
        BY <1>0, <3>8, StepFacts
      <3>10. ASSUME NEW b \in X, i # 0, i = Resolve(t, Front(b)), e = Last(b)
             PROVE  FALSE
        <4>0. b \in Seq(Names) /\ b # <<>>
          OBVIOUS
        <4>1. PICK g \in Seq(Names) : g = Front(b)
          BY <4>0, FrontFacts
        <4>2. f = g
          BY <3>2, <3>3, <3>10, <4>1, UniquePath
        <4>3. a = b
          BY <3>1, <3>2, <3>10, <4>0, <4>1, <4>2, FrontLast
        <4>4. IsPrefix(b, a)
          BY <3>1, <4>3, PrefixFront
        <4> QED
          BY <2>1, <4>4
      <3>11. i # 0 => \A b \in X : <<i, e>> # <<Resolve(t, Front(b)), Last(b)>>
        BY <3>10
      <3>12. i # 0 => Find(u, i, e) = Find(t, i, e)
        BY <3>8, <3>11
      <3> QED
        BY <3>6, <3>7, <3>9, <3>12
    <2> QED
      BY <2>0, <2>1
  <1> HIDE DEF Good
  <1>3. ASSUME NEW a \in Seq(Names), Apart(a)
        PROVE  Resolve(u, a) = Resolve(t, a)
    <2>1. PICK l \in Nat : l = Len(a)
      BY SeqFacts
    <2>2. 0 .. l \subseteq Good
      <3>1. \A k \in 1 .. l : k - 1 \in Good => k \in Good
        BY <1>2
      <3> QED
        BY <1>1, <3>1, UpTo
    <2>3. l \in Good
      BY <2>2
    <2> QED
      BY <1>3, <2>1, <2>3 DEF Good
  <1> QED
    BY <1>3

\* A rename of old to the name to takes what old names there, and every path that
\* goes through neither of them keeps its meaning.
LEMMA MovePaths ==
    ASSUME NEW t, TreeInv(t), NEW old \in Seq(Names), NEW to \in Seq(Names),
           old # <<>>, to # <<>>, Resolve(t, old) # 0, NEW p, NEW q,
           p = Resolve(t, Front(old)), q = Resolve(t, Front(to)),
           NEW m, NEW n, m = Last(old), n = Last(to), Renamable(t, p, m, q, n),
           q \notin Below(t, Resolve(t, old)), t[q].size # "vague",
           NEW place \in Places(t, q), NEW u, u = Rename(t, p, m, q, n, place)
    PROVE  /\ Resolve(u, to) = Resolve(t, old)
           /\ \A path \in Seq(Names) : ~IsPrefix(old, path) /\ ~IsPrefix(to, path) =>
                Resolve(u, path) = Resolve(t, path)
  <1>0. /\ t \in Trees /\ p \in Inodes /\ q \in Inodes /\ p # 0 /\ q # 0
        /\ Has(t, p, m)
    BY InodeFacts DEF TreeInv, Renamable
  <1>1. /\ u \in Trees /\ Find(u, q, n) = Child(t, p, m)
        /\ \A j \in Inodes : \A e : <<j, e>> # <<p, m>> /\ <<j, e>> # <<q, n>> =>
             Find(u, j, e) = Find(t, j, e)
    BY RenameFind
  <1>2. \A a \in Seq(Names) : ~IsPrefix(old, a) /\ ~IsPrefix(to, a) =>
          Resolve(u, a) = Resolve(t, a)
    <2>1. PICK X \in SUBSET Seq(Names) : \A x : x \in X <=> x = old \/ x = to
      <3>1. {old, to} \in SUBSET Seq(Names) /\ \A x : x \in {old, to} <=> x = old \/ x = to
        OBVIOUS
      <3> QED
        BY <3>1
    <2>2. ASSUME NEW j \in Inodes, NEW e,
                 \A x \in X : <<j, e>> # <<Resolve(t, Front(x)), Last(x)>>
          PROVE  Find(u, j, e) = Find(t, j, e)
      BY <1>1, <2>1, <2>2
    <2>3. \A a \in Seq(Names) : (\A x \in X : ~IsPrefix(x, a)) => Resolve(u, a) = Resolve(t, a)
      BY <1>1, <2>1, <2>2, ApartPaths
    <2> QED
      BY <2>1, <2>3
  <1>3. Resolve(u, to) = Resolve(t, old)
    <2>1. PICK f \in Seq(Names) : f = Front(to)
      BY FrontFacts
    <2>2. ~IsPrefix(old, f) /\ ~IsPrefix(to, f)
      BY <1>0, <2>1, BelowPrefix, PrefixFront
    <2>3. Resolve(u, f) = q
      BY <1>2, <2>1, <2>2
    <2>4. Resolve(u, to) = Step(u, q, n)
      BY <1>1, <2>1, <2>3, ResolveFront
    <2>5. Step(u, q, n) = Find(u, q, n)
      BY <1>0, <1>1, StepFacts
    <2>6. Resolve(t, old) = Find(t, p, m)
      BY NamedEntry
    <2>7. Find(t, p, m) = Child(t, p, m)
      BY <1>0 DEF Find
    <2> QED
      BY <1>1, <2>4, <2>5, <2>6, <2>7
  <1> QED
    BY <1>2, <1>3

\* The walk of the empty path reaches vfs_root.
LEMMA OpenEmpty ==
    ASSUME NEW t \in Trees, t[Root].type = "dir", NEW w \in Walks, NEW path \in Seq(Names)
    PROVE  Len(path) = 0 => OpenNode(t, w, path).at = RootNode
  <1>1. PICK g \in [0 .. Len(path) -> TrueWalks(t)] :
             /\ g[0] = [w EXCEPT !.at = RootNode]
             /\ \A d \in 1 .. Len(path) : g[d] = Lookup(t, g[d - 1], path[d])
             /\ OpenNode(t, w, path) = g[Len(path)]
    BY OpenTurns
  <1>2. Len(path) = 0 => OpenNode(t, w, path) = [w EXCEPT !.at = RootNode]
    BY <1>1
  <1> QED
    BY <1>2, StartFacts

\* A walk that reached inode i, whose node is vfs_root or the ring's latest.
Reached(s, i) ==
    /\ s \in Walks /\ s.at # Nil /\ s.nodes[s.at].inode = i
    /\ s.at = RootNode \/ (s.at \in 0 .. NNodes - 1 /\ s.next = (s.at + 1) % NNodes)

LEMMA OpenReached ==
    ASSUME NEW t \in Trees, t[Root].type = "dir", NEW w \in Walks, NEW path \in Seq(Names),
           NEW s, s = OpenNode(t, w, path), NEW i, i = Resolve(t, path), i # 0
    PROVE  Reached(s, i)
  <1>1. /\ s \in Walks
        /\ s.at = Nil <=> Resolve(t, path) = 0
        /\ s.at # Nil => /\ s.nodes[s.at].inode = Resolve(t, path)
                         /\ s.at = RootNode \/ /\ s.at \in 0 .. NNodes - 1
                                               /\ s.next = (s.at + 1) % NNodes
    BY OpenFacts
  <1> QED
    BY <1>1 DEF Reached

\* The parent's node still holds the parent after two more walks that together are
\* shorter than the ring.
LEMMA NodeKept ==
    ASSUME NEW t \in Trees, t[Root].type = "dir", NEW a, NEW i, Reached(a, i),
           NEW x \in Seq(Names), NEW y \in Seq(Names),
           a.at # RootNode => Len(x) + Len(y) < NNodes,
           NEW d, d = OpenNode(t, a, x), NEW b, b = OpenNode(t, d, y)
    PROVE  b.nodes[a.at].inode = i
  <1>0. /\ a \in Walks /\ a.nodes[a.at].inode = i
        /\ a.at = RootNode \/ (a.at \in 0 .. NNodes - 1 /\ a.next = (a.at + 1) % NNodes)
    BY DEF Reached
  <1>1. d \in Walks
    BY <1>0, OpenFacts
  <1>2. b \in Walks
    BY <1>1, OpenFacts
  <1>3. CASE a.at = RootNode
    BY <1>0, <1>2, <1>3, WalkFacts DEF RootIs
  <1>4. CASE a.at # RootNode
    <2>1. PICK f : f = a.at
      OBVIOUS
    <2>2. f \in 0 .. NNodes - 1 /\ a.next = (f + 1) % NNodes
      BY <1>0, <1>4, <2>1
    <2>3. NNodes \in Nat \ {0} /\ Len(x) \in Nat /\ Len(y) \in Nat
      BY VfsAssumption, SeqFacts
    <2>4. a.next = IF f + 1 = NNodes THEN 0 ELSE f + 1
      BY <2>2, NextFacts
    <2>5. Ahead(a.next, f) = NNodes - 1
      <3>1. CASE f + 1 = NNodes
        BY <2>2, <2>3, <2>4, <3>1 DEF Ahead
      <3>2. CASE f + 1 # NNodes
        <4>1. a.next = f + 1 /\ ~(f >= f + 1)
          BY <2>2, <2>3, <2>4, <3>2
        <4> QED
          BY <2>2, <2>3, <4>1 DEF Ahead
      <3> QED
        BY <3>1, <3>2
    <2>6. Len(x) <= Ahead(a.next, f) =>
            d.nodes[f] = a.nodes[f] /\ Ahead(d.next, f) >= Ahead(a.next, f) - Len(x)
      BY <1>0, <2>2, OpenFacts
    <2>7. Len(y) <= Ahead(d.next, f) => b.nodes[f] = d.nodes[f]
      BY <1>1, <2>2, OpenFacts
    <2>8. d.next \in 0 .. NNodes - 1
      BY <1>1, WalkFacts
    <2>9. Ahead(d.next, f) \in Nat
      BY <2>2, <2>8, AheadNat
    <2>10. Len(x) + Len(y) < NNodes
      BY <1>4
    <2>11. d.nodes[f] = a.nodes[f] /\ Ahead(d.next, f) >= NNodes - 1 - Len(x)
      BY <2>3, <2>5, <2>6, <2>10
    <2> QED
      BY <1>0, <2>1, <2>3, <2>7, <2>9, <2>10, <2>11
  <1> QED
    BY <1>3, <1>4

\* Where mv takes its source, told from the paths alone.
LEMMA TargetIs ==
    ASSUME NEW t, TreeInv(t), NEW a \in Walks, NEW old \in Seq(Names), NEW new \in Seq(Names),
           NEW dst, dst = OpenNode(t, a, new), old # <<>>,
           NEW to, to = Target(dst, old, new)
    PROVE  /\ to = IF Resolve(t, new) # 0 /\ t[Resolve(t, new)].type = "dir" /\ new # old
                   THEN Append(new, Last(old)) ELSE new
           /\ to \in Seq(Names) /\ Len(to) <= Len(new) + 1
  <1>1. t \in Trees /\ t[Root].type = "dir"
    BY DEF TreeInv
  <1>2. /\ dst.at = Nil <=> Resolve(t, new) = 0
        /\ dst.at # Nil => dst.nodes[dst.at].type = t[Resolve(t, new)].type
    BY <1>1, OpenFacts
  <1>3. Last(old) \in Names /\ Len(new) \in Nat
    BY FrontFacts, SeqFacts
  <1>4. Append(new, Last(old)) \in Seq(Names) /\ Len(Append(new, Last(old))) = Len(new) + 1
    BY <1>3, AppendProperties
  <1> QED
    BY <1>2, <1>3, <1>4 DEF Target, Type

\* Under Short the walks to the target do not take the node of the source's parent.
LEMMA SourceKept ==
    ASSUME NEW t, TreeInv(t), NEW w \in Walks, NEW old \in Seq(Names), NEW new \in Seq(Names),
           old # <<>>, Resolve(t, old) # 0,
           NEW a, a = FindParent(t, OpenNode(t, OpenNode(t, w, old), old), old),
           NEW dst, dst = OpenNode(t, a, new),
           NEW to \in Seq(Names), to # <<>>, Len(to) <= Len(new) + 1,
           NEW b, b = FindParent(t, dst, to), Short(old, new)
    PROVE  b.nodes[a.at].inode = Resolve(t, Front(old))
  <1>0. t \in Trees /\ t[Root].type = "dir"
    BY DEF TreeInv
  <1>1. PICK w1 \in Walks : w1 = OpenNode(t, w, old)
    BY <1>0, OpenFacts
  <1>2. PICK w2 \in Walks : w2 = OpenNode(t, w1, old)
    BY <1>0, OpenFacts
  <1>3. PICK f \in Seq(Names) : f = Front(old)
    BY FrontFacts
  <1>4. PICK g \in Seq(Names) : g = Front(to)
    BY FrontFacts
  <1>5. a = OpenNode(t, w2, f)
    BY <1>1, <1>2, <1>3 DEF FindParent
  <1>6. b = OpenNode(t, dst, g)
    BY <1>4 DEF FindParent
  <1>7. Len(f) = Len(old) - 1 /\ Len(g) = Len(to) - 1 /\ Len(old) \in Nat /\ Resolve(t, f) # 0
    BY <1>3, <1>4, FrontFacts, NamedEntry, InodeFacts
  <1>8. Reached(a, Resolve(t, f))
    BY <1>0, <1>5, <1>7, OpenReached
  <1>9. Len(f) = 0 => a.at = RootNode
    BY <1>0, <1>5, OpenEmpty
  <1>10. a.at # RootNode => Len(new) + Len(g) < NNodes
    <2>1. Len(new) \in Nat /\ Len(to) \in Nat /\ NNodes \in Nat
      BY SeqFacts, VfsAssumption
    <2>2. a.at # RootNode => 2 * Len(new) < NNodes
      BY <1>7, <1>9 DEF Short
    <2>3. Len(g) = Len(to) - 1 /\ Len(to) <= Len(new) + 1
      BY <1>7
    <2> QED
      BY ONLY <2>1, <2>2, <2>3
  <1>11. b.nodes[a.at].inode = Resolve(t, f)
    BY <1>0, <1>6, <1>8, <1>10, NodeKept
  <1> QED
    BY <1>3, <1>11

LEMMA MvExact ==
    ASSUME VInv, NEW old \in Seq(Names), NEW new \in Seq(Names),
           old # <<>>, Resolve(tree, old) # 0, Mv(old, new), Short(old, new), ~lost'
    PROVE  MovesOnlyIt(old, new)
  <1> SUFFICES ASSUME tree' # tree, Unshrunk(tree, old),
                      NEW y, y = (IF /\ Resolve(tree, new) # 0
                                     /\ tree[Resolve(tree, new)].type = "dir" /\ new # old
                                  THEN Append(new, Last(old)) ELSE new),
                      Unshrunk(tree, y)
               PROVE  MovesOnlyIt(old, new)
    BY DEF MovesOnlyIt
  <1>1. PICK a, dst, to, b :
          /\ a = FindParent(tree, OpenNode(tree, OpenNode(tree, Start, old), old), old)
          /\ dst = OpenNode(tree, a, new)
          /\ to = Target(dst, old, new)
          /\ b = IF to = <<>> THEN dst ELSE FindParent(tree, dst, to)
          /\ Walked(b)
          /\ IF b.at = Nil \/ to = <<>> THEN UNCHANGED <<tree, lost>>
             ELSE \E p \in {b.nodes[a.at].inode} :
                     /\ Renamed(p, Last(old), Inode(b), Last(to))
                     /\ lost' = (lost \/ (tree' # tree /\ IntoItself(p, Last(old), Inode(b))))
    BY DEF Mv
  <1>2. b.at # Nil /\ to # <<>>
    BY <1>1
  <1>3. PICK p : /\ p = b.nodes[a.at].inode
                 /\ Renamed(p, Last(old), Inode(b), Last(to))
                 /\ lost' = (lost \/ (tree' # tree /\ IntoItself(p, Last(old), Inode(b))))
    BY <1>1, <1>2
  <1>4. TreeInv(tree) /\ Start \in Walks
    BY DEF VInv, RingOK
  <1>5. /\ a \in Walks /\ p \in Inodes /\ Last(old) \in Names /\ Last(to) \in Names
        /\ Inode(b) \in Inodes /\ Inode(b) = Resolve(tree, Front(to))
    BY <1>1, <1>2, <1>3, <1>4, MvWalks
  <1>6. /\ to = IF Resolve(tree, new) # 0 /\ tree[Resolve(tree, new)].type = "dir" /\ new # old
               THEN Append(new, Last(old)) ELSE new
        /\ to \in Seq(Names) /\ Len(to) <= Len(new) + 1
    <2>1. /\ a \in Walks /\ dst = OpenNode(tree, a, new) /\ to = Target(dst, old, new)
          /\ old \in Seq(Names) /\ new \in Seq(Names) /\ old # <<>>
      BY <1>1, <1>5
    <2> QED
      BY ONLY <1>4, <2>1, TargetIs
  <1>7. p = Resolve(tree, Front(old))
    <2>1. PICK w \in Walks : w = Start
      BY <1>4
    <2>2. PICK x \in Seq(Names), t \in Trees : x = to /\ t = tree
      BY <1>4, <1>6 DEF TreeInv
    <2>3. /\ TreeInv(t) /\ a = FindParent(t, OpenNode(t, OpenNode(t, w, old), old), old)
          /\ dst = OpenNode(t, a, new) /\ b = FindParent(t, dst, x)
          /\ old # <<>> /\ x # <<>> /\ Resolve(t, old) # 0 /\ Len(x) <= Len(new) + 1
          /\ Short(old, new)
      BY <1>1, <1>2, <1>4, <1>6, <2>1, <2>2
    <2>4. b.nodes[a.at].inode = Resolve(t, Front(old))
      BY ONLY <2>3, SourceKept
    <2> QED
      BY <1>3, <2>2, <2>4
  <1>8. PICK q, m, n : q = Inode(b) /\ m = Last(old) /\ n = Last(to)
    OBVIOUS
  <1>9. /\ Renamable(tree, p, m, q, n)
        /\ \E place \in Places(tree, q) : tree' \in Outcomes(tree, Rename(tree, p, m, q, n, place))
    BY <1>3, <1>5, <1>8 DEF Renamed, Renamable, Rename
  <1>10. Resolve(tree, old) = Child(tree, p, m)
    BY <1>4, <1>7, <1>8, <1>9, NamedEntry DEF Find, Renamable
  <1>11. q \notin Below(tree, Resolve(tree, old))
    BY <1>3, <1>8, <1>9, <1>10 DEF IntoItself, Renamable
  <1>a. p = Resolve(tree, Front(old)) /\ q = Resolve(tree, Front(to)) /\ to = y
    BY <1>5, <1>6, <1>7, <1>8
  <1>b. tree[p].size = "whole" /\ tree[q].size = "whole"
    BY <1>a DEF Unshrunk
  <1>12. PICK place \in Places(tree, q) : tree' = Rename(tree, p, m, q, n, place)
    <2>1. PICK place \in Places(tree, q) : tree' \in Outcomes(tree, Rename(tree, p, m, q, n, place))
      BY <1>9
    <2>2. PICK t, u, v : /\ t = tree /\ u = Rename(t, p, m, q, n, place) /\ v = tree'
                         /\ v \in Outcomes(t, u) /\ v # t /\ place \in Places(t, q)
      BY <2>1
    <2>3. TreeInv(t) /\ Renamable(t, p, m, q, n) /\ t[p].size = "whole" /\ t[q].size = "whole"
      BY <1>4, <1>9, <1>b, <2>2
    <2>4. TreeInv(u)
      BY ONLY <2>2, <2>3, RenameKept
    <2>5. \A i \in Inodes : u[i].size = "vague" => u[i] = t[i]
      BY ONLY <2>2, <2>3, RenameSure
    <2>6. v = u
      BY ONLY <2>2, <2>4, <2>5, OutcomeSure
    <2> QED
      BY <2>2, <2>6
  <1>13. PICK u : u = tree'
    OBVIOUS
  <1>14. /\ Resolve(u, to) = Resolve(tree, old)
         /\ \A path \in Seq(Names) : ~IsPrefix(old, path) /\ ~IsPrefix(to, path) =>
              Resolve(u, path) = Resolve(tree, path)
    <2>1. PICK t : t = tree
      OBVIOUS
    <2>2. /\ TreeInv(t) /\ old \in Seq(Names) /\ to \in Seq(Names) /\ old # <<>> /\ to # <<>>
          /\ Resolve(t, old) # 0 /\ p = Resolve(t, Front(old)) /\ q = Resolve(t, Front(to))
          /\ m = Last(old) /\ n = Last(to) /\ Renamable(t, p, m, q, n)
          /\ q \notin Below(t, Resolve(t, old)) /\ t[q].size # "vague"
          /\ place \in Places(t, q) /\ u = Rename(t, p, m, q, n, place)
      BY <1>b, <1>2, <1>4, <1>5, <1>6, <1>7, <1>8, <1>9, <1>11, <1>12, <1>13, <2>1
    <2>3. /\ Resolve(u, to) = Resolve(t, old)
          /\ \A path \in Seq(Names) : ~IsPrefix(old, path) /\ ~IsPrefix(to, path) =>
               Resolve(u, path) = Resolve(t, path)
      BY ONLY <2>2, MovePaths
    <2> QED
      BY <2>1, <2>3
  <1>15. \A path \in Paths : path \in Seq(Names)
    BY PathsAreSeqs
  <1> QED
    BY <1>6, <1>13, <1>14, <1>15 DEF MovesOnlyIt

\* A move whose walks fit in the ring, between directories that were never shrunk,
\* takes its source to its target or changes nothing, and every path that goes
\* through neither keeps its meaning, whatever the tree and the size of the ring.
THEOREM MoveIsExact == VSpec => MoveExact
  <1> DEFINE A == moved' # <<>> /\ Short(moved'[1], moved'[2]) /\ ~lost' =>
                    MovesOnlyIt(moved'[1], moved'[2])
  <1>1. VInv /\ [VNext]_vvars => [A]_vvars
    <2> SUFFICES ASSUME VInv, VNext, moved' # <<>>, Short(moved'[1], moved'[2]), ~lost'
                 PROVE  MovesOnlyIt(moved'[1], moved'[2])
      OBVIOUS
    <2>1. PICK old \in Paths : /\ old # <<>> /\ Resolve(tree, old) # 0
                              /\ \E new \in Paths : Mv(old, new)
      BY DEF VNext
    <2>2. PICK new \in Paths : Mv(old, new)
      BY <2>1
    <2>3. old \in Seq(Names) /\ new \in Seq(Names)
      BY PathsAreSeqs
    <2>4. moved'[1] = old /\ moved'[2] = new
      BY <2>2 DEF Mv
    <2>5. Short(old, new)
      BY <2>4
    <2>6. MovesOnlyIt(old, new)
      BY <2>1, <2>2, <2>3, <2>5, MvExact
    <2> QED
      BY <2>4, <2>6
  <1> QED
    BY <1>1, VfsInvariance, PTL DEF VSpec, MoveExact

----------------------------------------------------------------------------
(* What rm -r removes *)

LEMMA FrontAppend ==
    ASSUME NEW s \in Seq(Names), NEW n \in Names, NEW x, x = Append(s, n)
    PROVE  /\ x \in Seq(Names) /\ x # <<>> /\ Front(x) = s /\ Last(x) = n
           /\ \A path \in Seq(Names) : IsPrefix(path, s) => IsPrefix(path, x) /\ x # path
  <1>1. /\ x \in Seq(Names) /\ Len(x) = Len(s) + 1 /\ x[Len(s) + 1] = n
        /\ \A k \in 1 .. Len(s) : x[k] = s[k]
    BY AppendProperties
  <1>2. Len(s) \in Nat /\ Len(x) \in Nat
    BY <1>1, SeqFacts
  <1>3. x # <<>>
    BY <1>1, <1>2, SeqFacts
  <1>4. PICK f : f = Front(x)
    OBVIOUS
  <1>5. /\ f \in Seq(Names) /\ Len(f) = Len(x) - 1 /\ Last(x) = x[Len(x)]
        /\ \A k \in 1 .. Len(x) - 1 : f[k] = x[k]
    BY <1>1, <1>3, <1>4, FrontFacts
  <1>6. Len(f) = Len(s) /\ \A k \in 1 .. Len(f) : f[k] = s[k]
    BY <1>1, <1>2, <1>5
  <1>7. f = s
    BY <1>5, <1>6, SeqEqual
  <1>8. Last(x) = n
    BY <1>1, <1>2, <1>5
  <1>9. ASSUME NEW path \in Seq(Names), IsPrefix(path, s)
        PROVE  IsPrefix(path, x) /\ x # path
    <2>0. PICK y \in Seq(Names) : y = x
      BY <1>1
    <2>1. IsPrefix(path, x)
      <3>1. y # <<>> /\ IsPrefix(path, Front(y))
        BY <1>3, <1>4, <1>7, <1>9, <2>0
      <3>2. IsPrefix(path, y)
        BY ONLY y \in Seq(Names), path \in Seq(Names), <3>1, PrefixFront
      <3> QED
        BY <2>0, <3>2
    <2>2. Len(path) <= Len(s)
      BY <1>9, PrefixFacts
    <2>3. Len(path) # Len(x)
      BY <1>1, <1>2, <2>2, SeqFacts
    <2> QED
      BY <2>1, <2>3
  <1> QED
    BY <1>1, <1>3, <1>4, <1>7, <1>8, <1>9

\* u is t without what path x names: its inode is free, its parent has one entry
\* less, and no directory has gained any.
Cut(t, u, x) ==
    /\ x # <<>> /\ Resolve(t, x) # 0 /\ u \in Trees
    /\ u[Resolve(t, x)] = Free
    /\ u[Resolve(t, Front(x))].type = t[Resolve(t, Front(x))].type
    /\ Len(u[Resolve(t, Front(x))].ents) = Len(t[Resolve(t, Front(x))].ents) - 1
    /\ Thin(t, Resolve(t, Front(x))) => Thin(u, Resolve(t, Front(x)))
    /\ \A j \in Inodes : j # Resolve(t, x) /\ j # Resolve(t, Front(x)) => u[j] = t[j]
    /\ \A j \in Inodes : /\ Len(u[j].ents) <= Len(t[j].ents)
                         /\ \A k \in At(u, j) : \E l \in At(t, j) :
                              u[j].ents[k] = t[j].ents[l]

LEMMA RemovedCut ==
    ASSUME NEW t, TreeInv(t), NEW x \in Seq(Names), x # <<>>, Resolve(t, x) # 0,
           NEW p, NEW n, p = Resolve(t, Front(x)), n = Last(x),
           NEW type \in {"file", "dir"}, Removable(t, p, n, type),
           NEW u, u = Removed(t, p, n, type)
    PROVE  Cut(t, u, x)
  <1> DEFINE z == Index(t, p, n)
             v == Unlinked(t, p, n)
  <1>0. t \in Trees /\ p \in Inodes /\ p # 0 /\ SeenOK(t)
    BY NamedEntry, InodeFacts DEF TreeInv
  <1>1. PICK c \in Inodes : c = Child(t, p, n) /\ c = Resolve(t, x) /\ Has(t, p, n)
                            /\ t[c].type = type
    BY NamedEntry DEF Removable, Find
  <1>2. u = [v EXCEPT ![c] = Free]
    BY <1>1 DEF Removed
  <1>3. z \in At(t, p) /\ t[p].ents[z].inode = c /\ z <= t[p].seen
    BY <1>0, <1>1, FindFacts
  <1>4. SameBut(t, v, p) /\ \E old : Kept(old, t, v, p, 0, z)
    BY <1>0, <1>3, UnlinkedPlaces
  <1>5. /\ Len(v[p].ents) = Len(t[p].ents) - 1
        /\ v[p].size = IF z < t[p].seen THEN t[p].size
                       ELSE IF t[p].size = "whole" THEN "cut" ELSE "vague"
    BY <1>0, <1>3, UnlinkedFacts
  <1> HIDE DEF z, v
  <1>7. PICK old : Kept(old, t, v, p, 0, z)
    BY <1>4
  <1>8. c # p
    <2>1. PICK f \in Seq(Names) : f = Front(x) /\ Len(f) = Len(x) - 1 /\ Len(x) \in Nat
      BY FrontFacts
    <2>2. f # x
      BY <2>1
    <2> QED
      BY <1>0, <1>1, <2>1, <2>2, UniquePath
  <1>9. /\ v \in Trees /\ v[c] = t[c]
        /\ \A j \in Inodes : v[j].type = t[j].type /\ (j # p => v[j] = t[j])
    BY <1>4, <1>8 DEF SameBut
  <1>10. Free \in Records
    BY DEF Free, Types, Sizes, Records
  <1>11. u \in Trees /\ u[c] = Free /\ \A j \in Inodes : j # c => u[j] = v[j]
    <2>1. u \in [Inodes -> Records]
      BY <1>2, <1>9, <1>10 DEF Trees
    <2>2. u[c] = Free /\ \A j \in Inodes : j # c => u[j] = v[j]
      BY <1>2, <1>9 DEF Trees
    <2> QED
      BY <2>1, <2>2 DEF Trees
  <1>12. u[c].ents = <<>> /\ At(u, c) = {}
    <2>1. u[c].ents = <<>>
      BY <1>11 DEF Free
    <2> QED
      BY <2>1 DEF At
  <1>14. ASSUME NEW j \in Inodes
         PROVE  /\ Len(u[j].ents) <= Len(t[j].ents)
                /\ \A k \in At(u, j) : \E l \in At(t, j) : u[j].ents[k] = t[j].ents[l]
    <2>0. Len(t[j].ents) \in Nat
      BY <1>0, TreeFacts
    <2>1. CASE j = c
      <3>1. Len(u[j].ents) = 0
        BY <1>12, <2>1
      <3> QED
        BY <1>12, <2>0, <2>1, <3>1
    <2>2. CASE j = p
      <3>0. u[j] = v[j] /\ At(u, j) = At(v, j)
        BY <1>8, <1>11, <2>2 DEF At
      <3>1. \A k \in At(v, j) : k # 0
        BY <1>9, TreeFacts DEF At
      <3>2. \A k \in At(v, j) : \E l \in At(t, j) : v[j].ents[k] = t[j].ents[l]
        BY <1>7, <2>2, <3>1 DEF Kept
      <3> QED
        BY <1>5, <2>0, <2>2, <3>0, <3>2
    <2>3. CASE j # p /\ j # c
      <3>1. u[j] = t[j] /\ At(u, j) = At(t, j)
        BY <1>9, <1>11, <2>3 DEF At
      <3> QED
        BY <2>0, <3>1
    <2> QED
      BY <2>1, <2>2, <2>3
  <1>15. Thin(t, p) => Thin(u, p)
    <2>1. u[p] = v[p] /\ v[p].ents \in Seq(Entries) /\ Len(v[p].ents) \in Nat
      BY <1>0, <1>8, <1>9, <1>11, TreeFacts
    <2>2. t[p].ents # <<>> /\ Len(t[p].ents) \in Nat
      BY <1>0, <1>3, TreeFacts DEF At
    <2>3. Thin(t, p) => Len(t[p].ents) = 1 /\ t[p].size = "whole"
      BY <2>2 DEF Thin
    <2>4. Thin(t, p) => Len(v[p].ents) = 0 /\ v[p].size # "vague"
      BY <1>5, <2>3
    <2> QED
      BY <2>1, <2>4, EmptySeq DEF Thin
  <1>17. /\ u[p].type = t[p].type /\ Len(u[p].ents) = Len(t[p].ents) - 1
         /\ \A j \in Inodes : j # c /\ j # p => u[j] = t[j]
    BY <1>0, <1>5, <1>8, <1>9, <1>11
  <1> QED
    BY <1>1, <1>11, <1>14, <1>15, <1>17 DEF Cut

\* A path that does not go through the parent of what was removed keeps its meaning.
LEMMA FindOutside ==
    ASSUME NEW t \in Trees, NEW j \in Inodes, NEW n, n \notin Names
    PROVE  Find(t, j, n) = 0
  <1>1. ~Has(t, j, n)
    <2> SUFFICES ASSUME Has(t, j, n)
                 PROVE  FALSE
      OBVIOUS
    <2>1. PICK k \in At(t, j) : t[j].ents[k].name = n
      BY FindFacts
    <2> QED
      BY <2>1, TreeFacts
  <1> QED
    BY <1>1 DEF Find

LEMMA CutPaths ==
    ASSUME NEW t, TreeInv(t), NEW x \in Seq(Names), NEW u, Cut(t, u, x),
           NEW y \in Seq(Names), y = Front(x) \/ ~IsPrefix(Front(x), y)
    PROVE  Resolve(u, y) = Resolve(t, y)
  <1>0. x # <<>> /\ Resolve(t, x) # 0 /\ u \in Trees /\ t \in Trees
    BY DEF Cut, TreeInv
  <1>1. PICK f \in Seq(Names) : /\ f = Front(x) /\ Len(f) = Len(x) - 1
                                /\ \A k \in 1 .. Len(x) - 1 : f[k] = x[k]
    BY <1>0, FrontFacts
  <1>2. PICK X \in SUBSET Seq(Names) :
          \A a : a \in X <=> a \in Seq(Names) /\ a # <<>> /\ (Front(a) = f \/ Front(a) = x)
    <2>1. {a \in Seq(Names) : a # <<>> /\ (Front(a) = f \/ Front(a) = x)} \in SUBSET Seq(Names)
      OBVIOUS
    <2> QED
      BY <2>1
  <1>3. ASSUME NEW j \in Inodes, NEW n,
               \A a \in X : <<j, n>> # <<Resolve(t, Front(a)), Last(a)>>
        PROVE  Find(u, j, n) = Find(t, j, n)
    <2>1. CASE n \notin Names
      BY <1>0, <2>1, FindOutside
    <2>2. ASSUME n \in Names, NEW g \in Seq(Names), g = f \/ g = x
          PROVE  j # Resolve(t, g)
      <3>0. PICK m \in Names : m = n
        BY <2>2
      <3>1. PICK a : a = Append(g, m)
        OBVIOUS
      <3>2. a \in Seq(Names) /\ a # <<>> /\ Front(a) = g /\ Last(a) = m
        BY ONLY g \in Seq(Names), m \in Names, <3>1, FrontAppend
      <3>3. a \in X
        BY <1>2, <2>2, <3>2
      <3> QED
        BY <1>3, <3>0, <3>2, <3>3
    <2>3. CASE n \in Names
      <3>1. j # Resolve(t, f) /\ j # Resolve(t, x)
        BY <2>2, <2>3
      <3>2. u[j] = t[j]
        BY <1>1, <3>1 DEF Cut
      <3> QED
        BY <3>2 DEF Find, Has, Child, Index
    <2> QED
      BY <2>1, <2>3
  <1>4. ASSUME NEW a \in X
        PROVE  ~IsPrefix(a, y)
    <2> SUFFICES ASSUME IsPrefix(a, y)
                 PROVE  FALSE
      OBVIOUS
    <2>1. a \in Seq(Names) /\ a # <<>> /\ (Front(a) = f \/ Front(a) = x)
      BY <1>2
    <2>2. PICK g \in Seq(Names) : /\ g = Front(a) /\ Len(g) = Len(a) - 1
                                  /\ \A k \in 1 .. Len(a) - 1 : g[k] = a[k]
      BY <2>1, FrontFacts
    <2>3. /\ Len(a) \in Nat /\ Len(y) \in Nat /\ Len(f) \in Nat /\ Len(x) \in Nat
          /\ Len(g) \in Nat
      BY <2>1, SeqFacts
    <2>4. Len(a) <= Len(y) /\ \A k \in 1 .. Len(a) : a[k] = y[k]
      BY <2>1, PrefixFacts
    <2>5. Len(f) <= Len(g) /\ \A k \in 1 .. Len(f) : f[k] = g[k]
      BY <1>1, <2>1, <2>2, <2>3
    <2>6. Len(f) <= Len(y) /\ \A k \in 1 .. Len(f) : f[k] = y[k]
      BY <2>2, <2>3, <2>4, <2>5
    <2>7. IsPrefix(f, y)
      BY <2>6, PrefixFacts
    <2>8. Len(f) < Len(y)
      BY <2>2, <2>3, <2>4, <2>5
    <2> QED
      BY <1>1, <2>3, <2>7, <2>8
  <1>5. <<>> \notin X
    BY <1>2
  <1>6. \A b \in Seq(Names) : (\A a \in X : ~IsPrefix(a, b)) => Resolve(u, b) = Resolve(t, b)
    BY <1>0, <1>3, <1>5, ApartPaths
  <1> QED
    BY <1>4, <1>6

\* What a removal leaves open does not matter to it.
LEMMA CutOutcome ==
    ASSUME NEW t, TreeInv(t), NEW x \in Seq(Names), NEW u, TreeInv(u), Cut(t, u, x),
           NEW v, TreeInv(v), Redrawn(t, u, v)
    PROVE  Cut(t, v, x)
  <1>0. t \in Trees /\ v \in Trees /\ x # <<>> /\ Resolve(t, x) # 0
    BY DEF TreeInv, Cut
  <1>1. PICK c, p : c = Resolve(t, x) /\ p = Resolve(t, Front(x)) /\ c \in Inodes /\ p \in Inodes
    BY <1>0, NamedEntry
  <1>2. /\ u[c] = Free /\ u[p].type = t[p].type /\ Len(u[p].ents) = Len(t[p].ents) - 1
        /\ Thin(t, p) => Thin(u, p)
        /\ \A j \in Inodes : j # c /\ j # p => u[j] = t[j]
        /\ \A j \in Inodes : /\ Len(u[j].ents) <= Len(t[j].ents)
                             /\ \A k \in At(u, j) : \E l \in At(t, j) : u[j].ents[k] = t[j].ents[l]
    BY <1>1 DEF Cut
  <1>3. /\ \A i \in Inodes : v[i].type = u[i].type /\ v[i].ents = u[i].ents /\ v[i].size = u[i].size
        /\ \A i \in Inodes : u[i].size # "vague" \/ u[i] = t[i] => v[i] = u[i]
    BY DEF Redrawn
  <1>4. v[c] = Free
    <2>1. u[c].size # "vague"
      BY <1>2 DEF Free
    <2> QED
      BY <1>1, <1>2, <1>3, <2>1
  <1>5. Thin(t, p) => Thin(v, p)
    BY <1>1, <1>2, <1>3 DEF Thin
  <1>6. \A j \in Inodes : j # c /\ j # p => v[j] = t[j]
    BY <1>2, <1>3
  <1>7. \A j \in Inodes : /\ Len(v[j].ents) <= Len(t[j].ents)
                          /\ \A k \in At(v, j) : \E l \in At(t, j) : v[j].ents[k] = t[j].ents[l]
    BY <1>2, <1>3 DEF At
  <1>8. v[p].type = t[p].type /\ Len(v[p].ents) = Len(t[p].ents) - 1
    BY <1>1, <1>2, <1>3
  <1> QED
    BY <1>0, <1>1, <1>4, <1>5, <1>6, <1>7, <1>8 DEF Cut

\* It is refused for nothing but what it would remove.
LEMMA CutRefused ==
    ASSUME NEW t, TreeInv(t), NEW x \in Seq(Names), NEW u, Cut(t, u, x),
           t[Resolve(t, x)].size # "vague"
    PROVE  ~Refused(t, u)
  <1>0. t \in Trees /\ u \in Trees /\ x # <<>> /\ Resolve(t, x) # 0
    BY DEF TreeInv, Cut
  <1>1. PICK c, p : c = Resolve(t, x) /\ p = Resolve(t, Front(x)) /\ c \in Inodes /\ p \in Inodes
    BY <1>0, NamedEntry
  <1>2. /\ u[p].type = t[p].type
        /\ \A j \in Inodes : j # c /\ j # p => u[j] = t[j]
        /\ \A k \in At(u, p) : \E l \in At(t, p) : u[p].ents[k] = t[p].ents[l]
    BY <1>1 DEF Cut
  <1>3. t[p].type # "free"
    <2>1. \E k \in At(t, p) : t[p].ents[k].name = Last(x)
      BY <1>0, <1>1, NamedEntry
    <2>2. t[p].ents # <<>>
      BY <2>1 DEF At
    <2> QED
      BY <1>1, <2>2 DEF TreeInv
  <1>4. ToSet(u[p].ents) \subseteq ToSet(t[p].ents)
    <2>1. /\ u[p].ents \in Seq(Entries) /\ DOMAIN u[p].ents = At(u, p)
          /\ t[p].ents \in Seq(Entries) /\ DOMAIN t[p].ents = At(t, p)
      BY <1>0, <1>1, TreeFacts, LenProperties DEF At
    <2> QED
      BY <1>2, <2>1 DEF ToSet
  <1>5. ASSUME NEW i \in Inodes, t[i].size = "vague", u[i] # t[i],
               u[i].type = "free" \/ ~(ToSet(u[i].ents) \subseteq ToSet(t[i].ents))
        PROVE  FALSE
    <2>1. i = p
      BY <1>1, <1>2, <1>5
    <2> QED
      BY <1>2, <1>3, <1>4, <1>5, <2>1
  <1> QED
    BY <1>5 DEF Refused

\* Nothing becomes of a call that changes nothing.
LEMMA OutcomeNone ==
    ASSUME NEW t, TreeInv(t), NEW v \in Outcomes(t, t)
    PROVE  v = t
  <1> SUFFICES ASSUME v # t
               PROVE  FALSE
    OBVIOUS
  <1> QED
    BY OutcomeSure

\* What path x names is of the type and empty.
Ready(t, x, type) ==
    /\ x # <<>> /\ Resolve(t, x) # 0
    /\ t[Resolve(t, x)].type = type /\ t[Resolve(t, x)].ents = <<>>
    /\ t[Resolve(t, x)].size # "vague"

\* vfs_unlink and vfs_rmdir remove what the path names, if it is ready, or nothing.
LEMMA RemovePathCut ==
    ASSUME NEW t, TreeInv(t), NEW w \in Walks, NEW x \in Seq(Names),
           NEW type \in {"file", "dir"}, NEW r, r = RemovePath(t, w, x, type)
    PROVE  /\ r.t = t \/ Cut(t, r.t, x)
           /\ Ready(t, x, type) => Cut(t, r.t, x)
  <1>1. t \in Trees /\ t[Root].type = "dir"
    BY DEF TreeInv
  <1>2. PICK a : a = OpenNode(t, w, x)
    OBVIOUS
  <1>3. a \in Walks /\ (a.at = Nil <=> Resolve(t, x) = 0)
        /\ (a.at # Nil => a.nodes[a.at].type = t[Resolve(t, x)].type)
    BY <1>1, <1>2, OpenFacts
  <1>4. PICK b : b = FindParent(t, a, x)
    OBVIOUS
  <1>5. r = IF a.at = Nil \/ Type(a) # type \/ x = <<>> THEN [t |-> t, w |-> a]
            ELSE [t |-> Removed(t, Inode(b), Last(x), type), w |-> b]
    BY <1>2, <1>4 DEF RemovePath
  <1>6. CASE a.at = Nil \/ Type(a) # type \/ x = <<>>
    <2>1. r.t = t
      BY <1>5, <1>6
    <2>2. ~Ready(t, x, type)
      BY <1>3, <1>6 DEF Ready, Type
    <2> QED
      BY <2>1, <2>2
  <1>7. CASE ~(a.at = Nil \/ Type(a) # type \/ x = <<>>)
    <2>1. r.t = Removed(t, Inode(b), Last(x), type)
      BY <1>5, <1>7
    <2>2. Resolve(t, x) # 0 /\ x # <<>>
      BY <1>3, <1>7
    <2>3. b.at # Nil /\ Inode(b) = Resolve(t, Front(x))
      BY <1>3, <1>4, <2>2, ParentFacts
    <2>4. PICK p, n, u : p = Resolve(t, Front(x)) /\ n = Last(x) /\ u = Removed(t, p, n, type)
      OBVIOUS
    <2>5. r.t = u
      BY <2>1, <2>3, <2>4
    <2>6. CASE Removable(t, p, n, type)
      BY <2>2, <2>4, <2>5, <2>6, RemovedCut
    <2>7. CASE ~Removable(t, p, n, type)
      <3>1. u = t
        BY <2>4, <2>7 DEF Removed
      <3>2. Resolve(t, x) = Find(t, p, n) /\ Find(t, p, n) # 0
        BY <2>2, <2>4, NamedEntry
      <3>3. Has(t, p, n) /\ Child(t, p, n) = Resolve(t, x)
        BY <3>2 DEF Find
      <3>4. ~Ready(t, x, type)
        BY <2>7, <3>3 DEF Removable, Ready
      <3> QED
        BY <2>5, <3>1, <3>4
    <2> QED
      BY <2>6, <2>7
  <1> QED
    BY <1>6, <1>7

LEMMA RemovePathOutcome ==
    ASSUME NEW t, TreeInv(t), NEW w \in Walks, NEW x \in Seq(Names),
           NEW type \in {"file", "dir"}, NEW r, r = RemovePath(t, w, x, type),
           NEW v \in Outcomes(t, r.t)
    PROVE  /\ v = t \/ Cut(t, v, x)
           /\ Ready(t, x, type) => Cut(t, v, x)
  <1>1. (r.t = t \/ Cut(t, r.t, x)) /\ (Ready(t, x, type) => Cut(t, r.t, x))
    BY RemovePathCut
  <1>2. PICK u : u = r.t
    OBVIOUS
  <1>3. TreeInv(u)
    BY <1>2, RemovePathFacts DEF GrowsBut
  <1>4. CASE Cut(t, u, x)
    <2>1. (v = t /\ Refused(t, u)) \/ (TreeInv(v) /\ Redrawn(t, u, v))
      BY <1>2, <1>3, OutcomeIs
    <2>2. TreeInv(v) /\ Redrawn(t, u, v) => Cut(t, v, x)
      BY <1>3, <1>4, CutOutcome
    <2>3. Ready(t, x, type) => ~Refused(t, u)
      BY <1>4, CutRefused DEF Ready
    <2> QED
      BY <2>1, <2>2, <2>3
  <1>5. CASE ~Cut(t, u, x)
    <2>1. u = t /\ ~Ready(t, x, type)
      BY <1>1, <1>2, <1>5
    <2>2. v \in Outcomes(t, t)
      BY <1>2, <2>1
    <2> QED
      BY <2>1, <2>2, OutcomeNone
  <1> QED
    BY <1>4, <1>5

\* vfs_rmtree of a directory begins with its loop, of anything else it is vfs_unlink.
LEMMA EnterCut ==
    ASSUME NEW t, TreeInv(t), NEW w \in Walks, NEW x \in Seq(Names),
           NEW r, r = Enter(t, w, x)
    PROVE  IF Resolve(t, x) # 0 /\ t[Resolve(t, x)].type = "dir"
           THEN r.t = t /\ r.stack = <<Frame(x)>>
           ELSE r.stack = <<>> /\ \A v \in Outcomes(t, r.t) : v = t \/ Cut(t, v, x)
  <1>1. t \in Trees /\ t[Root].type = "dir"
    BY DEF TreeInv
  <1>2. PICK a : a = OpenNode(t, w, x)
    OBVIOUS
  <1>3. a \in Walks /\ (a.at = Nil <=> Resolve(t, x) = 0)
        /\ (a.at # Nil => a.nodes[a.at].type = t[Resolve(t, x)].type)
    BY <1>1, <1>2, OpenFacts
  <1>4. PICK e : e = RemovePath(t, a, x, "file")
    OBVIOUS
  <1>5. r = IF a.at = Nil \/ Type(a) # "dir" THEN [t |-> e.t, w |-> e.w, stack |-> <<>>]
            ELSE [t |-> t, w |-> OpenNode(t, a, x), stack |-> <<Frame(x)>>]
    BY <1>2, <1>4 DEF Enter
  <1>6. \A v \in Outcomes(t, e.t) : v = t \/ Cut(t, v, x)
    <2>1. PICK type \in {"file", "dir"} : type = "file"
      OBVIOUS
    <2> QED
      BY <1>3, <1>4, <2>1, RemovePathOutcome
  <1>7. CASE a.at = Nil \/ Type(a) # "dir"
    <2>1. r.t = e.t /\ r.stack = <<>>
      BY <1>5, <1>7
    <2>2. ~(Resolve(t, x) # 0 /\ t[Resolve(t, x)].type = "dir")
      BY <1>3, <1>7 DEF Type
    <2> QED
      BY <1>6, <2>1, <2>2
  <1>8. CASE ~(a.at = Nil \/ Type(a) # "dir")
    <2>1. r.t = t /\ r.stack = <<Frame(x)>>
      BY <1>5, <1>8
    <2>2. Resolve(t, x) # 0 /\ t[Resolve(t, x)].type = "dir"
      BY <1>3, <1>8 DEF Type
    <2> QED
      BY <2>1, <2>2
  <1> QED
    BY <1>7, <1>8

\* What the visit of an entry does: it calls vfs_rmtree on a directory, and of
\* anything else it removes at most that.
Visited(t, u, x, e, new) ==
    /\ \/ /\ u = t /\ new = <<Frame(x)>>
          /\ Resolve(t, x) # 0 /\ t[Resolve(t, x)].type = "dir"
       \/ new = <<>> /\ (u = t \/ Cut(t, u, x))
    /\ t[e.inode].type = "dir" /\ Resolve(t, x) = e.inode => new # <<>>
    /\ t[e.inode].type # "dir" /\ Ready(t, x, "file") => Cut(t, u, x)

LEMMA VisitCut ==
    ASSUME NEW t, TreeInv(t), NEW w \in Walks, NEW path \in Seq(Names), NEW e \in Entries,
           NEW r, r = Visit(t, w, path, e), NEW x, x = Append(path, e.name),
           NEW u \in Outcomes(t, r.t)
    PROVE  Visited(t, u, x, e, r.stack)
  <1>1. x \in Seq(Names) /\ e.name \in Names /\ e.inode \in Inodes /\ e.inode # 0
    <2>1. e.name \in Names /\ e.inode \in Inodes
      BY DEF Entries
    <2> QED
      BY <2>1, AppendProperties, InodeFacts
  <1>0. <<Frame(x)>> # <<>>
    OBVIOUS
  <1>2. CASE t[e.inode].type = "dir"
    <2>1. r = Enter(t, w, x)
      BY <1>2 DEF Visit
    <2>2. IF Resolve(t, x) # 0 /\ t[Resolve(t, x)].type = "dir"
          THEN r.t = t /\ r.stack = <<Frame(x)>>
          ELSE r.stack = <<>> /\ \A v \in Outcomes(t, r.t) : v = t \/ Cut(t, v, x)
      BY <1>1, <2>1, EnterCut
    <2>3. r.t = t => u = t
      BY OutcomeNone
    <2> QED
      BY <1>0, <1>1, <1>2, <2>2, <2>3 DEF Visited
  <1>3. CASE t[e.inode].type # "dir"
    <2>1. PICK s : s = RemovePath(t, w, x, "file")
      OBVIOUS
    <2>2. r = [t |-> s.t, w |-> s.w, stack |-> <<>>]
      BY <1>3, <2>1 DEF Visit
    <2>3. PICK type \in {"file", "dir"} : type = "file"
      OBVIOUS
    <2>5. r.t = s.t /\ r.stack = <<>>
      BY <2>2
    <2>4. (u = t \/ Cut(t, u, x)) /\ (Ready(t, x, "file") => Cut(t, u, x))
      <3>1. u \in Outcomes(t, s.t)
        BY <2>5
      <3> QED
        BY <1>1, <2>1, <2>3, <3>1, RemovePathOutcome
    <2> QED
      BY <1>3, <2>4, <2>5 DEF Visited
  <1> QED
    BY <1>2, <1>3

\* A removal below a path leaves the path alone, and outside of what is below it only
\* the parent of the path may lose an entry.
LEMMA CutTop ==
    ASSUME NEW t, TreeInv(t), NEW x \in Seq(Names), NEW u, Cut(t, u, x),
           NEW path \in Seq(Names), IsPrefix(path, x), NEW top, top = Resolve(t, path), top # 0
    PROVE  /\ x # path => Resolve(u, path) = top
           /\ Below(u, top) \subseteq Below(t, top)
           /\ \A i \in Inodes : i \notin Below(t, top) =>
                u[i] = t[i] \/ i = Resolve(t, Front(path))
  <1>0. t \in Trees /\ u \in Trees /\ x # <<>> /\ Resolve(t, x) # 0 /\ top \in Inodes
    BY ResolveFacts DEF TreeInv, Cut
  <1>1. x # path => path = Front(x) \/ ~IsPrefix(Front(x), path)
    <2>0. PICK f \in Seq(Names) : f = Front(x)
      BY <1>0, FrontFacts
    <2> SUFFICES ASSUME x # path, IsPrefix(f, path)
                 PROVE  path = f
      BY <2>0
    <2>1. IsPrefix(path, f)
      BY <1>0, <2>0, PrefixFront
    <2>2. /\ Len(path) <= Len(f) /\ Len(f) <= Len(path)
          /\ \A k \in 1 .. Len(path) : path[k] = f[k]
      BY <2>1, PrefixFacts
    <2>3. Len(path) \in Nat /\ Len(f) \in Nat
      BY SeqFacts
    <2> QED
      BY <2>2, <2>3, SeqEqual
  <1>2. x # path => Resolve(u, path) = top
    BY <1>1, CutPaths
  <1>3. /\ Below(t, top) \in SUBSET Inodes /\ top \in Below(t, top) /\ Closed(t, Below(t, top))
    BY <1>0, BelowFacts
  <1>4. PICK B : B = Below(t, top)
    OBVIOUS
  <1>5. Closed(u, B)
    <2> SUFFICES ASSUME NEW j \in B, NEW k \in At(u, j)
                 PROVE  u[j].ents[k].inode \in B
      BY DEF Closed
    <2>1. j \in Inodes
      BY <1>3, <1>4
    <2>2. \E l \in At(t, j) : u[j].ents[k] = t[j].ents[l]
      BY <2>1 DEF Cut
    <2> QED
      BY <1>3, <1>4, <2>2 DEF Closed
  <1>6. Below(u, top) \subseteq B
    BY <1>0, <1>3, <1>4, <1>5, BelowFacts
  <1>7. Resolve(t, x) \in B
    BY <1>0, <1>4, BelowPrefix
  <1>8. x # path => Resolve(t, Front(x)) \in B
    <2>1. PICK f \in Seq(Names) : f = Front(x)
      BY <1>0, FrontFacts
    <2>2. x # path => IsPrefix(path, f)
      BY <1>0, <2>1, PrefixFront
    <2>3. Resolve(t, f) # 0
      BY <1>0, <2>1, NamedEntry, InodeFacts
    <2> QED
      BY <1>4, <2>1, <2>2, <2>3, BelowPrefix
  <1>9. ASSUME NEW i \in Inodes, i \notin B, i # Resolve(t, Front(path))
        PROVE  u[i] = t[i]
    <2>1. i # Resolve(t, x) /\ i # Resolve(t, Front(x))
      BY <1>7, <1>8, <1>9
    <2> QED
      BY <2>1 DEF Cut
  <1> QED
    BY <1>2, <1>4, <1>6, <1>9

\* The only entry of a directory is what its name means.
Sole(t, i, e) == Len(t[i].ents) = 1 /\ e = t[i].ents[1] /\ t[i].size = "whole"

LEMMA OnlyEntry ==
    ASSUME NEW t, TreeInv(t), NEW path \in Seq(Names), NEW i \in Inodes, i = Resolve(t, path),
           NEW e, Sole(t, i, e), NEW x, x = Append(path, e.name)
    PROVE  Resolve(t, x) = e.inode
  <1>0. t \in Trees /\ t[i].type = "dir" /\ i # 0
    <2>1. t[i].ents # <<>>
      BY EmptySeq DEF Sole
    <2> QED
      BY <2>1, InodeFacts DEF TreeInv
  <1>1. At(t, i) = 1 .. 1 /\ e \in Entries /\ e.name \in Names /\ e.inode \in Inodes
    BY <1>0, TreeFacts DEF At, Sole
  <1>2. x \in Seq(Names) /\ x # <<>> /\ Front(x) = path /\ Last(x) = e.name
    <2>1. PICK n \in Names : n = e.name
      BY <1>1
    <2>2. x = Append(path, n)
      BY <2>1
    <2>3. x \in Seq(Names) /\ x # <<>> /\ Front(x) = path /\ Last(x) = n
      BY <2>2, FrontAppend
    <2> QED
      BY <2>1, <2>3
  <1>3. Resolve(t, x) = Step(t, i, e.name)
    BY <1>0, <1>2, ResolveFront
  <1>4. 1 \in At(t, i) /\ \A k \in At(t, i) : k = 1
    BY <1>1
  <1>a. t[i].seen = 1
    BY DEF Sole, TreeInv, SeenOK
  <1>5. Has(t, i, e.name)
    <2>1. Index(t, i, e.name) = 1
      BY <1>0, <1>4, IndexFacts DEF Sole
    <2> QED
      BY <1>0, <1>a, <2>1 DEF Has
  <1>6. Child(t, i, e.name) = e.inode
    BY <1>0, <1>4, <1>5, FindFacts DEF Sole
  <1> QED
    BY <1>0, <1>3, <1>5, <1>6 DEF Step

\* The calls of vfs_rmtree under way go down from path, one component at a time.
Chain(st, path) ==
    /\ st[Len(st)].path = path
    /\ \A k \in 1 .. Len(st) : IsPrefix(path, st[k].path)
    /\ \A k \in 1 .. Len(st) - 1 :
         st[k].path # path /\ st[k].path # <<>> /\ st[k + 1].path = Front(st[k].path)

\* The stack after a turn of the loop: the calls made in it, and the one that goes on.
Turned(new, g, st) == new \o <<g>> \o Tail(st)

TurnedTo(s, new, g, st) ==
    /\ s \in Seq(Frames) /\ Len(s) = Len(new) + Len(st)
    /\ Len(st) \in Nat \ {0} /\ Len(new) \in Nat
    /\ \A k \in 1 .. Len(new) : s[k] = new[k]
    /\ s[Len(new) + 1] = g
    /\ \A k \in 2 .. Len(st) : s[Len(new) + k] = st[k]

LEMMA StackFacts ==
    ASSUME NEW st \in Seq(Frames), st # <<>>, NEW new \in Seq(Frames), NEW g \in Frames,
           NEW s, s = Turned(new, g, st)
    PROVE  TurnedTo(s, new, g, st)
  <1>1. PICK b \in Seq(Frames) : b = <<g>> /\ Len(b) = 1 /\ b[1] = g
    <2>1. <<g>> \in Seq(Frames) /\ Len(<<g>>) = 1 /\ <<g>>[1] = g
      OBVIOUS
    <2> QED
      BY <2>1
  <1>2. PICK d \in Seq(Frames) : /\ d = Tail(st) /\ Len(d) = Len(st) - 1
                                 /\ \A k \in 1 .. Len(d) : d[k] = st[k + 1]
    BY HeadTailProperties
  <1>3. PICK a \in Seq(Frames) : /\ a = new \o b /\ Len(a) = Len(new) + Len(b)
                                 /\ \A k \in 1 .. Len(new) + Len(b) :
                                      a[k] = IF k <= Len(new) THEN new[k] ELSE b[k - Len(new)]
    <2>1. /\ new \o b \in Seq(Frames) /\ Len(new \o b) = Len(new) + Len(b)
          /\ \A k \in 1 .. Len(new) + Len(b) :
               (new \o b)[k] = IF k <= Len(new) THEN new[k] ELSE b[k - Len(new)]
      BY ONLY new \in Seq(Frames), b \in Seq(Frames), ConcatProperties
    <2> QED
      BY <2>1
  <1>4. /\ s \in Seq(Frames) /\ Len(s) = Len(a) + Len(d)
        /\ \A k \in 1 .. Len(a) + Len(d) :
             s[k] = IF k <= Len(a) THEN a[k] ELSE d[k - Len(a)]
    <2>1. s = a \o d
      BY <1>1, <1>2, <1>3 DEF Turned
    <2>2. /\ a \o d \in Seq(Frames) /\ Len(a \o d) = Len(a) + Len(d)
          /\ \A k \in 1 .. Len(a) + Len(d) :
               (a \o d)[k] = IF k <= Len(a) THEN a[k] ELSE d[k - Len(a)]
      BY ONLY a \in Seq(Frames), d \in Seq(Frames), ConcatProperties
    <2> QED
      BY <2>1, <2>2
  <1>5. PICK m \in Nat, n \in Nat \ {0} : m = Len(new) /\ n = Len(st)
    BY EmptySeq, LenProperties
  <1>6. Len(b) = 1 /\ Len(d) = n - 1 /\ Len(a) = m + 1
    BY <1>1, <1>2, <1>3, <1>5
  <1>7. ASSUME NEW k \in 1 .. m
        PROVE  s[k] = new[k]
    <2>1. k \in 1 .. m + 1 /\ k \in 1 .. (m + 1) + (n - 1) /\ k <= m + 1 /\ k <= m
      OBVIOUS
    <2> QED
      BY <1>3, <1>4, <1>5, <1>6, <2>1
  <1>8. s[m + 1] = g
    <2>1. m + 1 \in 1 .. m + 1 /\ m + 1 \in 1 .. (m + 1) + (n - 1) /\ ~(m + 1 <= m) /\ (m + 1) - m = 1
      OBVIOUS
    <2>2. s[m + 1] = a[m + 1]
      BY <1>4, <1>6, <2>1
    <2>3. a[m + 1] = b[1]
      BY <1>3, <1>5, <1>6, <2>1
    <2> QED
      BY <1>1, <2>2, <2>3
  <1>9. ASSUME NEW k \in 2 .. n
        PROVE  s[m + k] = st[k]
    <2>1. m + k \in 1 .. (m + 1) + (n - 1) /\ ~(m + k <= m + 1) /\ (m + k) - (m + 1) = k - 1
          /\ k - 1 \in 1 .. n - 1 /\ (k - 1) + 1 = k
      OBVIOUS
    <2>2. s[m + k] = d[k - 1]
      BY <1>4, <1>6, <2>1
    <2> QED
      BY <1>2, <1>6, <2>1, <2>2
  <1>10. Len(s) = m + n
    BY <1>4, <1>6
  <1>11. /\ s \in Seq(Frames) /\ Len(s) = Len(new) + Len(st)
         /\ Len(st) \in Nat \ {0} /\ Len(new) \in Nat /\ s[Len(new) + 1] = g
         /\ \A k \in 1 .. Len(new) : s[k] = new[k]
         /\ \A k \in 2 .. Len(st) : s[Len(new) + k] = st[k]
    BY <1>4, <1>5, <1>7, <1>8, <1>9, <1>10
  <1> QED
    BY <1>11 DEF TurnedTo

LEMMA ChainPop ==
    ASSUME NEW st \in Seq(Frames), st # <<>>, NEW path, Chain(st, path)
    PROVE  IF Tail(st) = <<>> THEN st[1].path = path
           ELSE /\ st[1].path # path /\ st[1].path # <<>>
                /\ Chain(Tail(st), path) /\ Tail(st)[1].path = Front(st[1].path)
  <1>1. PICK d \in Seq(Frames) : /\ d = Tail(st) /\ Len(d) = Len(st) - 1
                                 /\ \A k \in 1 .. Len(d) : d[k] = st[k + 1]
    BY HeadTailProperties
  <1>2. PICK n \in Nat \ {0} : n = Len(st)
    BY EmptySeq, LenProperties
  <1>3. CASE n = 1
    <2>1. d = <<>>
      BY <1>1, <1>2, <1>3, EmptySeq
    <2> QED
      BY <1>1, <1>2, <1>3, <2>1 DEF Chain
  <1>4. CASE n # 1
    <2>1. n - 1 \in 1 .. n - 1 /\ (n - 1) + 1 = n /\ 1 \in 1 .. n - 1 /\ 1 + 1 = 2 /\ Len(d) = n - 1
      BY <1>1, <1>2, <1>4
    <2>2. d # <<>>
      BY <2>1, EmptySeq
    <2>3. st[1].path # path /\ st[1].path # <<>> /\ d[1].path = Front(st[1].path)
      BY <1>1, <1>2, <2>1 DEF Chain
    <2>4. d[n - 1].path = path
      BY <1>1, <1>2, <2>1 DEF Chain
    <2>5. \A k \in 1 .. n - 1 : k + 1 \in 1 .. n
      OBVIOUS
    <2>6. \A k \in 1 .. n - 2 : k + 1 \in 1 .. n - 1 /\ k \in 1 .. n - 1
      OBVIOUS
    <2>7. \A k \in 1 .. n - 1 : IsPrefix(path, d[k].path)
      BY <1>1, <1>2, <2>1, <2>5 DEF Chain
    <2>8. \A k \in 1 .. n - 2 :
             d[k].path # path /\ d[k].path # <<>> /\ d[k + 1].path = Front(d[k].path)
      BY <1>1, <1>2, <2>1, <2>6 DEF Chain
    <2>9. Chain(d, path)
      <3>1. (n - 1) - 1 = n - 2
        OBVIOUS
      <3> QED
        BY <2>1, <2>4, <2>7, <2>8, <3>1 DEF Chain
    <2> QED
      BY <1>1, <2>2, <2>3, <2>9
  <1> QED
    BY <1>3, <1>4

\* The loop goes on.
LEMMA ChainStay ==
    ASSUME NEW st \in Seq(Frames), st # <<>>, NEW path, Chain(st, path),
           NEW s, Len(s) = Len(st), s[1].path = st[1].path,
           \A k \in 2 .. Len(st) : s[k] = st[k]
    PROVE  Chain(s, path)
  <1>1. PICK n \in Nat \ {0} : n = Len(st)
    BY EmptySeq, LenProperties
  <1>2. \A k \in 1 .. n : s[k].path = st[k].path
    <2>1. \A k \in 1 .. n : k = 1 \/ k \in 2 .. n
      OBVIOUS
    <2> QED
      BY <1>1, <2>1
  <1>3. n \in 1 .. n /\ \A k \in 1 .. n - 1 : k \in 1 .. n /\ k + 1 \in 1 .. n
    OBVIOUS
  <1> QED
    BY <1>1, <1>2, <1>3 DEF Chain

\* A call is made for a component more.
LEMMA ChainPush ==
    ASSUME NEW st \in Seq(Frames), st # <<>>, NEW path \in Seq(Names), Chain(st, path),
           NEW n \in Names, NEW s, Len(s) = Len(st) + 1, s[1].path = Append(st[1].path, n),
           \A k \in 1 .. Len(st) : s[k + 1].path = st[k].path
    PROVE  Chain(s, path)
  <1>1. PICK m \in Nat \ {0} : m = Len(st)
    BY EmptySeq, LenProperties
  <1>2. st[1].path \in Seq(Names) /\ IsPrefix(path, st[1].path)
    <2>1. 1 \in 1 .. m
      OBVIOUS
    <2>2. st[1] \in Frames
      BY <1>1, <2>1, ElementOfSeq
    <2> QED
      BY <1>1, <2>1, <2>2 DEF Chain, Frames
  <1>3. PICK x : x = s[1].path
    OBVIOUS
  <1>4. x # <<>> /\ Front(x) = st[1].path /\ IsPrefix(path, x) /\ x # path
    <2>1. PICK y \in Seq(Names) : y = st[1].path
      BY <1>2
    <2>2. x = Append(y, n) /\ IsPrefix(path, y)
      BY <1>2, <1>3, <2>1
    <2>3. x # <<>> /\ Front(x) = y /\ IsPrefix(path, x) /\ x # path
      BY <2>2, FrontAppend
    <2> QED
      BY <2>1, <2>3
  <1>5. s[m + 1].path = path
    BY <1>1 DEF Chain
  <1>6. ASSUME NEW k \in 1 .. m + 1
        PROVE  IsPrefix(path, s[k].path)
    <2>1. CASE k = 1
      BY <1>3, <1>4, <2>1
    <2>2. CASE k # 1
      <3>1. k - 1 \in 1 .. m /\ (k - 1) + 1 = k
        BY <2>2
      <3> QED
        BY <1>1, <3>1 DEF Chain
    <2> QED
      BY <2>1, <2>2
  <1>7. ASSUME NEW k \in 1 .. m
        PROVE  s[k].path # path /\ s[k].path # <<>> /\ s[k + 1].path = Front(s[k].path)
    <2>1. CASE k = 1
      <3>1. s[1 + 1].path = st[1].path
        BY <1>1
      <3> QED
        BY <1>3, <1>4, <2>1, <3>1
    <2>2. CASE k # 1
      <3>1. k - 1 \in 1 .. m - 1 /\ k - 1 \in 1 .. m /\ (k - 1) + 1 = k
        BY <2>2
      <3>2. s[k].path = st[k - 1].path /\ s[k + 1].path = st[k].path
        BY <1>1, <3>1
      <3> QED
        BY <1>1, <3>1, <3>2 DEF Chain
    <2> QED
      BY <2>1, <2>2
  <1>8. (m + 1) - 1 = m
    OBVIOUS
  <1> QED
    BY <1>1, <1>5, <1>6, <1>7, <1>8 DEF Chain

\* The tree to be removed is still named by its path, and nothing has come to it.
TopOK(t, c) == Resolve(t, c.path) = c.top /\ Below(t, c.top) \subseteq c.below

Few(t, c) == \A i \in Below(t, c.top) : Thin(t, i)

\* The call at work is on a directory, before its first turn or with nothing left.
HeadOK(t, f) ==
    /\ Resolve(t, f.path) # 0 /\ t[Resolve(t, f.path)].type = "dir"
    /\ f.index = 1 \/ t[Resolve(t, f.path)].ents = <<>>

RmOK(t, c, st) ==
    /\ Chain(st, c.path) /\ TopOK(t, c)
    /\ c.thin => Few(t, c) /\ HeadOK(t, st[1])

\* Nothing changes outside but the directory that names the tree.
Outside(t, u, c) ==
    \A i \in Inodes \ c.below : u[i] = t[i] \/ i = Resolve(t, Front(c.path))

LEMMA RemovalFacts ==
    ASSUME NEW c \in Removals
    PROVE  /\ c.path \in Seq(Names) /\ c.stack \in Seq(Frames) /\ c.stack # <<>>
           /\ c.top \in Inodes /\ c.top # 0 /\ c.below \in SUBSET Inodes
  BY InodeFacts DEF Removals

LEMMA TopKept ==
    ASSUME NEW t, TreeInv(t), NEW c \in Removals, TopOK(t, c), NEW x \in Seq(Names),
           IsPrefix(c.path, x), NEW u, u = t \/ Cut(t, u, x)
    PROVE  /\ Outside(t, u, c)
           /\ u = t \/ x # c.path => TopOK(u, c)
           /\ Few(t, c) => Few(u, c)
  <1>1. CASE u = t
    BY <1>1 DEF Outside
  <1>2. CASE Cut(t, u, x)
    <2>1. PICK path \in Seq(Names), top \in Inodes : path = c.path /\ top = c.top /\ top # 0
                                                   /\ top = Resolve(t, path)
      BY RemovalFacts DEF TopOK
    <2>2. /\ x # path => Resolve(u, path) = top
          /\ Below(u, top) \subseteq Below(t, top)
          /\ \A i \in Inodes : i \notin Below(t, top) =>
               u[i] = t[i] \/ i = Resolve(t, Front(path))
      BY <1>2, <2>1, CutTop
    <2>3. Below(t, top) \subseteq c.below
      BY <2>1 DEF TopOK
    <2>4. Outside(t, u, c)
      BY <2>1, <2>2, <2>3 DEF Outside
    <2>5. x # c.path => TopOK(u, c)
      BY <2>1, <2>2, <2>3 DEF TopOK
    <2>6. ASSUME Few(t, c)
          PROVE  Few(u, c)
      <3> SUFFICES ASSUME NEW i \in Below(u, top)
                   PROVE  Thin(u, i)
        BY <2>1 DEF Few
      <3>1. i \in Below(t, top)
        BY <2>2
      <3>2. i \in Inodes /\ t \in Trees /\ u \in Trees
        BY <2>1, <3>1, BelowFacts, RemovalFacts DEF TreeInv, Cut
      <3>3. Thin(t, i)
        BY <2>1, <2>6, <3>1 DEF Few
      <3>4. CASE i = Resolve(t, x)
        <4>1. u[i] = Free
          BY <1>2, <3>4 DEF Cut
        <4> QED
          BY <4>1 DEF Thin, Free
      <3>5. CASE i = Resolve(t, Front(x))
        BY <1>2, <3>3, <3>5 DEF Cut
      <3>6. CASE i # Resolve(t, x) /\ i # Resolve(t, Front(x))
        <4>1. u[i] = t[i]
          BY <1>2, <3>2, <3>6 DEF Cut
        <4> QED
          BY <3>3, <4>1 DEF Thin
      <3> QED
        BY <3>4, <3>5, <3>6
    <2>7. u = t => TopOK(u, c)
      OBVIOUS
    <2> QED
      BY <2>4, <2>5, <2>6, <2>7
  <1> QED
    BY <1>1, <1>2

\* After a removal the parent has one entry less.
LEMMA CutParent ==
    ASSUME NEW t, TreeInv(t), NEW x \in Seq(Names), NEW u, Cut(t, u, x), NEW i,
           i = Resolve(t, Front(x)), Thin(t, i)
    PROVE  /\ Resolve(u, Front(x)) = i /\ i \in Inodes /\ i # 0
           /\ u[i].type = "dir" /\ u[i].ents = <<>>
  <1>1. x # <<>> /\ Resolve(t, x) # 0 /\ u \in Trees /\ t \in Trees
    BY DEF Cut, TreeInv
  <1>2. PICK f \in Seq(Names) : f = Front(x)
    BY <1>1, FrontFacts
  <1>4. Resolve(u, f) = i
    BY <1>2, CutPaths
  <1>5. i \in Inodes /\ i # 0
    BY <1>1, NamedEntry, InodeFacts
  <1>6. t[i].type = "dir" /\ Len(t[i].ents) = 1
    <2>1. \E k \in At(t, i) : t[i].ents[k].name = Last(x)
      BY <1>1, NamedEntry
    <2>2. t[i].ents # <<>>
      BY <2>1 DEF At
    <2> QED
      BY <1>5, <2>2 DEF TreeInv, Thin
  <1>7. u[i].type = "dir" /\ Len(u[i].ents) = Len(t[i].ents) - 1
    BY <1>6 DEF Cut
  <1>8. Len(u[i].ents) \in Nat /\ Len(t[i].ents) \in Nat /\ u[i].ents \in Seq(Entries)
    BY <1>1, <1>5, TreeFacts
  <1>9. Len(u[i].ents) = 0
    <2>1. PICK a \in Nat, b \in Nat : a = Len(u[i].ents) /\ b = Len(t[i].ents)
      BY <1>8
    <2>2. a = b - 1 /\ b = 1
      BY <1>6, <1>7, <2>1
    <2>3. a = 0
      BY ONLY a \in Nat, b \in Nat, <2>2
    <2> QED
      BY <2>1, <2>3
  <1>10. u[i].ents = <<>>
    BY <1>8, <1>9, EmptySeq
  <1> QED
    BY <1>2, <1>4, <1>5, <1>7, <1>10

\* The end of a call of vfs_rmtree: vfs_rmdir of its own path.
LEMMA LastTurn ==
    ASSUME NEW t, TreeInv(t), NEW c \in Removals, NEW st, st = c.stack, RmOK(t, c, st),
           NEW f, f = st[1], NEW i, i = Resolve(t, f.path), NEW w \in Walks,
           ~(i # 0 /\ t[i].type = "dir" /\ f.index <= t[i].seen),
           NEW r, r = RemovePath(t, w, f.path, "dir"), NEW u \in Outcomes(t, r.t)
    PROVE  /\ Outside(t, u, c)
           /\ Tail(st) # <<>> => RmOK(u, c, Tail(st))
           /\ Tail(st) = <<>> /\ c.thin /\ c.path # <<>> => u[c.top] = Free
  <1>1. st \in Seq(Frames) /\ st # <<>> /\ c.path \in Seq(Names) /\ c.top \in Inodes
    BY RemovalFacts
  <1>2. Chain(st, c.path) /\ TopOK(t, c) /\ (c.thin => Few(t, c) /\ HeadOK(t, f))
    BY DEF RmOK
  <1>3. Len(st) \in Nat \ {0} /\ 1 \in 1 .. Len(st)
    BY <1>1, EmptySeq, LenProperties
  <1>4. f \in Frames
    BY <1>1, <1>3, ElementOfSeq
  <1>5. PICK x \in Seq(Names) : x = f.path /\ f.index \in Nat \ {0}
    BY <1>4 DEF Frames
  <1>6. IsPrefix(c.path, x)
    BY <1>2, <1>3, <1>5 DEF Chain
  <1>7. (u = t \/ Cut(t, u, x)) /\ (Ready(t, x, "dir") => Cut(t, u, x))
    <2>1. PICK type \in {"file", "dir"} : type = "dir"
      OBVIOUS
    <2> QED
      BY <1>5, <2>1, RemovePathOutcome
  <1>8. /\ Outside(t, u, c)
        /\ u = t \/ x # c.path => TopOK(u, c)
        /\ Few(t, c) => Few(u, c)
    BY <1>2, <1>6, <1>7, TopKept
  <1>9. ASSUME c.thin, x # <<>>
        PROVE  Cut(t, u, x)
    <2>1. i # 0 /\ t[i].type = "dir" /\ (f.index = 1 \/ t[i].ents = <<>>)
      BY <1>2, <1>9 DEF HeadOK
    <2>2. t \in Trees /\ i \in Inodes
      BY <1>5, <2>1, ResolveFacts DEF TreeInv
    <2>3. t[i].ents \in Seq(Entries) /\ Len(t[i].ents) \in Nat
      BY <2>2, TreeFacts
    <2>a. Thin(t, i)
      <3>1. PICK y \in Seq(Names) : y = c.path /\ Resolve(t, y) = c.top /\ c.top # 0
        BY <1>1, <1>2, RemovalFacts DEF TopOK
      <3>2. IsPrefix(y, x) /\ Resolve(t, x) # 0 /\ i = Resolve(t, x)
        BY <1>5, <1>6, <2>1, <3>1
      <3>3. Resolve(t, x) \in Below(t, Resolve(t, y))
        BY <3>1, <3>2, BelowPrefix
      <3> QED
        BY <1>2, <1>9, <3>1, <3>2, <3>3 DEF Few
    <2>b. t[i].size # "vague" /\ t[i].seen = Len(t[i].ents)
      <3>1. t[i].size # "vague"
        BY <2>a DEF Thin
      <3> QED
        BY <2>2, <3>1 DEF TreeInv, SeenOK
    <2>4. t[i].ents = <<>>
      <3>1. ~(f.index <= Len(t[i].ents))
        BY <2>1, <2>b
      <3>2. f.index = 1 => Len(t[i].ents) = 0
        BY <2>3, <3>1
      <3> QED
        BY <2>1, <2>3, <3>2, EmptySeq
    <2>5. Ready(t, x, "dir")
      BY <1>5, <1>9, <2>1, <2>4, <2>b DEF Ready
    <2> QED
      BY <1>7, <2>5
  <1>10. CASE Tail(st) = <<>>
    <2>1. x = c.path
      BY <1>1, <1>2, <1>5, <1>10, ChainPop
    <2>2. Resolve(t, x) = c.top
      BY <1>2, <2>1 DEF TopOK
    <2>3. c.thin /\ c.path # <<>> => u[c.top] = Free
      BY <1>9, <2>1, <2>2 DEF Cut
    <2> QED
      BY <1>8, <1>10, <2>3
  <1>11. CASE Tail(st) # <<>>
    <2>1. /\ x # c.path /\ x # <<>> /\ Chain(Tail(st), c.path) /\ Tail(st)[1].path = Front(x)
      BY <1>1, <1>2, <1>5, <1>11, ChainPop
    <2>2. TopOK(u, c) /\ (c.thin => Few(u, c))
      BY <1>2, <1>8, <2>1
    <2>3. ASSUME c.thin
          PROVE  HeadOK(u, Tail(st)[1])
      <3>1. Cut(t, u, x) /\ Few(t, c)
        BY <1>2, <1>9, <2>1, <2>3
      <3>2. PICK q, y : y = Front(x) /\ q = Resolve(t, y)
        OBVIOUS
      <3>3. y \in Seq(Names) /\ IsPrefix(c.path, y)
        BY <1>1, <1>6, <2>1, <3>2, FrontFacts, PrefixFront
      <3>4. Resolve(t, x) # 0
        BY <3>1 DEF Cut
      <3>5. q # 0
        BY <2>1, <3>2, <3>4, NamedEntry, InodeFacts
      <3>6. q \in Below(t, c.top)
        <4>1. PICK path \in Seq(Names) : path = c.path /\ Resolve(t, path) = c.top /\ c.top # 0
          BY <1>1, <1>2, RemovalFacts DEF TopOK
        <4>2. PICK z \in Seq(Names) : z = y
          BY <3>3
        <4>3. IsPrefix(path, z) /\ Resolve(t, z) # 0
          BY <3>2, <3>3, <3>5, <4>1, <4>2
        <4>4. Resolve(t, z) \in Below(t, Resolve(t, path))
          BY <4>1, <4>3, BelowPrefix
        <4> QED
          BY <3>2, <4>1, <4>2, <4>4
      <3>7. Thin(t, q)
        BY <3>1, <3>6 DEF Few
      <3>8. Resolve(u, y) = q /\ u[q].type = "dir" /\ u[q].ents = <<>>
        BY <3>1, <3>2, <3>7, CutParent
      <3> QED
        BY <2>1, <3>2, <3>5, <3>8 DEF HeadOK
    <2>4. RmOK(u, c, Tail(st))
      BY <2>1, <2>2, <2>3 DEF RmOK
    <2> QED
      BY <1>8, <1>11, <2>4
  <1> QED
    BY <1>10, <1>11

\* The stack after a turn that made no call, and after one that made a call.
LEMMA StackStays ==
    ASSUME NEW st \in Seq(Frames), st # <<>>, NEW path, Chain(st, path),
           NEW g \in Frames, g.path = st[1].path,
           NEW new, new = <<>>, NEW s, s = Turned(new, g, st)
    PROVE  Chain(s, path) /\ s[1] = g
  <1>1. PICK b \in Seq(Frames) : b = new /\ Len(b) = 0
    BY EmptySeq
  <1>2. s = Turned(b, g, st)
    BY <1>1
  <1>3. /\ Len(s) = Len(b) + Len(st) /\ Len(st) \in Nat \ {0} /\ s[Len(b) + 1] = g
        /\ \A k \in 2 .. Len(st) : s[Len(b) + k] = st[k]
    <2>1. TurnedTo(s, b, g, st)
      BY <1>2, StackFacts
    <2> QED
      BY <2>1 DEF TurnedTo
  <1>4. PICK m \in Nat \ {0} : m = Len(st)
    BY <1>3
  <1>5. Len(s) = Len(st) /\ s[1] = g /\ \A k \in 2 .. Len(st) : s[k] = st[k]
    <2>1. 0 + m = m /\ 0 + 1 = 1 /\ \A k \in 2 .. m : 0 + k = k
      OBVIOUS
    <2> QED
      BY <1>1, <1>3, <1>4, <2>1
  <1> QED
    BY <1>5, ChainStay

LEMMA StackGrows ==
    ASSUME NEW st \in Seq(Frames), st # <<>>, NEW path \in Seq(Names), Chain(st, path),
           NEW g \in Frames, g.path = st[1].path,
           NEW n \in Names, NEW h \in Frames, h.path = Append(st[1].path, n),
           NEW new, new = <<h>>, NEW s, s = Turned(new, g, st)
    PROVE  Chain(s, path) /\ s[1] = h
  <1>1. PICK b \in Seq(Frames) : b = new /\ Len(b) = 1 /\ b[1] = h
    <2>1. <<h>> \in Seq(Frames) /\ Len(<<h>>) = 1 /\ <<h>>[1] = h
      OBVIOUS
    <2> QED
      BY <2>1
  <1>2. s = Turned(b, g, st)
    BY <1>1
  <1>3. /\ Len(s) = Len(b) + Len(st) /\ Len(st) \in Nat \ {0} /\ s[Len(b) + 1] = g
        /\ \A k \in 1 .. Len(b) : s[k] = b[k]
        /\ \A k \in 2 .. Len(st) : s[Len(b) + k] = st[k]
    <2>1. TurnedTo(s, b, g, st)
      BY <1>2, StackFacts
    <2> QED
      BY <2>1 DEF TurnedTo
  <1>4. PICK m \in Nat \ {0} : m = Len(st)
    BY <1>3
  <1>5. /\ Len(s) = 1 + m /\ s[1 + 1] = g /\ s[1] = h
        /\ \A k \in 2 .. m : s[1 + k] = st[k]
    <2>1. 1 \in 1 .. 1
      OBVIOUS
    <2> QED
      BY <1>1, <1>3, <1>4, <2>1
  <1>6. ASSUME NEW k \in 1 .. m
        PROVE  s[k + 1].path = st[k].path
    <2>1. CASE k = 1
      BY <1>5, <2>1
    <2>2. CASE k # 1
      <3>1. k \in 2 .. m /\ 1 + k = k + 1
        BY <2>2
      <3>2. s[1 + k] = st[k]
        BY <1>5, <3>1
      <3> QED
        BY <3>1, <3>2
    <2> QED
      BY <2>1, <2>2
  <1>7. Len(s) = Len(st) + 1 /\ s[1].path = Append(st[1].path, n)
    BY <1>4, <1>5
  <1>8. \A k \in 1 .. Len(st) : s[k + 1].path = st[k].path
    BY <1>4, <1>6
  <1> QED
    BY <1>5, <1>7, <1>8, ChainPush

\* The call of frame f has directory i open and stands at its entry e.
Reads(t, f, i, e) ==
    /\ i = Resolve(t, f.path) /\ i # 0 /\ t[i].type = "dir"
    /\ f.index <= t[i].seen /\ e = t[i].ents[f.index]

LEMMA ReadFacts ==
    ASSUME NEW t, TreeInv(t), NEW f \in Frames, NEW i, NEW e, Reads(t, f, i, e)
    PROVE  /\ i \in Inodes /\ e \in Entries /\ e.name \in Names
           /\ e.inode \in Inodes /\ e.inode # 0 /\ t[e.inode].type # "free"
           /\ Thin(t, i) => Resolve(t, Append(f.path, e.name)) = e.inode
  <1>1. f.path \in Seq(Names) /\ f.index \in Nat \ {0}
    BY DEF Frames
  <1>2. t \in Trees /\ i \in Inodes
    BY <1>1, ResolveFacts DEF TreeInv, Reads
  <1>3. /\ t[i].ents \in Seq(Entries) /\ Len(t[i].ents) \in Nat
        /\ t[i].seen \in Nat /\ t[i].seen <= Len(t[i].ents)
    BY <1>2, TreeFacts DEF TreeInv, SeenOK
  <1>4. f.index \in At(t, i) /\ e = t[i].ents[f.index]
    BY <1>1, <1>3 DEF At, Reads
  <1>5. e \in Entries /\ e.name \in Names /\ e.inode \in Inodes /\ e.inode # 0
    BY <1>2, <1>4, TreeFacts, InodeFacts
  <1>6. t[e.inode].type # "free"
    BY <1>2, <1>4 DEF TreeInv
  <1>7. ASSUME Thin(t, i)
        PROVE  Resolve(t, Append(f.path, e.name)) = e.inode
    <2>1. PICK a \in Nat, b \in Nat \ {0} : a = Len(t[i].ents) /\ b = f.index
      BY <1>1, <1>3
    <2>a. Len(t[i].ents) = 1 /\ t[i].size = "whole"
      <3>1. t[i].ents # <<>>
        BY <1>4 DEF At
      <3> QED
        BY <1>7, <3>1 DEF Thin
    <2>2. a <= 1 /\ b <= a
      BY <1>4, <2>1, <2>a DEF At
    <2>3. a = 1 /\ b = 1
      BY ONLY a \in Nat, b \in Nat \ {0}, <2>2
    <2>4. Len(t[i].ents) = 1 /\ e = t[i].ents[1]
      BY <1>4, <2>1, <2>3
    <2>0. PICK path \in Seq(Names) : path = f.path
      BY <1>1
    <2>5. PICK x : path = f.path /\ x = Append(path, e.name)
      BY <2>0
    <2>6. i = Resolve(t, path)
      BY <2>5 DEF Reads
    <2>7. Resolve(t, x) = e.inode
      <3>1. Sole(t, i, e)
        BY <2>4, <2>a DEF Sole
      <3> QED
        BY ONLY TreeInv(t), path \in Seq(Names), <1>2, <2>5, <2>6, <3>1, OnlyEntry
    <2> QED
      BY <2>5, <2>7
  <1> QED
    BY <1>2, <1>5, <1>6, <1>7

\* The call visits the entry and is frame g after it; the calls made are new.
Visits(t, u, w, f, e, g, new) ==
    /\ u \in Outcomes(t, Visit(t, w, f.path, e).t) /\ new = Visit(t, w, f.path, e).stack
    /\ g \in Frames /\ g.path = f.path

LEMMA VisitedFacts ==
    ASSUME NEW t, TreeInv(t), NEW w \in Walks, NEW f \in Frames, NEW e \in Entries,
           NEW u, NEW g, NEW new, Visits(t, u, w, f, e, g, new),
           NEW x, x = Append(f.path, e.name)
    PROVE  Visited(t, u, x, e, new)
  <1>0. PICK path \in Seq(Names) : path = f.path
    BY DEF Frames
  <1>1. PICK r : path = f.path /\ r = Visit(t, w, path, e)
    BY <1>0
  <1>2. u \in Outcomes(t, r.t) /\ new = r.stack /\ x = Append(path, e.name)
    BY <1>1 DEF Visits
  <1>3. Visited(t, u, x, e, r.stack)
    BY <1>1, <1>2, VisitCut
  <1> QED
    BY <1>2, <1>3

\* A turn of the loop: an entry is visited and the index goes on.
LEMMA NextTurn ==
    ASSUME NEW t, TreeInv(t), NEW c \in Removals, NEW st, st = c.stack, RmOK(t, c, st),
           NEW f, f = st[1], NEW i, NEW e, Reads(t, f, i, e), NEW w \in Walks,
           NEW u, NEW g, NEW new, Visits(t, u, w, f, e, g, new),
           NEW s, s = Turned(new, g, st)
    PROVE  Outside(t, u, c) /\ RmOK(u, c, s)
  <1>1. st \in Seq(Frames) /\ st # <<>> /\ c.path \in Seq(Names) /\ c.top \in Inodes
    BY RemovalFacts
  <1>2. Chain(st, c.path) /\ TopOK(t, c) /\ (c.thin => Few(t, c) /\ HeadOK(t, f))
    BY DEF RmOK
  <1>3. Len(st) \in Nat \ {0} /\ 1 \in 1 .. Len(st)
    BY <1>1, EmptySeq, LenProperties
  <1>4. f \in Frames
    BY <1>1, <1>3, ElementOfSeq
  <1>5. PICK path \in Seq(Names) : path = f.path
    BY <1>4 DEF Frames
  <1>6. IsPrefix(c.path, path)
    BY <1>2, <1>3, <1>5 DEF Chain
  <1>7. /\ i \in Inodes /\ e \in Entries /\ e.name \in Names
        /\ e.inode \in Inodes /\ e.inode # 0 /\ t[e.inode].type # "free"
        /\ Thin(t, i) => Resolve(t, Append(f.path, e.name)) = e.inode
    BY <1>4, ReadFacts
  <1>8. i = Resolve(t, path) /\ i # 0 /\ g \in Frames /\ g.path = path
    BY <1>5 DEF Reads, Visits
  <1>0. PICK n \in Names : n = e.name
    BY <1>7
  <1>9. PICK x : n = e.name /\ x = Append(path, n)
    BY <1>0
  <1>10. /\ x \in Seq(Names) /\ x # <<>> /\ Front(x) = path
         /\ IsPrefix(c.path, x) /\ x # c.path
    BY <1>1, <1>6, <1>9, FrontAppend
  <1>11. Visited(t, u, x, e, new)
    BY <1>4, <1>5, <1>7, <1>9, VisitedFacts
  <1>12. u = t \/ Cut(t, u, x)
    BY <1>11 DEF Visited
  <1>13. Outside(t, u, c) /\ TopOK(u, c) /\ (Few(t, c) => Few(u, c))
    BY <1>2, <1>10, <1>12, TopKept
  <1>14. Frame(x).path = x /\ Frame(x).index = 1 /\ Frame(x) \in Frames
    BY <1>10 DEF Frame, Frames
  <1>15. ASSUME c.thin
         PROVE  Thin(t, i) /\ Resolve(t, x) = e.inode /\ Thin(t, e.inode)
    <2>1. PICK y \in Seq(Names) : y = c.path /\ Resolve(t, y) = c.top /\ c.top # 0
      BY <1>1, <1>2, RemovalFacts DEF TopOK
    <2>2. IsPrefix(y, path) /\ Resolve(t, path) # 0
      BY <1>6, <1>8, <2>1
    <2>3. Resolve(t, path) \in Below(t, Resolve(t, y))
      BY <2>1, <2>2, BelowPrefix
    <2>4. i \in Below(t, c.top)
      BY <1>8, <2>1, <2>3
    <2>5. Thin(t, i)
      BY <1>2, <1>15, <2>4 DEF Few
    <2>6. Resolve(t, x) = e.inode
      BY <1>5, <1>7, <1>9, <2>5
    <2>7. IsPrefix(y, x) /\ Resolve(t, x) # 0 /\ x \in Seq(Names)
      BY <1>7, <1>10, <2>1, <2>6
    <2>8. Resolve(t, x) \in Below(t, Resolve(t, y))
      BY <2>1, <2>7, BelowPrefix
    <2>9. Thin(t, e.inode)
      BY <1>2, <1>15, <2>1, <2>6, <2>8 DEF Few
    <2> QED
      BY <2>5, <2>6, <2>9
  <1>16. CASE new = <<>>
    <2>1. Chain(s, c.path) /\ s[1] = g
      BY <1>1, <1>2, <1>5, <1>8, <1>16, StackStays
    <2>2. ASSUME c.thin
          PROVE  HeadOK(u, g)
      <3>1. Thin(t, i) /\ Resolve(t, x) = e.inode /\ Thin(t, e.inode)
        BY <1>15, <2>2
      <3>2. t[e.inode].type # "dir"
        BY <1>11, <1>16, <3>1 DEF Visited
      <3>3. t[e.inode].type = "file" /\ t[e.inode].ents = <<>>
        BY <1>7, <3>2, TreeFacts DEF TreeInv, Types
      <3>a. t[e.inode].size # "vague"
        BY <3>1 DEF Thin
      <3>4. Ready(t, x, "file")
        BY <1>7, <1>10, <3>1, <3>3, <3>a DEF Ready
      <3>5. Cut(t, u, x)
        BY <1>11, <3>2, <3>4 DEF Visited
      <3>6. i = Resolve(t, Front(x)) /\ g.path = Front(x)
        BY <1>8, <1>10
      <3>7. Resolve(u, Front(x)) = i /\ u[i].type = "dir" /\ u[i].ents = <<>>
        BY <1>10, <3>1, <3>5, <3>6, CutParent
      <3> QED
        BY <1>8, <3>6, <3>7 DEF HeadOK
    <2>3. RmOK(u, c, s)
      BY <1>2, <1>13, <2>1, <2>2 DEF RmOK
    <2> QED
      BY <1>13, <2>3
  <1>17. CASE new # <<>>
    <2>1. /\ u = t /\ new = <<Frame(x)>>
          /\ Resolve(t, x) # 0 /\ t[Resolve(t, x)].type = "dir"
      BY <1>11, <1>17 DEF Visited
    <2>2. PICK h \in Frames : h = Frame(x) /\ h.path = x
      BY <1>14
    <2>3. h.path = Append(st[1].path, n) /\ g.path = st[1].path /\ new = <<h>>
      BY <1>5, <1>8, <1>9, <2>1, <2>2
    <2>4. Chain(s, c.path) /\ s[1] = h
      <3>1. PICK y \in Seq(Names) : y = c.path
        BY <1>1
      <3>2. PICK b \in Seq(Frames) : b = st
        BY <1>1
      <3>3. PICK k \in Frames : k = g
        BY <1>8
      <3>4. b # <<>> /\ Chain(b, y) /\ k.path = b[1].path /\ h.path = Append(b[1].path, n)
            /\ s = Turned(new, k, b)
        BY <1>1, <1>2, <2>3, <3>1, <3>2, <3>3
      <3>5. Chain(s, y) /\ s[1] = h
        BY ONLY b \in Seq(Frames), k \in Frames, y \in Seq(Names), n \in Names, h \in Frames,
                <2>3, <3>4, StackGrows
      <3> QED
        BY <3>1, <3>5
    <2>5. HeadOK(u, h)
      BY <1>14, <2>1, <2>2 DEF HeadOK
    <2>6. RmOK(u, c, s)
      BY <1>2, <1>13, <2>4, <2>5 DEF RmOK
    <2> QED
      BY <1>13, <2>6
  <1> QED
    BY <1>16, <1>17

\* The command goes on with the stack s.
GoesOn(c, d, s) == d \in Removals /\ d.path = c.path /\ d.top = c.top
                   /\ d.below = c.below /\ d.thin = c.thin /\ d.stack = s

LEMMA GoesOnRmOK ==
    ASSUME NEW c, NEW d, NEW s, GoesOn(c, d, s), NEW t, RmOK(t, c, s)
    PROVE  RmOK(t, d, d.stack)
  <1>1. Chain(d.stack, d.path) /\ TopOK(t, d)
    BY DEF RmOK, GoesOn, TopOK
  <1>2. d.thin => Few(t, d) /\ HeadOK(t, d.stack[1])
    BY DEF RmOK, GoesOn, Few
  <1> QED
    BY <1>1, <1>2 DEF RmOK

LEMMA StackSet ==
    ASSUME NEW c \in Removals, NEW s \in Seq(Frames), s # <<>>, NEW d, d = [c EXCEPT !.stack = s]
    PROVE  GoesOn(c, d, s)
  BY DEF Removals, GoesOn

RmStepOK ==
    /\ Outside(tree, tree', cmd)
    /\ cmd' = Idle \/ RmOK(tree', cmd', cmd'.stack)
    /\ cmd' = Idle /\ cmd.thin /\ cmd.path # <<>> => tree'[cmd.top] = Free

\* Every turn of rm -r removes nothing outside its tree, and the last the tree.
LEMMA RmTreeStepOK ==
    ASSUME VInv, RmTreeStep, RmOK(tree, cmd, cmd.stack)
    PROVE  RmStepOK
  <1>1. cmd # Idle /\ cmd.op = "rmtree"
    BY DEF RmTreeStep
  <1>2. cmd \in Removals
    BY <1>1, CmdCases DEF VInv
  <1>3. PICK f, w :
          /\ f = Head(cmd.stack) /\ w = OpenNode(tree, Start, f.path)
          /\ IF w.at # Nil /\ Type(w) = "dir" /\ f.index <= tree[Inode(w)].seen
             THEN \E r \in {Visit(tree, w, f.path, tree[Inode(w)].ents[f.index])} :
                     /\ tree' \in Outcomes(tree, r.t) /\ Walked(r.w)
                     /\ cmd' = [cmd EXCEPT !.stack =
                                   r.stack \o <<[f EXCEPT !.index = @ + 1]>> \o Tail(@)]
             ELSE \E r \in {RemovePath(tree, w, f.path, "dir")} :
                     /\ tree' \in Outcomes(tree, r.t) /\ Walked(r.w)
                     /\ cmd' = (IF Tail(cmd.stack) = <<>> THEN Idle
                                ELSE [cmd EXCEPT !.stack = Tail(@)])
    BY DEF RmTreeStep
  <1>4. PICK st \in Seq(Frames) : st = cmd.stack /\ st # <<>>
    BY <1>2 DEF Removals
  <1>5. f = st[1] /\ f \in Frames /\ Tail(st) \in Seq(Frames)
    <2>1. Head(st) \in Frames /\ Tail(st) \in Seq(Frames)
      BY <1>4, HeadTailProperties
    <2>2. Head(st) = st[1]
      BY ONLY <1>4, st \in Seq(Frames)
    <2> QED
      BY <1>3, <1>4, <2>1, <2>2
  <1>6. f.path \in Seq(Names) /\ f.index \in Nat \ {0}
    BY <1>5 DEF Frames
  <1>7. tree \in Trees /\ tree[Root].type = "dir" /\ Start \in Walks /\ TreeInv(tree)
    BY DEF VInv, TreeInv, RingOK
  <1>8. PICK i : i = Resolve(tree, f.path)
    OBVIOUS
  <1>9. /\ w \in Walks /\ (w.at = Nil <=> i = 0)
        /\ w.at # Nil => Inode(w) = i /\ Type(w) = tree[i].type
    <2>1. PICK path \in Seq(Names) : path = f.path
      BY <1>6
    <2>2. PICK a \in Walks : a = Start
      BY <1>7
    <2>3. w = OpenNode(tree, a, path)
      BY <1>3, <2>1, <2>2
    <2>4. /\ w \in Walks /\ (w.at = Nil <=> Resolve(tree, path) = 0)
          /\ w.at # Nil => /\ w.nodes[w.at].inode = Resolve(tree, path)
                           /\ w.nodes[w.at].type = tree[Resolve(tree, path)].type
      BY <1>7, <2>3, OpenFacts
    <2> QED
      BY <1>8, <2>1, <2>4 DEF Inode, Type
  <1>10. CASE w.at # Nil /\ Type(w) = "dir" /\ f.index <= tree[Inode(w)].seen
    <2>1. PICK e : e = tree[i].ents[f.index]
      OBVIOUS
    <2>2. Reads(tree, f, i, e)
      BY <1>8, <1>9, <1>10, <2>1 DEF Reads
    <2>3. PICK r : /\ r = Visit(tree, w, f.path, e) /\ tree' \in Outcomes(tree, r.t)
                   /\ cmd' = [cmd EXCEPT !.stack =
                                 r.stack \o <<[f EXCEPT !.index = @ + 1]>> \o Tail(st)]
      BY <1>3, <1>4, <1>9, <1>10, <2>1
    <2>4. PICK g : g = [f EXCEPT !.index = @ + 1]
      OBVIOUS
    <2>5. g \in Frames /\ g.path = f.path
      <3>1. PICK n \in Nat \ {0} : n = f.index + 1
        BY <1>6
      <3>2. g = [f EXCEPT !.index = n]
        BY <2>4, <3>1
      <3> QED
        BY <1>5, <3>2 DEF Frames
    <2>6. PICK new, s : new = r.stack /\ s = Turned(new, g, st)
      OBVIOUS
    <2>7. Visits(tree, tree', w, f, e, g, new)
      BY <2>3, <2>5, <2>6 DEF Visits
    <2>8. Outside(tree, tree', cmd) /\ RmOK(tree', cmd, s)
      BY <1>2, <1>4, <1>5, <1>7, <1>9, <2>2, <2>6, <2>7, NextTurn
    <2>9. s \in Seq(Frames) /\ s # <<>>
      <3>1. new \in Seq(Frames)
        <4>1. e \in Entries
          BY <1>5, <1>7, <2>2, ReadFacts
        <4> QED
          BY <1>6, <1>7, <1>9, <2>3, <2>6, <4>1, VisitFacts
      <3>2. TurnedTo(s, new, g, st)
        BY <1>4, <2>5, <2>6, <3>1, StackFacts
      <3>3. /\ s \in Seq(Frames) /\ Len(s) = Len(new) + Len(st)
            /\ Len(st) \in Nat \ {0} /\ Len(new) \in Nat
        BY <3>2 DEF TurnedTo
      <3>4. PICK a \in Nat, b \in Nat \ {0} : a = Len(new) /\ b = Len(st)
        BY <3>3
      <3>5. a + b # 0
        BY ONLY a \in Nat, b \in Nat \ {0}
      <3>6. Len(s) # 0
        BY <3>3, <3>4, <3>5
      <3> QED
        BY <3>3, <3>6, EmptySeq
    <2>10. cmd' = [cmd EXCEPT !.stack = s]
      BY <2>3, <2>4, <2>6 DEF Turned
    <2>11. GoesOn(cmd, cmd', s)
      BY <1>2, <2>9, <2>10, StackSet
    <2>12. RmOK(tree', cmd', cmd'.stack) /\ cmd' # Idle
      <3>1. RmOK(tree', cmd', cmd'.stack)
        BY <2>8, <2>11, GoesOnRmOK
      <3>2. cmd'.op = "rmtree" /\ Idle.op = "none"
        BY <2>11 DEF GoesOn, Removals, Idle
      <3> QED
        BY <3>1, <3>2
    <2> QED
      BY <2>8, <2>12 DEF RmStepOK
  <1>11. CASE ~(w.at # Nil /\ Type(w) = "dir" /\ f.index <= tree[Inode(w)].seen)
    <2>1. PICK r : /\ r = RemovePath(tree, w, f.path, "dir") /\ tree' \in Outcomes(tree, r.t)
                   /\ cmd' = (IF Tail(st) = <<>> THEN Idle
                              ELSE [cmd EXCEPT !.stack = Tail(st)])
      BY <1>3, <1>4, <1>11
    <2>2. ~(i # 0 /\ tree[i].type = "dir" /\ f.index <= tree[i].seen)
      BY <1>9, <1>11
    <2>3. /\ Outside(tree, tree', cmd)
          /\ Tail(st) # <<>> => RmOK(tree', cmd, Tail(st))
          /\ Tail(st) = <<>> /\ cmd.thin /\ cmd.path # <<>> => tree'[cmd.top] = Free
      BY <1>2, <1>4, <1>5, <1>7, <1>8, <1>9, <2>1, <2>2, LastTurn
    <2>4. CASE Tail(st) = <<>>
      BY <2>1, <2>3, <2>4 DEF RmStepOK
    <2>5. CASE Tail(st) # <<>>
      <3>1. cmd' = [cmd EXCEPT !.stack = Tail(st)]
        BY <2>1, <2>5
      <3>2. GoesOn(cmd, cmd', Tail(st))
        BY <1>2, <1>5, <2>5, <3>1, StackSet
      <3>3. RmOK(tree', cmd', cmd'.stack)
        BY <2>3, <2>5, <3>2, GoesOnRmOK
      <3>4. cmd'.op = "rmtree" /\ Idle.op = "none"
        BY <3>2 DEF GoesOn, Removals, Idle
      <3> QED
        BY <2>3, <3>3, <3>4 DEF RmStepOK
    <2> QED
      BY <2>4, <2>5
  <1> QED
    BY <1>10, <1>11

\* A removal under way has kept its tree where it was.
RmInv == cmd = Idle \/ cmd.op # "rmtree" \/ RmOK(tree, cmd, cmd.stack)

LEMMA RmTreeBegins ==
    ASSUME VInv, NEW path \in Seq(Names), RmTree(path)
    PROVE  RmInv'
  <1>1. PICK w : /\ w = OpenNode(tree, Start, path)
                 /\ IF w.at = Nil THEN Walked(w) /\ UNCHANGED <<tree, cmd>>
                    ELSE \E r \in {Enter(tree, w, path)} :
                            /\ tree' \in Outcomes(tree, r.t) /\ Walked(r.w)
                            /\ cmd' = Removing(r, path)
    BY DEF RmTree
  <1>2. cmd = Idle /\ TreeInv(tree)
    BY DEF RmTree, VInv
  <1>3. w \in Walks
    BY <1>1, OpenFacts DEF VInv, TreeInv, RingOK
  <1>4. CASE w.at = Nil
    BY <1>1, <1>2, <1>4 DEF RmInv
  <1>5. CASE w.at # Nil
    <2>1. PICK r : /\ r = Enter(tree, w, path) /\ tree' \in Outcomes(tree, r.t)
                   /\ cmd' = Removing(r, path)
      BY <1>1, <1>5
    <2>2. IF Resolve(tree, path) # 0 /\ tree[Resolve(tree, path)].type = "dir"
          THEN r.t = tree /\ r.stack = <<Frame(path)>>
          ELSE r.stack = <<>> /\ \A v \in Outcomes(tree, r.t) : v = tree \/ Cut(tree, v, path)
      BY <1>2, <1>3, <2>1, EnterCut
    <2>3. CASE r.stack = <<>>
      BY <2>1, <2>3 DEF Removing, RmInv
    <2>4. CASE r.stack # <<>>
      <3>1. /\ Resolve(tree, path) # 0 /\ tree[Resolve(tree, path)].type = "dir"
            /\ tree' = tree /\ r.stack = <<Frame(path)>>
        BY <1>2, <2>1, <2>2, <2>4, OutcomeNone
      <3>2. PICK top, low, thin : /\ top = Resolve(tree, path) /\ low = Below(tree, top)
                                  /\ thin = \A i \in low : Thin(tree, i)
        OBVIOUS
      <3>3. cmd' = [op |-> "rmtree", path |-> path, stack |-> r.stack, top |-> top,
                    below |-> low, thin |-> thin]
        BY <2>1, <2>4, <3>2 DEF Removing
      <3>4. /\ cmd'.path = path /\ cmd'.stack = r.stack /\ cmd'.top = top
            /\ cmd'.below = low /\ cmd'.thin = thin
        BY <3>3
      <3>5. TopOK(tree', cmd')
        BY <3>1, <3>2, <3>4 DEF TopOK
      <3>6. cmd'.thin => Few(tree', cmd')
        BY <3>1, <3>2, <3>4 DEF Few
      <3>7. PICK h : h = Frame(path) /\ h.path = path /\ h.index = 1
        <4>1. Frame(path).path = path /\ Frame(path).index = 1
          BY DEF Frame
        <4> QED
          BY <4>1
      <3>8. cmd'.stack = <<h>> /\ cmd'.stack[1] = h
        BY <3>1, <3>4, <3>7
      <3>9. HeadOK(tree', cmd'.stack[1])
        BY <3>1, <3>7, <3>8 DEF HeadOK
      <3>10. Chain(cmd'.stack, cmd'.path)
        <4>1. IsPrefix(path, path)
          BY PrefixFacts
        <4>2. Len(<<h>>) = 1 /\ <<h>>[1] = h
          OBVIOUS
        <4>3. Chain(<<h>>, path)
          BY <3>7, <4>1, <4>2 DEF Chain
        <4> QED
          BY <3>4, <3>8, <4>3
      <3> QED
        BY <3>5, <3>6, <3>9, <3>10 DEF RmInv, RmOK
    <2> QED
      BY <2>3, <2>4
  <1> QED
    BY <1>4, <1>5

\* Opening a descriptor starts no removal.
LEMMA OpenedCmd ==
    ASSUME cmd = Idle, NEW w, NEW op \in {"load", "save", "echo"}, NEW path, NEW at,
           Opened(w, op, path, at)
    PROVE  cmd' = Idle \/ cmd'.op # "rmtree"
  BY DEF Opened, Descriptor

LEMMA RmInvNext == VInv /\ RmInv /\ [VNext]_vvars => RmInv'
  <1> SUFFICES ASSUME VInv, RmInv, [VNext]_vvars
               PROVE  RmInv'
    OBVIOUS
  <1>1. CASE UNCHANGED vvars
    <2>1. tree' = tree /\ cmd' = cmd
      BY <1>1 DEF vvars
    <2> QED
      BY <2>1 DEF RmInv
  <1>2. ASSUME cmd' = Idle \/ cmd'.op # "rmtree"
        PROVE  RmInv'
    BY <1>2 DEF RmInv
  <1>3. ASSUME NEW path \in Paths, Command(path)
        PROVE  RmInv'
    <2>1. CASE RmTree(path)
      BY <2>1, PathsAreSeqs, RmTreeBegins
    <2>2. CASE Look(path) \/ Make(path, "file") \/ Make(path, "dir") \/ Rm(path) \/ Rmdir(path)
      <3>1. cmd = Idle /\ cmd' = cmd
        BY <2>2 DEF Look, Make, Rm, Rmdir
      <3> QED
        BY <1>2, <3>1
    <2>3. CASE Load(path)
      <3>1. cmd = Idle /\ \E w : Opened(w, "load", path, "use")
        BY <2>3 DEF Load
      <3> QED
        BY <1>2, <3>1, OpenedCmd
    <2>4. ASSUME NEW p, NEW op \in {"save", "echo"}, NEW at,
                 cmd = Idle, CreateAndOpen(p, op, path, at)
          PROVE  RmInv'
      <3>1. cmd' = cmd \/ \E w : Opened(w, op, path, at)
        BY <2>4 DEF CreateAndOpen
      <3> QED
        BY <1>2, <2>4, <3>1, OpenedCmd
    <2>5. CASE Save(path)
      <3>1. PICK w : IF w.at # Nil
                     THEN Opened(w, "save", path, "truncate")
                     ELSE CreateAndOpen(FindParent(tree, w, path), "save", path, "truncate")
        BY <2>5 DEF Save
      <3>2. cmd = Idle
        BY <2>5 DEF Save
      <3>3. PICK op \in {"save", "echo"} : op = "save"
        OBVIOUS
      <3> QED
        BY <1>2, <2>4, <3>1, <3>2, <3>3, OpenedCmd
    <2>6. CASE EchoWrite(path)
      <3>1. cmd = Idle /\ \E p : CreateAndOpen(p, "echo", path, "use")
        BY <2>6 DEF EchoWrite
      <3> QED
        BY <2>4, <3>1
    <2> QED
      BY <1>3, <2>1, <2>2, <2>3, <2>5, <2>6 DEF Command
  <1>4. CASE Truncate \/ Transfer
    <2>1. cmd # Idle /\ cmd.op \in {"load", "save", "echo"} /\ \E at : cmd' = [cmd EXCEPT !.at = at]
      BY <1>4 DEF Truncate, Transfer
    <2>2. cmd \in Descriptors
      BY <2>1, CmdCases DEF VInv, DescOK
    <2>3. cmd'.op = cmd.op
      BY <2>1, <2>2 DEF Descriptors
    <2> QED
      BY <1>2, <2>1, <2>3
  <1>5. CASE Close
    BY <1>2, <1>5 DEF Close
  <1>6. CASE RmTreeStep
    <2>1. RmOK(tree, cmd, cmd.stack)
      BY <1>6 DEF RmInv, RmTreeStep
    <2> QED
      BY <1>6, <2>1, RmTreeStepOK DEF RmStepOK, RmInv
  <1>7. ASSUME NEW old, NEW new, Mv(old, new)
        PROVE  RmInv'
    <2>1. cmd = Idle /\ cmd' = cmd
      BY <1>7 DEF Mv
    <2> QED
      BY <1>2, <2>1
  <1> QED
    BY <1>1, <1>3, <1>4, <1>5, <1>6, <1>7 DEF VNext

\* rm -r (vfs_rmtree) changes no inode outside the tree it was called on, but the
\* directory that names the tree, in any of its steps, and at its end the tree is
\* gone if no directory in it had more than one entry, or one after it was shrunk:
\* for every tree and depth.
THEOREM RmTreeIsExact == VSpec => RmTreeExact
  <1> DEFINE A == cmd # Idle /\ cmd.op = "rmtree" =>
                    /\ \A i \in Inodes \ cmd.below :
                          tree'[i] = tree[i] \/ i = Resolve(tree, Front(cmd.path))
                    /\ cmd' = Idle /\ cmd.thin /\ cmd.path # <<>> => tree'[cmd.top] = Free
  <1>1. VInit => RmInv
    BY DEF VInit, RmInv
  <1>2. VInv /\ RmInv /\ [VNext]_vvars => [A]_vvars
    <2> SUFFICES ASSUME VInv, RmInv, VNext, cmd # Idle, cmd.op = "rmtree"
                 PROVE  /\ \A i \in Inodes \ cmd.below :
                             tree'[i] = tree[i] \/ i = Resolve(tree, Front(cmd.path))
                        /\ cmd' = Idle /\ cmd.thin /\ cmd.path # <<>> =>
                             tree'[cmd.top] = Free
      OBVIOUS
    <2>1. RmTreeStep
      <3>1. \A path : ~Command(path)
        BY DEF Command, Look, Make, Rm, Rmdir, RmTree, Load, Save, EchoWrite
      <3>2. ~Truncate /\ ~Transfer /\ ~Close /\ \A old, new : ~Mv(old, new)
        BY DEF Truncate, Transfer, Close, Mv
      <3> QED
        BY <3>1, <3>2 DEF VNext
    <2>2. RmStepOK
      BY <2>1, RmTreeStepOK DEF RmInv
    <2> QED
      BY <2>2 DEF RmStepOK, Outside
  <1>3. VSpec => []RmInv
    BY <1>1, RmInvNext, VfsInvariance, PTL DEF VSpec
  <1> QED
    BY <1>2, <1>3, VfsInvariance, PTL DEF VSpec, RmTreeExact
=============================================================================
