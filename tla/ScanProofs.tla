----------------------------- MODULE ScanProofs -----------------------------
(***************************************************************************)
(* Proofs about the two programs that read a directory while it changes:   *)
(* FileLog, for any names, depth and number of files and any length of the *)
(* event queue, and ProcScan, for any number of processes.                 *)
(***************************************************************************)
EXTENDS FileLog, ProcScan, SequenceTheorems, FiniteSetTheorems, WellFoundedInduction, TLAPS

(* Recursive functions on numbers *)

Less == {ss \in Nat \X Nat : ss[1] < ss[2]}

\* There is a least number in a set of numbers.
LEMMA LeastNumber ==
  ASSUME NEW S \in SUBSET Nat, S # {}
  PROVE  \E n \in S : \A m \in S : n <= m
<1>1. IsWellFoundedOn(Less, Nat)
  BY NatLessThanWellFounded DEF OpToRel, Less
<1>2. PICK n \in S : \A m \in S : ~(<<m, n>> \in Less)
  BY <1>1, WFMin
<1>3. ASSUME NEW m \in S PROVE n <= m
  <2>1. m \in Nat /\ n \in Nat /\ <<m, n>>[1] = m /\ <<m, n>>[2] = n
    OBVIOUS
  <2>2. ~(m < n)
    BY <1>2, <2>1 DEF Less
  <2>3. QED
    BY <2>1, <2>2
<1>4. QED
  BY <1>3

\* What holds for 0 and passes from each number to the next one, up to L, holds up to L.
LEMMA UpTo ==
  ASSUME NEW L \in Nat, NEW S, 0 \in S, \A n \in 1 .. L : n - 1 \in S => n \in S
  PROVE  \A n \in 0 .. L : n \in S
<1> DEFINE B == {n \in 0 .. L : n \notin S}
<1> SUFFICES ASSUME B # {} PROVE FALSE
  OBVIOUS
<1>1. PICK n \in B : \A m \in B : n <= m
  <2>1. B \in SUBSET Nat
    OBVIOUS
  <2> HIDE DEF B
  <2>2. QED
    BY <2>1, LeastNumber
<1>2. n \in 1 .. L /\ n - 1 \in 0 .. L
  BY <1>1
<1>3. QED
  BY <1>1, <1>2

\* w has the value a at 0, and up to L each of its values comes from the last by G.
Iterates(w, a, L, G) == w[0] = a /\ \A n \in 1 .. L : w[n] = G[<<n, w[n - 1]>>]

\* A value for 0 and a step from each number to the next one make a function.
LEMMA Iteration ==
  ASSUME NEW V, NEW a \in V, NEW L \in Nat, NEW G, \A n \in 1 .. L, v \in V : G[<<n, v>>] \in V
  PROVE  \E w \in [0 .. L -> V] : Iterates(w, a, L, G)
<1> DEFINE S == {m \in 0 .. L : \E w \in [0 .. m -> V] : Iterates(w, a, m, G)}
<1>1. 0 \in S
  <2> DEFINE u == [n \in 0 .. 0 |-> a]
  <2>1. u \in [0 .. 0 -> V] /\ Iterates(u, a, 0, G)
    BY DEF Iterates
  <2> HIDE DEF u
  <2>2. QED
    BY <2>1
<1>2. ASSUME NEW m \in 1 .. L, m - 1 \in S PROVE m \in S
  <2>1. PICK w \in [0 .. m - 1 -> V] : Iterates(w, a, m - 1, G)
    BY <1>2
  <2> DEFINE u == [n \in 0 .. m |-> IF n = m THEN G[<<m, w[m - 1]>>] ELSE w[n]]
  <2>2. u \in [0 .. m -> V]
    <3>1. ASSUME NEW n \in 0 .. m PROVE u[n] \in V
      <4>1. CASE n = m
        BY <4>1
      <4>2. CASE n # m
        BY <4>2
      <4>3. QED
        BY <4>1, <4>2
    <3>2. QED
      BY <3>1
  <2>3. Iterates(u, a, m, G)
    <3>1. u[0] = a
      BY <2>1 DEF Iterates
    <3>2. ASSUME NEW n \in 1 .. m PROVE u[n] = G[<<n, u[n - 1]>>]
      <4>1. n - 1 \in 0 .. m /\ n - 1 # m /\ u[n - 1] = w[n - 1]
        OBVIOUS
      <4>2. CASE n = m
        BY <4>1, <4>2
      <4>3. CASE n # m
        <5>1. n \in 1 .. m - 1 /\ u[n] = w[n]
          BY <4>3
        <5>2. QED
          BY <4>1, <5>1, <2>1 DEF Iterates
      <4>4. QED
        BY <4>2, <4>3
    <3>3. QED
      BY <3>1, <3>2 DEF Iterates
  <2> HIDE DEF u
  <2>4. QED
    BY <2>2, <2>3
<1>3. L \in S
  <2> HIDE DEF S
  <2>1. \A n \in 0 .. L : n \in S
    BY <1>1, <1>2, UpTo
  <2>2. QED
    BY <2>1
<1>4. QED
  BY <1>3
-----------------------------------------------------------------------------
(* FileLog: paths in a tree.  The tree is a parameter here, so that the lemmas *)
(* speak of the tree before and after a change.                              *)

EntriesIn(T, d) == {k \in DOMAIN T : T[k].dir = d}
ChildIn(T, d, n) == IF \E k \in EntriesIn(T, d) : T[k].name = n
                      THEN CHOOSE k \in EntriesIn(T, d) : T[k].name = n ELSE Missing
LookupIn(T, path) ==
  LET to[n \in 0 .. Len(path)] == IF n = 0 THEN Root ELSE ChildIn(T, to[n - 1], path[n])
  IN  to[Len(path)]

\* Every inode has a directory, and no two in one directory have the same name.
IsTree(T) ==
  /\ DOMAIN T \subseteq Nat \ {0}
  /\ \A k \in DOMAIN T : T[k].dir \in {Root} \cup DOMAIN T
  /\ \A k, m \in DOMAIN T : T[k].dir = T[m].dir /\ T[k].name = T[m].name => k = m

\* What Child returns is the entry of that name, if there is one.
LEMMA ChildFound ==
  ASSUME NEW T, IsTree(T), NEW d, NEW n, NEW k, k = ChildIn(T, d, n), k # Missing
  PROVE  k \in DOMAIN T /\ T[k].dir = d /\ T[k].name = n
BY DEF ChildIn, EntriesIn

LEMMA ChildIs ==
  ASSUME NEW T, IsTree(T), NEW k \in DOMAIN T
  PROVE  ChildIn(T, T[k].dir, T[k].name) = k /\ k # Missing
<1>1. k # Missing
  BY DEF IsTree, Missing
<1>2. k \in EntriesIn(T, T[k].dir)
  BY DEF EntriesIn
<1>3. \A m \in EntriesIn(T, T[k].dir) : T[m].name = T[k].name => m = k
  BY DEF EntriesIn, IsTree
<1>4. QED
  BY <1>1, <1>2, <1>3 DEF ChildIn

LEMMA NoChildOfMissing ==
  ASSUME NEW T, IsTree(T), NEW n
  PROVE  ChildIn(T, Missing, n) = Missing
<1>1. Missing \notin {Root} \cup DOMAIN T
  BY DEF IsTree, Missing, Root
<1>2. QED
  BY <1>1, ChildFound DEF IsTree

\* A walk along a path: the inodes that it passes.
Walk(T, path, w) ==
  /\ w = [n \in 0 .. Len(path) |-> w[n]]
  /\ w[0] = Root
  /\ \A n \in 1 .. Len(path) : w[n] = ChildIn(T, w[n - 1], path[n])

\* There is one along every path.
LEMMA WalkExists ==
  ASSUME NEW T, IsTree(T), NEW path, Len(path) \in Nat
  PROVE  \E w : Walk(T, path, w)
<1> DEFINE V == {Root, Missing} \cup DOMAIN T
           L == Len(path)
           G == [nv \in (1 .. L) \X V |-> ChildIn(T, nv[2], path[nv[1]])]
<1>1. \A n \in 1 .. L, v \in V : G[<<n, v>>] = ChildIn(T, v, path[n])
  OBVIOUS
<1>2. \A d, n : ChildIn(T, d, n) \in V
  BY ChildFound
<1>3. \A n \in 1 .. L, v \in V : G[<<n, v>>] \in V
  BY <1>1, <1>2
<1>4. Root \in V /\ L \in Nat
  OBVIOUS
<1> HIDE DEF G
<1>5. PICK w \in [0 .. L -> V] : Iterates(w, Root, L, G)
  <2> HIDE DEF V, L
  <2>1. QED
    BY <1>3, <1>4, Iteration
<1>6. ASSUME NEW n \in 1 .. L PROVE w[n] = ChildIn(T, w[n - 1], path[n])
  <2>1. n - 1 \in 0 .. L
    OBVIOUS
  <2>2. w[n - 1] \in V
    BY <2>1
  <2>3. QED
    BY <1>1, <1>5, <2>2 DEF Iterates
<1>7. QED
  BY <1>5, <1>6 DEF Walk, Iterates

\* There is no other, and it ends at what the path leads to.
LEMMA WalkUnique ==
  ASSUME NEW T, NEW path, Len(path) \in Nat, NEW v, NEW w, Walk(T, path, v), Walk(T, path, w)
  PROVE  v = w
<1> DEFINE S == {n \in 0 .. Len(path) : v[n] = w[n]}
<1>1. 0 \in S
  BY DEF Walk
<1>2. ASSUME NEW n \in 1 .. Len(path), n - 1 \in S PROVE n \in S
  <2>1. n \in 0 .. Len(path) /\ v[n - 1] = w[n - 1]
    BY <1>2
  <2>2. v[n] = ChildIn(T, v[n - 1], path[n]) /\ w[n] = ChildIn(T, w[n - 1], path[n])
    BY DEF Walk
  <2>3. QED
    BY <2>1, <2>2
<1>3. \A n \in 0 .. Len(path) : n \in S
  <2> HIDE DEF S
  <2>1. QED
    BY <1>1, <1>2, UpTo
<1>4. QED
  BY <1>3 DEF Walk

LEMMA WalkLeads ==
  ASSUME NEW T, IsTree(T), NEW path, Len(path) \in Nat, NEW w, Walk(T, path, w)
  PROVE  LookupIn(T, path) = w[Len(path)]
<1> DEFINE to == CHOOSE f :
             f = [n \in 0 .. Len(path) |-> IF n = 0 THEN Root ELSE ChildIn(T, f[n - 1], path[n])]
<1>1. w = [n \in 0 .. Len(path) |-> IF n = 0 THEN Root ELSE ChildIn(T, w[n - 1], path[n])]
  <2> DEFINE u == [n \in 0 .. Len(path) |-> IF n = 0 THEN Root ELSE ChildIn(T, w[n - 1], path[n])]
  <2>1. \A n \in 0 .. Len(path) : w[n] = u[n]
    BY DEF Walk
  <2>2. w = [n \in 0 .. Len(path) |-> w[n]] /\ u = [n \in 0 .. Len(path) |-> u[n]]
    BY DEF Walk
  <2> HIDE DEF u
  <2>3. w = u
    BY <2>1, <2>2
  <2>4. QED
    BY <2>3 DEF u
<1>2. to = [n \in 0 .. Len(path) |-> IF n = 0 THEN Root ELSE ChildIn(T, to[n - 1], path[n])]
  BY <1>1
<1> HIDE DEF to
<1>3. Walk(T, path, to)
  BY <1>2 DEF Walk
<1>4. LookupIn(T, path) = to[Len(path)]
  BY DEF LookupIn, to
<1>5. QED
  BY <1>3, <1>4, WalkUnique
\* The empty path leads to the root, and one more name to the child of that name.
LEMMA LookupRoot ==
  ASSUME NEW T, IsTree(T)
  PROVE  LookupIn(T, <<>>) = Root
<1>1. Len(<<>>) = 0
  OBVIOUS
<1>2. PICK w : Walk(T, <<>>, w)
  BY <1>1, WalkExists
<1>3. QED
  BY <1>1, <1>2, WalkLeads DEF Walk

LEMMA LookupAppend ==
  ASSUME NEW T, IsTree(T), NEW S, NEW path \in Seq(S), NEW n \in S
  PROVE  LookupIn(T, Append(path, n)) = ChildIn(T, LookupIn(T, path), n)
<1> DEFINE long == Append(path, n)
           L == Len(path)
<1>1. /\ L \in Nat /\ Len(long) = L + 1
      /\ long[L + 1] = n /\ \A m \in 1 .. L : long[m] = path[m]
  OBVIOUS
<1> HIDE DEF long
<1>2. PICK w : Walk(T, long, w)
  BY <1>1, WalkExists
<1> DEFINE v == [m \in 0 .. L |-> w[m]]
<1>3. Walk(T, path, v)
  <2>1. \A m \in 1 .. L : m \in 1 .. Len(long) /\ m - 1 \in 0 .. L /\ m \in 0 .. L
    BY <1>1
  <2>2. ASSUME NEW m \in 1 .. L PROVE v[m] = ChildIn(T, v[m - 1], path[m])
    <3>1. w[m] = ChildIn(T, w[m - 1], long[m])
      BY <1>2, <2>1 DEF Walk
    <3>2. QED
      BY <1>1, <2>1, <3>1
  <2>3. v[0] = Root /\ v = [m \in 0 .. Len(path) |-> v[m]]
    BY <1>1, <1>2 DEF Walk
  <2>4. QED
    BY <2>2, <2>3 DEF Walk
<1>4. LookupIn(T, path) = w[L]
  <2> HIDE DEF v
  <2>1. LookupIn(T, path) = v[L]
    BY <1>1, <1>3, WalkLeads
  <2>2. QED
    BY <1>1, <2>1 DEF v
<1>5. LookupIn(T, long) = w[L + 1]
  BY <1>1, <1>2, WalkLeads
<1>6. w[L + 1] = ChildIn(T, w[L], n)
  <2>1. PICK m \in 1 .. Len(long) : m = L + 1 /\ m - 1 = L
    BY <1>1
  <2>2. w[m] = ChildIn(T, w[m - 1], long[m])
    BY <1>2 DEF Walk
  <2>3. QED
    BY <1>1, <2>1, <2>2
<1>7. QED
  BY <1>4, <1>5, <1>6 DEF long

\* A walk that ends at an inode passes nothing but inodes.
LEMMA WalkThere ==
  ASSUME NEW T, IsTree(T), NEW path, Len(path) \in Nat, NEW w, Walk(T, path, w),
         w[Len(path)] # Missing
  PROVE  \A n \in 0 .. Len(path) : w[n] # Missing
<1> DEFINE L == Len(path)
           S == {n \in 0 .. L : w[L - n] # Missing}
<1>1. 0 \in S
  OBVIOUS
<1>2. ASSUME NEW n \in 1 .. L, n - 1 \in S PROVE n \in S
  <2>1. PICK m \in 1 .. L : m = L - (n - 1) /\ m - 1 = L - n
    OBVIOUS
  <2>2. w[m] = ChildIn(T, w[m - 1], path[m])
    BY DEF Walk
  <2>3. w[m] # Missing
    BY <1>2, <2>1
  <2>4. QED
    BY <2>1, <2>2, <2>3, NoChildOfMissing
<1>3. \A n \in 0 .. L : n \in S
  <2> HIDE DEF S
  <2>1. QED
    BY <1>1, <1>2, UpTo
<1>4. ASSUME NEW n \in 0 .. L PROVE w[n] # Missing
  <2>1. L - n \in 0 .. L /\ L - (L - n) = n
    OBVIOUS
  <2>2. QED
    BY <1>3, <2>1
<1>5. QED
  BY <1>4

\* T becomes U, in which some are made and some that have no entries are removed.
Grows(T, U) ==
  \A k \in DOMAIN T :
    \/ k \in DOMAIN U /\ U[k].dir = T[k].dir /\ U[k].name = T[k].name
    \/ k \notin DOMAIN U /\ EntriesIn(T, k) = {}

\* A path that leads to an inode which stays leads there all the while.
LEMMA LookupStays ==
  ASSUME NEW T, NEW U, IsTree(T), IsTree(U), Grows(T, U),
         NEW path, Len(path) \in Nat, NEW k \in {Root} \cup DOMAIN U, LookupIn(T, path) = k
  PROVE  LookupIn(U, path) = k
<1>1. k # Missing
  BY DEF IsTree, Root, Missing
<1>2. PICK w : Walk(T, path, w)
  BY WalkExists
<1>3. w[Len(path)] = k
  BY <1>2, WalkLeads
<1>4. \A n \in 0 .. Len(path) : w[n] # Missing
  BY <1>1, <1>2, <1>3, WalkThere
<1>5. ASSUME NEW n \in 1 .. Len(path) PROVE w[n] = ChildIn(U, w[n - 1], path[n])
  <2>1. n \in 0 .. Len(path) /\ n - 1 \in 0 .. Len(path)
    OBVIOUS
  <2>2. w[n] = ChildIn(T, w[n - 1], path[n]) /\ w[n] # Missing
    BY <1>2, <1>4, <2>1 DEF Walk
  <2>3. w[n] \in DOMAIN T /\ T[w[n]].dir = w[n - 1] /\ T[w[n]].name = path[n]
    BY <2>2, ChildFound
  <2>4. w[n] \in DOMAIN U /\ U[w[n]].dir = T[w[n]].dir /\ U[w[n]].name = T[w[n]].name
    <3>1. CASE n = Len(path)
      <4>1. w[n] \in DOMAIN U
        BY <1>3, <2>3, <3>1 DEF IsTree, Root
      <4>2. QED
        BY <2>3, <4>1 DEF Grows
    <3>2. CASE n # Len(path)
      <4>1. PICK m \in 1 .. Len(path) : m - 1 = n /\ m \in 0 .. Len(path)
        BY <3>2
      <4>2. w[m] = ChildIn(T, w[m - 1], path[m]) /\ w[m] # Missing
        BY <1>2, <1>4, <4>1 DEF Walk
      <4>3. w[m] \in EntriesIn(T, w[n])
        BY <4>1, <4>2, ChildFound DEF EntriesIn
      <4>4. QED
        BY <2>3, <4>3 DEF Grows
    <3>3. QED
      BY <3>1, <3>2
  <2>5. QED
    BY <2>3, <2>4, ChildIs
<1>6. Walk(U, path, w)
  BY <1>2, <1>5 DEF Walk
<1>7. QED
  BY <1>3, <1>6, WalkLeads

\* The operators of FileLog are these, of its tree.
LEMMA OfTree ==
  /\ \A d : Entries(d) = EntriesIn(tree, d)
  /\ \A d, n : Child(d, n) = ChildIn(tree, d, n)
  /\ \A path : Lookup(path) = LookupIn(tree, path)
BY DEF Entries, EntriesIn, Child, ChildIn, Lookup, LookupIn

LEMMA OfTreeNext ==
  /\ \A d : Entries(d)' = EntriesIn(tree', d)
  /\ \A d, n : Child(d, n)' = ChildIn(tree', d, n)
  /\ \A path : Lookup(path)' = LookupIn(tree', path)
BY DEF Entries, EntriesIn, Child, ChildIn, Lookup, LookupIn
\* A path leads to the root, to an inode or nowhere.
LEMMA LookupInode ==
  ASSUME NEW T, IsTree(T), NEW path, Len(path) \in Nat
  PROVE  LookupIn(T, path) \in {Root, Missing} \cup DOMAIN T
<1>1. PICK w : Walk(T, path, w)
  BY WalkExists
<1>2. LookupIn(T, path) = w[Len(path)]
  BY <1>1, WalkLeads
<1>3. CASE Len(path) = 0
  BY <1>1, <1>2, <1>3 DEF Walk
<1>4. CASE Len(path) # 0
  <2>1. PICK m \in 1 .. Len(path) : m = Len(path)
    BY <1>4
  <2>2. w[m] = ChildIn(T, w[m - 1], path[m])
    BY <1>1 DEF Walk
  <2>3. QED
    BY <1>2, <2>1, <2>2, ChildFound
<1>5. QED
  BY <1>3, <1>4
-----------------------------------------------------------------------------
(* FileLog: type correctness *)

\* Nothing has been watched, listed or reported yet.
Starting ==
  pc = "start" => /\ DOMAIN watch = {} /\ lastWd = 0 /\ queue = <<>>
                  /\ cur = <<>> /\ at = Root /\ todo = <<>> /\ dir_list = <<>>

\* The list has a place for every descriptor.
LogInv ==
  /\ TypeOK
  /\ IsTree(tree)
  /\ lastWd <= Len(dir_list)
  /\ Starting

\* What a maker of a file or directory does.
LEMMA MakeDoes ==
  ASSUME LogInv, NEW d \in {Root} \cup DOMAIN tree, NEW n \in Names, NEW kind \in Kinds,
         Make(d, n, kind)
  PROVE  LET k == lastIno + 1 IN
         /\ k \in Inodes /\ k \notin DOMAIN tree /\ lastIno' = k
         /\ DOMAIN tree' = DOMAIN tree \cup {k}
         /\ tree'[k] = [dir |-> d, name |-> n, kind |-> kind]
         /\ \A m \in DOMAIN tree : tree'[m] = tree[m]
         /\ ChildIn(tree, d, n) = Missing
         /\ IsTree(tree') /\ Grows(tree, tree')
<1> DEFINE k == lastIno + 1
<1>1. k \in Inodes /\ k \notin DOMAIN tree /\ lastIno' = k
  BY MaxInoAssumption DEF Make, LogInv, TypeOK, Inodes
<1>2. tree' = [m \in DOMAIN tree \cup {k} |->
                 IF m = k THEN [dir |-> d, name |-> n, kind |-> kind] ELSE tree[m]]
  BY <1>1 DEF Make
<1> HIDE DEF k
<1>3. /\ DOMAIN tree' = DOMAIN tree \cup {k}
      /\ tree'[k] = [dir |-> d, name |-> n, kind |-> kind]
      /\ \A m \in DOMAIN tree : tree'[m] = tree[m]
  BY <1>1, <1>2
<1>4. ChildIn(tree, d, n) = Missing
  BY OfTree DEF Make, Free
<1>5. \A m \in DOMAIN tree : ~(tree[m].dir = d /\ tree[m].name = n)
  BY <1>4, ChildIs DEF LogInv
<1>6. k # 0 /\ k \in Nat
  BY <1>1, MaxInoAssumption DEF Inodes
<1>7. IsTree(tree')
  <2>1. DOMAIN tree' \subseteq Nat \ {0}
    BY <1>3, <1>6 DEF LogInv, IsTree
  <2>2. \A m \in DOMAIN tree' : tree'[m].dir \in {Root} \cup DOMAIN tree'
    BY <1>3 DEF LogInv, IsTree
  <2>3. ASSUME NEW l \in DOMAIN tree', NEW m \in DOMAIN tree',
               tree'[l].dir = tree'[m].dir, tree'[l].name = tree'[m].name
        PROVE  l = m
    BY <1>3, <1>5, <2>3 DEF LogInv, IsTree
  <2>4. QED
    BY <2>1, <2>2, <2>3 DEF IsTree
<1>8. Grows(tree, tree')
  BY <1>3 DEF Grows
<1>9. QED
  BY <1>1, <1>3, <1>4, <1>7, <1>8 DEF k

\* ... one who removes it ...
LEMMA UnlinkDoes ==
  ASSUME LogInv, NEW k \in DOMAIN tree, Unlink(k)
  PROVE  /\ DOMAIN tree' = DOMAIN tree \ {k} /\ \A m \in DOMAIN tree' : tree'[m] = tree[m]
         /\ DOMAIN watch' = DOMAIN watch \ {k} /\ \A m \in DOMAIN watch' : watch'[m] = watch[m]
         /\ IsTree(tree') /\ Grows(tree, tree')
<1>1. /\ DOMAIN tree' = DOMAIN tree \ {k} /\ \A m \in DOMAIN tree' : tree'[m] = tree[m]
      /\ DOMAIN watch' = DOMAIN watch \ {k} /\ \A m \in DOMAIN watch' : watch'[m] = watch[m]
  BY DEF Unlink
<1>2. \A m \in DOMAIN tree : tree[m].dir # k
  BY DEF Unlink, Entries
<1>3. IsTree(tree')
  BY <1>1, <1>2 DEF LogInv, IsTree
<1>4. Grows(tree, tree')
  BY <1>1, <1>2 DEF Grows, EntriesIn
<1>5. QED
  BY <1>1, <1>3, <1>4

\* ... and one who renames it.
LEMMA RenameDoes ==
  ASSUME LogInv, NEW k \in DOMAIN tree, NEW d \in {Root} \cup DOMAIN tree, NEW n \in Names,
         Rename(k, d, n)
  PROVE  /\ DOMAIN tree' = DOMAIN tree
         /\ tree'[k] = [dir |-> d, name |-> n, kind |-> tree[k].kind]
         /\ \A m \in DOMAIN tree \ {k} : tree'[m] = tree[m]
         /\ IsTree(tree')
<1>1. tree[k] = [dir |-> tree[k].dir, name |-> tree[k].name, kind |-> tree[k].kind]
  BY DEF LogInv, TypeOK
<1>2. /\ DOMAIN tree' = DOMAIN tree
      /\ tree'[k] = [dir |-> d, name |-> n, kind |-> tree[k].kind]
      /\ \A m \in DOMAIN tree \ {k} : tree'[m] = tree[m]
  BY <1>1 DEF Rename
<1>3. \A m \in DOMAIN tree : ~(tree[m].dir = d /\ tree[m].name = n)
  BY OfTree, ChildIs DEF Rename, Free, LogInv
<1>4. IsTree(tree')
  <2>1. \A m \in DOMAIN tree' : tree'[m].dir \in {Root} \cup DOMAIN tree'
    BY <1>2 DEF LogInv, IsTree
  <2>2. ASSUME NEW l \in DOMAIN tree', NEW m \in DOMAIN tree',
               tree'[l].dir = tree'[m].dir, tree'[l].name = tree'[m].name
        PROVE  l = m
    BY <1>2, <1>3, <2>2 DEF LogInv, IsTree
  <2>3. QED
    BY <1>2, <2>1, <2>2 DEF LogInv, IsTree
<1>5. QED
  BY <1>2, <1>4
\* An event that the kernel reports.
LEMMA EventType ==
  ASSUME LogInv, NEW d, NEW mask \in Masks, NEW n \in Names
  PROVE  Event(d, mask, n) \in Seq([wd : 1 .. lastWd, mask : Masks, name : Names])
<1>1. d \in DOMAIN watch => watch[d] \in 1 .. lastWd
  BY DEF LogInv, TypeOK
<1>2. CASE d \in DOMAIN watch
  <2> DEFINE e == [wd |-> watch[d], mask |-> mask, name |-> n]
  <2>1. e \in [wd : 1 .. lastWd, mask : Masks, name : Names] /\ Event(d, mask, n) = <<e>>
    BY <1>1, <1>2 DEF Event
  <2> HIDE DEF e
  <2>2. QED
    BY <2>1
<1>3. CASE d \notin DOMAIN watch
  BY <1>3 DEF Event
<1>4. QED
  BY <1>2, <1>3

\* The type of the queue, when there are more descriptors.
LEMMA QueueType ==
  ASSUME LogInv, lastWd' \in {lastWd, lastWd + 1}, queue' = queue
  PROVE  queue' \in Seq([wd : 1 .. lastWd', mask : Masks, name : Names])
<1>1. 1 .. lastWd \subseteq 1 .. lastWd' /\ queue \in Seq([wd : 1 .. lastWd, mask : Masks, name : Names])
  BY DEF LogInv, TypeOK
<1>2. [wd : 1 .. lastWd, mask : Masks, name : Names]
        \subseteq [wd : 1 .. lastWd', mask : Masks, name : Names]
  BY <1>1
<1> DEFINE A == [wd : 1 .. lastWd, mask : Masks, name : Names]
           B == [wd : 1 .. lastWd', mask : Masks, name : Names]
<1>3. A \subseteq B /\ queue \in Seq(A)
  BY <1>1, <1>2
<1> HIDE DEF A, B
<1>4. queue \in Seq(B)
  BY <1>3
<1>5. QED
  BY <1>4 DEF B

\* What inotify_add_watch does for a path that leads nowhere, to an inode that is
\* watched, and to one that is not.
LEMMA AddWatchDoes ==
  ASSUME LogInv, NEW path \in Seq(Names), NEW next, AddWatch(path, next)
  PROVE  LET k == LookupIn(tree, path) IN
         \/ k = Missing /\ pc' = "failure" /\ UNCHANGED <<watch, lastWd, dir_list>>
         \/ /\ k \in {Root} \cup DOMAIN tree /\ pc' = next /\ dir_list' = Append(dir_list, path)
            /\ k \in DOMAIN watch /\ UNCHANGED <<watch, lastWd>>
         \/ /\ k \in {Root} \cup DOMAIN tree /\ pc' = next /\ dir_list' = Append(dir_list, path)
            /\ k \notin DOMAIN watch /\ lastWd' = lastWd + 1
            /\ DOMAIN watch' = DOMAIN watch \cup {k} /\ watch'[k] = lastWd'
            /\ \A m \in DOMAIN watch : watch'[m] = watch[m]
<1> DEFINE k == LookupIn(tree, path)
<1>1. k \in {Root, Missing} \cup DOMAIN tree /\ k = Lookup(path)
  BY LookupInode, OfTree DEF LogInv
<1> HIDE DEF k
<1>2. CASE k = Missing
  BY <1>1, <1>2 DEF AddWatch, k
<1>3. CASE k # Missing /\ k \in DOMAIN watch
  BY <1>1, <1>3 DEF AddWatch, List, k
<1>4. CASE k # Missing /\ k \notin DOMAIN watch
  <2>1. /\ pc' = next /\ dir_list' = Append(dir_list, path) /\ lastWd' = lastWd + 1
        /\ watch' = [m \in DOMAIN watch \cup {k} |-> IF m = k THEN lastWd' ELSE watch[m]]
    BY <1>1, <1>4 DEF AddWatch, List
  <2>2. /\ DOMAIN watch' = DOMAIN watch \cup {k} /\ watch'[k] = lastWd'
        /\ \A m \in DOMAIN watch : watch'[m] = watch[m]
    BY <1>4, <2>1
  <2>3. QED
    BY <1>1, <1>4, <2>1, <2>2 DEF k
<1>5. QED
  BY <1>2, <1>3, <1>4

LEMMA AddWatchType ==
  ASSUME LogInv, NEW path \in Seq(Names), NEW next \in {"read", "loop"}, AddWatch(path, next),
         UNCHANGED <<files, queue, cur, at, todo>>
  PROVE  LogInv'
<1> DEFINE k == LookupIn(tree, path)
<1>1. \/ pc' = "failure" /\ UNCHANGED <<watch, lastWd, dir_list>>
      \/ /\ pc' = next /\ dir_list' = Append(dir_list, path)
         /\ UNCHANGED <<watch, lastWd>>
      \/ /\ pc' = next /\ dir_list' = Append(dir_list, path) /\ lastWd' = lastWd + 1
         /\ k \in {Root} \cup DOMAIN tree
         /\ DOMAIN watch' = DOMAIN watch \cup {k} /\ watch'[k] = lastWd'
         /\ \A m \in DOMAIN watch : watch'[m] = watch[m]
  BY AddWatchDoes
<1> HIDE DEF k
<1>2. lastWd \in Nat /\ dir_list \in Seq(Seq(Names)) /\ lastWd <= Len(dir_list)
  BY DEF LogInv, TypeOK
<1>3. DOMAIN watch \subseteq {Root} \cup DOMAIN tree /\ \A m \in DOMAIN watch : watch[m] \in 1 .. lastWd
  BY DEF LogInv, TypeOK
<1>4. pc' \in {"read", "loop", "failure"} /\ lastWd' \in {lastWd, lastWd + 1}
  BY <1>1
<1>5. dir_list' \in Seq(Seq(Names)) /\ lastWd' <= Len(dir_list')
  <2>1. dir_list' \in {dir_list, Append(dir_list, path)} /\ Len(dir_list) \in Nat
    BY <1>1, <1>2
  <2>2. Append(dir_list, path) \in Seq(Seq(Names)) /\ Len(Append(dir_list, path)) = Len(dir_list) + 1
    BY <1>2
  <2>3. \/ dir_list' = dir_list /\ lastWd' = lastWd
        \/ dir_list' = Append(dir_list, path) /\ lastWd' \in {lastWd, lastWd + 1}
    BY <1>1
  <2>4. CASE dir_list' = dir_list /\ lastWd' = lastWd
    BY <1>2, <2>4
  <2>5. CASE dir_list' = Append(dir_list, path) /\ lastWd' \in {lastWd, lastWd + 1}
    <3>1. Len(dir_list') = Len(dir_list) + 1 /\ dir_list' \in Seq(Seq(Names))
      BY <2>2, <2>5
    <3>2. QED
      BY <1>2, <2>1, <2>5, <3>1
  <2>6. QED
    BY <2>3, <2>4, <2>5
<1>6. DOMAIN watch' \subseteq {Root} \cup DOMAIN tree
  BY <1>1, <1>3
<1>7. ASSUME NEW m \in DOMAIN watch' PROVE watch'[m] \in 1 .. lastWd'
  <2>1. 1 .. lastWd \subseteq 1 .. lastWd'
    BY <1>2, <1>4
  <2>2. CASE m \in DOMAIN watch
    <3>1. watch'[m] = watch[m]
      BY <1>1, <2>2
    <3>2. QED
      BY <1>3, <2>1, <2>2, <3>1
  <2>3. CASE m \notin DOMAIN watch
    <3>1. m = k /\ watch'[k] = lastWd' /\ lastWd' = lastWd + 1
      BY <1>1, <2>3
    <3>2. QED
      BY <1>2, <3>1
  <2>4. QED
    BY <2>2, <2>3
<1>8. queue' \in Seq([wd : 1 .. lastWd', mask : Masks, name : Names])
  BY <1>4, QueueType
<1>9. UNCHANGED <<user, tree, lastIno, cur, at, todo>>
  BY DEF files
<1>10. Starting'
  BY <1>4 DEF Starting
<1>11. IsTree(tree)'
  BY <1>9 DEF LogInv, IsTree
<1>12. TypeOK'
  <2>1. lastWd' \in Nat /\ pc' \in {"start", "read", "scan", "add", "loop", "watch", "failure"}
    BY <1>2, <1>4
  <2>2. QED
    BY <1>5, <1>6, <1>7, <1>8, <1>9, <2>1 DEF LogInv, TypeOK
<1>13. QED
  BY <1>5, <1>10, <1>11, <1>12 DEF LogInv

LEMMA UserType ==
  ASSUME LogInv, User
  PROVE  LogInv'
<1>1. ASSUME NEW d \in {Root} \cup DOMAIN tree, NEW n \in Names, NEW kind \in Kinds, Make(d, n, kind)
      PROVE  LogInv'
  <2>1. UNCHANGED <<user, watch, lastWd, logger>> /\ queue' = queue \o Event(d, "IN_CREATE", n)
    BY <1>1 DEF Make
  <2>2. queue' \in Seq([wd : 1 .. lastWd', mask : Masks, name : Names])
    <3>1. Event(d, "IN_CREATE", n) \in Seq([wd : 1 .. lastWd, mask : Masks, name : Names])
      BY EventType DEF Masks
    <3>2. QED
      BY <2>1, <3>1, ConcatProperties DEF LogInv, TypeOK
  <2> DEFINE k == lastIno + 1
  <2>3. /\ k \in Inodes /\ lastIno' = k
        /\ DOMAIN tree' = DOMAIN tree \cup {k} /\ tree'[k] = [dir |-> d, name |-> n, kind |-> kind]
        /\ \A m \in DOMAIN tree : tree'[m] = tree[m]
        /\ IsTree(tree')
    BY <1>1, MakeDoes
  <2> HIDE DEF k
  <2>4. DOMAIN tree' \subseteq 1 .. lastIno' /\ lastIno' \in 0 .. MaxIno
    BY <2>3, MaxInoAssumption DEF Inodes, LogInv, TypeOK, k
  <2>5. \A m \in DOMAIN tree' :
          tree'[m] \in [dir : {Root} \cup DOMAIN tree', name : Names, kind : Kinds]
    <3>1. ASSUME NEW m \in DOMAIN tree
          PROVE  tree'[m] \in [dir : {Root} \cup DOMAIN tree', name : Names, kind : Kinds]
      BY <2>3 DEF LogInv, TypeOK
    <3>2. tree'[k] \in [dir : {Root} \cup DOMAIN tree', name : Names, kind : Kinds]
      BY <2>3
    <3>3. QED
      BY <2>3, <3>1, <3>2
  <2>6. DOMAIN watch' \subseteq {Root} \cup DOMAIN tree'
    BY <2>1, <2>3 DEF LogInv, TypeOK
  <2>7. Starting'
    BY <2>1 DEF LogInv, Starting, Event, logger
  <2>8. QED
    BY <2>1, <2>2, <2>3, <2>4, <2>5, <2>6, <2>7 DEF LogInv, TypeOK, logger
<1>2. ASSUME NEW k \in DOMAIN tree, Unlink(k)
      PROVE  LogInv'
  <2>1. /\ UNCHANGED <<user, lastIno, lastWd, logger>>
        /\ queue' = queue \o Event(tree[k].dir, "IN_DELETE", tree[k].name)
    BY <1>2 DEF Unlink
  <2>2. queue' \in Seq([wd : 1 .. lastWd', mask : Masks, name : Names])
    <3>1. Event(tree[k].dir, "IN_DELETE", tree[k].name)
            \in Seq([wd : 1 .. lastWd, mask : Masks, name : Names])
      BY EventType DEF Masks, LogInv, TypeOK
    <3>2. QED
      BY <2>1, <3>1, ConcatProperties DEF LogInv, TypeOK
  <2>3. /\ IsTree(tree') /\ DOMAIN tree' = DOMAIN tree \ {k}
        /\ \A m \in DOMAIN tree' : tree'[m] = tree[m]
        /\ DOMAIN watch' = DOMAIN watch \ {k} /\ \A m \in DOMAIN watch' : watch'[m] = watch[m]
    BY <1>2, UnlinkDoes
  <2>4. \A m \in DOMAIN tree' :
          tree'[m] \in [dir : {Root} \cup DOMAIN tree', name : Names, kind : Kinds]
    <3>1. \A m \in DOMAIN tree' : tree'[m].dir \in {Root} \cup DOMAIN tree'
      BY <2>3 DEF IsTree
    <3>2. QED
      BY <2>3, <3>1 DEF LogInv, TypeOK
  <2>5. /\ DOMAIN watch' \subseteq {Root} \cup DOMAIN tree'
        /\ \A m \in DOMAIN watch' : watch'[m] \in 1 .. lastWd'
    BY <2>1, <2>3 DEF LogInv, TypeOK, IsTree, Root
  <2>6. Starting'
    BY <2>1, <2>3 DEF LogInv, Starting, Event, logger
  <2>7. QED
    BY <2>1, <2>2, <2>3, <2>4, <2>5, <2>6 DEF LogInv, TypeOK, logger
<1>3. ASSUME NEW k \in DOMAIN tree, NEW d \in {Root} \cup DOMAIN tree, NEW n \in Names,
             Rename(k, d, n)
      PROVE  LogInv'
  <2>1. /\ UNCHANGED <<user, lastIno, watch, lastWd, logger>>
        /\ queue' = queue \o Event(tree[k].dir, "IN_MOVED_FROM", tree[k].name)
                            \o Event(d, "IN_MOVED_TO", n)
    BY <1>3 DEF Rename
  <2>2. queue' \in Seq([wd : 1 .. lastWd', mask : Masks, name : Names])
    <3>1. /\ Event(tree[k].dir, "IN_MOVED_FROM", tree[k].name)
               \in Seq([wd : 1 .. lastWd, mask : Masks, name : Names])
          /\ Event(d, "IN_MOVED_TO", n) \in Seq([wd : 1 .. lastWd, mask : Masks, name : Names])
      BY EventType DEF Masks, LogInv, TypeOK
    <3>2. QED
      BY <2>1, <3>1, ConcatProperties DEF LogInv, TypeOK
  <2>3. /\ IsTree(tree') /\ DOMAIN tree' = DOMAIN tree
        /\ tree'[k] = [dir |-> d, name |-> n, kind |-> tree[k].kind]
        /\ \A m \in DOMAIN tree \ {k} : tree'[m] = tree[m]
    BY <1>3, RenameDoes
  <2>4. \A m \in DOMAIN tree' :
          tree'[m] \in [dir : {Root} \cup DOMAIN tree', name : Names, kind : Kinds]
    <3>1. \A m \in DOMAIN tree :
            tree[m] \in [dir : {Root} \cup DOMAIN tree, name : Names, kind : Kinds]
      BY DEF LogInv, TypeOK
    <3>2. tree'[k] \in [dir : {Root} \cup DOMAIN tree', name : Names, kind : Kinds]
      <4>1. tree[k].kind \in Kinds
        BY <3>1
      <4>2. QED
        BY <2>3, <4>1
    <3>3. QED
      BY <2>3, <3>1, <3>2
  <2>5. Starting'
    BY <2>1 DEF LogInv, Starting, Event, logger
  <2>6. QED
    BY <2>1, <2>2, <2>3, <2>4, <2>5 DEF LogInv, TypeOK, logger
<1>4. QED
  BY <1>1, <1>2, <1>3 DEF User
\* A directory has finitely many entries.
LEMMA EntriesFinite ==
  ASSUME LogInv, NEW d
  PROVE  IsFiniteSet(Entries(d))
<1>1. Entries(d) \subseteq 1 .. lastIno /\ lastIno \in Nat
  BY MaxInoAssumption DEF Entries, LogInv, TypeOK
<1>2. IsFiniteSet(1 .. lastIno)
  BY <1>1, FS_Interval
<1>3. QED
  BY <1>1, <1>2, FS_Subset

\* The orders in which nftw may look at the entries of a directory.
LEMMA OrderOf ==
  ASSUME NEW d, IsFiniteSet(Entries(d)), NEW order \in SetToSeqs(Entries(d))
  PROVE  /\ Len(order) \in Nat /\ DOMAIN order = 1 .. Len(order)
         /\ \A k \in DOMAIN order : order[k] \in DOMAIN tree /\ tree[order[k]].dir = d
         /\ \A k, m \in DOMAIN order : order[k] = order[m] => k = m
<1> DEFINE c == Cardinality(Entries(d))
<1>1. c \in Nat
  BY FS_CardinalityType
<1>2. order \in [1 .. c -> Entries(d)] /\ \A k, m \in 1 .. c : k # m => order[k] # order[m]
  BY DEF SetToSeqs
<1> HIDE DEF c
<1>3. DOMAIN order = 1 .. c /\ Len(order) = c
  BY <1>1, <1>2
<1>4. QED
  BY <1>1, <1>2, <1>3 DEF Entries

\* What nftw adds to the entries that it has to look at.
LEMMA ReadType ==
  ASSUME LogInv, NEW order \in SetToSeqs(Entries(at))
  PROVE  [k \in DOMAIN order |-> [dir |-> at, path |-> Append(cur, tree[order[k]].name)]]
           \in Seq([dir : {Root} \cup Inodes, path : Seq(Names) \ {<<>>}])
<1> DEFINE more == [k \in DOMAIN order |-> [dir |-> at, path |-> Append(cur, tree[order[k]].name)]]
<1>1. /\ Len(order) \in Nat /\ DOMAIN order = 1 .. Len(order)
      /\ \A k \in DOMAIN order : order[k] \in DOMAIN tree
  BY OrderOf, EntriesFinite
<1>2. cur \in Seq(Names) /\ at \in {Root} \cup Inodes
  BY DEF LogInv, TypeOK
<1>3. ASSUME NEW k \in DOMAIN order
      PROVE  more[k] \in [dir : {Root} \cup Inodes, path : Seq(Names) \ {<<>>}]
  <2>1. tree[order[k]].name \in Names
    BY <1>1 DEF LogInv, TypeOK
  <2>2. ASSUME NEW n \in Names PROVE Append(cur, n) \in Seq(Names) /\ Append(cur, n) # <<>>
    BY <1>2, AppendProperties
  <2>3. QED
    BY <1>2, <2>1, <2>2
<1>4. QED
  BY <1>1, <1>3

LEMMA LogInitially ==
  ASSUME Init
  PROVE  LogInv
<1>1. DOMAIN tree = {} /\ DOMAIN watch = {}
  BY DEF Init
<1>2. lastWd <= Len(dir_list)
  BY DEF Init
<1>3. queue = <<>> /\ todo = <<>> /\ cur = <<>> /\ dir_list = <<>>
  BY DEF Init
<1>4. QED
  BY <1>1, <1>2, <1>3, MaxInoAssumption DEF Init, LogInv, TypeOK, IsTree, Starting

LEMMA LogStep ==
  ASSUME LogInv, [Next]_vars
  PROVE  LogInv'
<1>1. CASE User
  BY <1>1, UserType
<1>2. CASE Start
  <2>1. /\ UNCHANGED <<files, queue, cur, at, todo>> /\ pc' = "read" /\ lastWd' = 1
        /\ DOMAIN watch' = {Root} /\ watch'[Root] = 1 /\ dir_list' = <<<<>>>>
    BY <1>2 DEF Start, FirstPaths
  <2>2. dir_list' \in Seq(Seq(Names)) /\ Len(dir_list') = 1
    BY <2>1
  <2>3. queue' = <<>> /\ queue' \in Seq([wd : 1 .. lastWd', mask : Masks, name : Names])
    BY <1>2, <2>1 DEF Start, LogInv, Starting
  <2>4. QED
    BY <2>1, <2>2, <2>3 DEF LogInv, TypeOK, Starting, files
<1>3. CASE ScanRead
  <2>1. PICK order \in SetToSeqs(Entries(at)) :
          todo' = [k \in DOMAIN order |-> [dir |-> at, path |-> Append(cur, tree[order[k]].name)]]
                    \o todo
    BY <1>3 DEF ScanRead
  <2>2. /\ UNCHANGED <<files, watch, lastWd, queue, cur, at, dir_list>> /\ pc' = "scan"
        /\ cur \in Seq(Names) /\ at \in {Root} \cup Inodes
        /\ todo \in Seq([dir : {Root} \cup Inodes, path : Seq(Names) \ {<<>>}])
    BY <1>3 DEF ScanRead, LogInv, TypeOK
  <2> DEFINE more == [k \in DOMAIN order |-> [dir |-> at, path |-> Append(cur, tree[order[k]].name)]]
  <2>3. more \in Seq([dir : {Root} \cup Inodes, path : Seq(Names) \ {<<>>}])
    BY ReadType
  <2> HIDE DEF more
  <2>4. todo' \in Seq([dir : {Root} \cup Inodes, path : Seq(Names) \ {<<>>}])
    <3>1. todo' = more \o todo
      BY <2>1 DEF more
    <3>2. QED
      BY <2>2, <2>3, <3>1, ConcatProperties
  <2>5. QED
    BY <2>2, <2>4 DEF LogInv, TypeOK, Starting, files
<1>4. CASE ScanNext
  <2>1. /\ UNCHANGED <<files, watch, lastWd, queue, dir_list>> /\ pc' \in {"add", "scan", "failure"}
        /\ todo # <<>> /\ todo' = Tail(todo)
        /\ todo \in Seq([dir : {Root} \cup Inodes, path : Seq(Names) \ {<<>>}])
    BY <1>4 DEF ScanNext, LogInv, TypeOK
  <2>2. cur' \in Seq(Names) /\ at' \in {Root} \cup Inodes
    <3>1. Head(todo).path \in Seq(Names)
      <4>1. Head(todo) \in [dir : {Root} \cup Inodes, path : Seq(Names) \ {<<>>}]
        BY <2>1, HeadTailProperties
      <4>2. QED
        BY <4>1
    <3>2. \A k : IsDirectory(k) => k \in {Root} \cup Inodes
      BY MaxInoAssumption DEF IsDirectory, LogInv, TypeOK, Inodes
    <3>3. cur \in Seq(Names) /\ at \in {Root} \cup Inodes
      BY DEF LogInv, TypeOK
    <3>4. QED
      BY <1>4, <3>1, <3>2, <3>3 DEF ScanNext, Descends
  <2>3. todo' \in Seq([dir : {Root} \cup Inodes, path : Seq(Names) \ {<<>>}])
    BY <2>1
  <2>4. QED
    BY <2>1, <2>2, <2>3 DEF LogInv, TypeOK, Starting, files
<1>5. CASE ScanAdd
  <2>1. AddWatch(cur, "read") /\ UNCHANGED <<files, queue, cur, at, todo>> /\ cur \in Seq(Names)
    BY <1>5 DEF ScanAdd, LogInv, TypeOK
  <2>2. QED
    BY <2>1, AddWatchType
<1>6. CASE ScanDone
  BY <1>6 DEF ScanDone, LogInv, TypeOK, Starting, files
<1>7. CASE HandleCreate
  <2>1. /\ UNCHANGED <<files, watch, lastWd, at, todo, dir_list>> /\ pc' \in {"loop", "watch"}
        /\ queue # <<>> /\ queue' = Tail(queue)
        /\ queue \in Seq([wd : 1 .. lastWd, mask : Masks, name : Names])
        /\ cur' \in {cur, EventPath(Head(queue))}
    BY <1>7 DEF HandleCreate, LogInv, TypeOK
  <2>2. queue' \in Seq([wd : 1 .. lastWd, mask : Masks, name : Names])
    BY <2>1
  <2>3. EventPath(Head(queue)) \in Seq(Names)
    <3>1. Head(queue).wd \in 1 .. lastWd /\ Head(queue).name \in Names
      <4>1. Head(queue) \in [wd : 1 .. lastWd, mask : Masks, name : Names]
        BY <2>1, HeadTailProperties
      <4>2. QED
        BY <4>1
    <3>2. dir_list[Head(queue).wd] \in Seq(Names)
      BY <3>1 DEF LogInv, TypeOK
    <3>3. QED
      BY <3>1, <3>2 DEF EventPath
  <2>4. QED
    BY <2>1, <2>2, <2>3 DEF LogInv, TypeOK, Starting, files
<1>8. CASE HandleWatch
  <2>1. AddWatch(cur, "loop") /\ UNCHANGED <<files, queue, cur, at, todo>> /\ cur \in Seq(Names)
    BY <1>8 DEF HandleWatch, LogInv, TypeOK
  <2>2. QED
    BY <2>1, AddWatchType
<1>9. CASE HandleOther
  <2>1. /\ UNCHANGED <<files, watch, lastWd, logger>> /\ pc = "loop"
        /\ queue # <<>> /\ queue' = Tail(queue)
        /\ queue \in Seq([wd : 1 .. lastWd, mask : Masks, name : Names])
    BY <1>9 DEF HandleOther, LogInv, TypeOK
  <2>2. queue' \in Seq([wd : 1 .. lastWd, mask : Masks, name : Names])
    BY <2>1
  <2>3. QED
    BY <2>1, <2>2 DEF LogInv, TypeOK, Starting, files, logger
<1>10. CASE UNCHANGED vars
  BY <1>10 DEF vars, LogInv, TypeOK, Starting, files, logger
<1>11. QED
  BY <1>1, <1>2, <1>3, <1>4, <1>5, <1>6, <1>7, <1>8, <1>9, <1>10 DEF Next, Logger

\* Type correctness of the files, of inotify and of the logger; and dir_list has a
\* place for every descriptor.
THEOREM LogTypeCorrect == Spec => []LogInv
<1>1. LogInv /\ [Next]_vars => LogInv'
  BY LogStep
<1>2. QED
  BY <1>1, LogInitially, PTL DEF Spec
-----------------------------------------------------------------------------
(* FileLog: the list *)

\* As long as no directory was added twice, and unless something is renamed, the list
\* has the path of every watched directory.
ListSound == user # "busy" /\ Len(dir_list) = lastWd => ListAgrees

\* A path on the list still leads where it did, whatever was made or removed elsewhere.
LEMMA ListStays ==
  ASSUME LogInv, ListAgrees, IsTree(tree'), Grows(tree, tree'),
         NEW k \in DOMAIN watch, k \in {Root} \cup DOMAIN tree'
  PROVE  LookupIn(tree', dir_list[watch[k]]) = k
<1>1. watch[k] \in 1 .. Len(dir_list) /\ dir_list \in Seq(Seq(Names))
  BY DEF LogInv, TypeOK
<1>2. Len(dir_list[watch[k]]) \in Nat
  BY <1>1
<1>3. LookupIn(tree, dir_list[watch[k]]) = k
  BY OfTree DEF ListAgrees
<1>4. QED
  BY <1>2, <1>3, LookupStays DEF LogInv

LEMMA ListAdded ==
  ASSUME LogInv, ListSound, NEW path \in Seq(Names), NEW next, AddWatch(path, next),
         UNCHANGED files
  PROVE  ListSound'
<1> DEFINE k == LookupIn(tree, path)
<1>1. \/ UNCHANGED <<watch, lastWd, dir_list>>
      \/ dir_list' = Append(dir_list, path) /\ lastWd' = lastWd
      \/ /\ dir_list' = Append(dir_list, path) /\ lastWd' = lastWd + 1
         /\ DOMAIN watch' = DOMAIN watch \cup {k} /\ watch'[k] = lastWd' /\ k \notin DOMAIN watch
         /\ \A m \in DOMAIN watch : watch'[m] = watch[m]
  BY AddWatchDoes
<1> HIDE DEF k
<1>2. lastWd \in Nat /\ dir_list \in Seq(Seq(Names)) /\ lastWd <= Len(dir_list) /\ Len(dir_list) \in Nat
  BY DEF LogInv, TypeOK
<1>3. tree' = tree /\ user' = user
  BY DEF files
<1>4. CASE UNCHANGED <<watch, lastWd, dir_list>>
  BY <1>3, <1>4, OfTree, OfTreeNext DEF ListSound, ListAgrees
<1>5. CASE dir_list' = Append(dir_list, path) /\ lastWd' = lastWd
  <2>1. Len(dir_list') = Len(dir_list) + 1
    BY <1>2, <1>5
  <2>2. Len(dir_list') # lastWd'
    BY <1>2, <1>5, <2>1
  <2>3. QED
    BY <2>2 DEF ListSound
<1>6. CASE /\ dir_list' = Append(dir_list, path) /\ lastWd' = lastWd + 1
           /\ DOMAIN watch' = DOMAIN watch \cup {k} /\ watch'[k] = lastWd' /\ k \notin DOMAIN watch
           /\ \A m \in DOMAIN watch : watch'[m] = watch[m]
  <2> SUFFICES ASSUME user # "busy", Len(dir_list') = lastWd', NEW m \in DOMAIN watch'
               PROVE  LookupIn(tree', dir_list'[watch'[m]]) = m
    BY <1>3, OfTreeNext DEF ListSound, ListAgrees
  <2>1. Len(dir_list) = lastWd
    BY <1>2, <1>6
  <2>2. CASE m \in DOMAIN watch
    <3>1. watch'[m] = watch[m] /\ watch[m] \in 1 .. lastWd
      BY <1>6, <2>2 DEF LogInv, TypeOK
    <3>2. dir_list'[watch'[m]] = dir_list[watch[m]]
      BY <1>2, <1>6, <2>1, <3>1
    <3>3. QED
      BY <1>3, <2>1, <2>2, <3>2, OfTree DEF ListSound, ListAgrees
  <2>3. CASE m = k
    <3>1. watch'[m] = Len(dir_list) + 1
      BY <1>6, <2>1, <2>3
    <3>2. dir_list'[watch'[m]] = path
      BY <1>2, <1>6, <3>1
    <3>3. QED
      BY <1>3, <2>3, <3>2 DEF k
  <2>4. QED
    BY <1>6, <2>2, <2>3
<1>7. QED
  BY <1>1, <1>4, <1>5, <1>6

\* What the users do.
LEMMA OnlyBusyRenames ==
  ASSUME NEW u \in {"busy", "remover", "maker"}
  PROVE  /\ "rename" \in MayDo[u] => u = "busy"
         /\ "remove" \in MayDo[u] => u # "maker"
<1>1. MayDo["remover"] = {"mkdir", "creat", "remove"} /\ MayDo["maker"] = {"mkdir", "creat"}
  BY DEF MayDo
<1>2. QED
  BY <1>1

LEMMA ListKept ==
  ASSUME LogInv, ListSound, [Next]_vars
  PROVE  ListSound'
<1>1. ASSUME NEW d \in {Root} \cup DOMAIN tree, NEW n \in Names, NEW kind \in Kinds, Make(d, n, kind)
      PROVE  ListSound'
  <2>1. UNCHANGED <<user, watch, lastWd, dir_list>>
    BY <1>1 DEF Make, logger
  <2>2. IsTree(tree') /\ Grows(tree, tree') /\ DOMAIN tree \subseteq DOMAIN tree'
    BY <1>1, MakeDoes
  <2>3. DOMAIN watch \subseteq {Root} \cup DOMAIN tree'
    BY <2>2 DEF LogInv, TypeOK
  <2>4. QED
    BY <2>1, <2>2, <2>3, ListStays, OfTreeNext DEF ListSound, ListAgrees
<1>2. ASSUME NEW k \in DOMAIN tree, Unlink(k)
      PROVE  ListSound'
  <2>1. UNCHANGED <<user, lastWd, dir_list>>
    BY <1>2 DEF Unlink, logger
  <2>2. /\ IsTree(tree') /\ Grows(tree, tree') /\ DOMAIN tree' = DOMAIN tree \ {k}
        /\ DOMAIN watch' = DOMAIN watch \ {k} /\ \A m \in DOMAIN watch' : watch'[m] = watch[m]
    BY <1>2, UnlinkDoes
  <2>3. DOMAIN watch' \subseteq {Root} \cup DOMAIN tree'
    BY <2>2 DEF LogInv, TypeOK
  <2>4. ASSUME ListAgrees, NEW m \in DOMAIN watch' PROVE LookupIn(tree', dir_list'[watch'[m]]) = m
    BY <2>1, <2>2, <2>3, <2>4, ListStays
  <2>5. QED
    BY <2>1, <2>4, OfTreeNext DEF ListSound, ListAgrees
<1>3. ASSUME NEW k \in DOMAIN tree, NEW d \in {Root} \cup DOMAIN tree, NEW n \in Names,
             Rename(k, d, n)
      PROVE  ListSound'
  <2>1. user' = user /\ "rename" \in MayDo[user] /\ user \in {"busy", "remover", "maker"}
    BY <1>3, UsersAssumption DEF Rename, UserActs, LogInv, TypeOK
  <2>2. user = "busy"
    BY <2>1, OnlyBusyRenames
  <2>3. QED
    BY <2>1, <2>2 DEF ListSound
<1>4. CASE Start
  <2>1. /\ tree' = tree /\ dir_list' = <<<<>>>> /\ DOMAIN watch' = {Root} /\ watch'[Root] = 1
    BY <1>4 DEF Start, FirstPaths, files
  <2>2. LookupIn(tree', dir_list'[watch'[Root]]) = Root
    BY <2>1, LookupRoot DEF LogInv
  <2>3. QED
    BY <2>1, <2>2, OfTreeNext DEF ListSound, ListAgrees
<1>5. CASE ScanAdd
  BY <1>5, ListAdded DEF ScanAdd, LogInv, TypeOK
<1>6. CASE HandleWatch
  BY <1>6, ListAdded DEF HandleWatch, LogInv, TypeOK
<1>7. CASE ScanRead \/ ScanNext \/ ScanDone \/ HandleCreate \/ HandleOther \/ UNCHANGED vars
  <2>1. UNCHANGED <<user, tree, watch, lastWd, dir_list>>
    BY <1>7 DEF ScanRead, ScanNext, ScanDone, HandleCreate, HandleOther, vars, files, logger
  <2>2. QED
    BY <2>1, OfTree, OfTreeNext DEF ListSound, ListAgrees
<1>8. QED
  BY <1>1, <1>2, <1>3, <1>4, <1>5, <1>6, <1>7 DEF Next, User, Logger-----------------------------------------------------------------------------
(* FileLog: a user who only makes things, and not during nftw *)

\* An inode that is to be watched if it is a directory: the directory it is in is
\* watched, and it is not.
Unwatched(k) == k \in DOMAIN tree /\ k \notin DOMAIN watch /\ tree[k].dir \in DOMAIN watch

\* What is watched is a directory, and so is what it is in, up to the root.
WatchedChain ==
  \A k \in DOMAIN watch \ {Root} :
    k \in DOMAIN tree /\ tree[k].kind = "dir" /\ tree[k].dir \in DOMAIN watch

\* What nftw has still to look at: nothing twice, and nothing that is watched.
Entry(e) == ChildIn(tree, e.dir, Last(e.path))
TodoNew ==
  /\ \A m \in 1 .. Len(todo) :
       Unwatched(Entry(todo[m])) /\ LookupIn(tree, todo[m].path) = Entry(todo[m])
  /\ \A m, n \in 1 .. Len(todo) : m # n => Entry(todo[m]) # Entry(todo[n])

\* nftw is about to read a directory that is watched: what is in it is not.
ReadsNew ==
  /\ at \in DOMAIN watch /\ LookupIn(tree, cur) = at
  /\ \A k \in DOMAIN tree : tree[k].dir = at => k \notin DOMAIN watch
  /\ \A m \in 1 .. Len(todo) : todo[m].dir # at

\* nftw is about to have a directory watched: it is not.
AddsNew ==
  /\ Unwatched(at) /\ tree[at].kind = "dir" /\ LookupIn(tree, cur) = at
  /\ \A m \in 1 .. Len(todo) : Entry(todo[m]) # at

\* Each event that waits is the making of something that is not watched, and no two
\* are the same.
MakingOf(k) == [wd |-> watch[tree[k].dir], mask |-> "IN_CREATE", name |-> tree[k].name]
EventsNew ==
  /\ \A m \in 1 .. Len(queue) : \E k \in DOMAIN tree : Unwatched(k) /\ queue[m] = MakingOf(k)
  /\ \A m, n \in 1 .. Len(queue) : m # n => queue[m] # queue[n]

\* The logger is about to have a directory watched: it is not, and no other event
\* tells of it.
WatchesNew ==
  \E k \in DOMAIN tree :
    /\ k = LookupIn(tree, cur) /\ Unwatched(k) /\ tree[k].kind = "dir"
    /\ \A m \in 1 .. Len(queue) : queue[m] # MakingOf(k)

MakerIInv ==
  /\ Len(dir_list) = lastWd /\ pc # "failure"
  /\ WatchedChain
  /\ pc \in {"read", "scan", "add"} => queue = <<>> /\ TodoNew
  /\ pc = "read" => ReadsNew
  /\ pc = "add" => AddsNew
  /\ pc \in {"loop", "watch"} => EventsNew
  /\ pc = "watch" => WatchesNew

MakerInv == user = "maker" => MakerIInv

\* Descriptors are different.
LEMMA WatchOnce ==
  ASSUME ListAgrees, NEW k \in DOMAIN watch, NEW m \in DOMAIN watch, watch[k] = watch[m]
  PROVE  k = m
BY DEF ListAgrees

LEMMA MakerMakes ==
  ASSUME LogInv, ListAgrees, MakerIInv, user = "maker",
         NEW d \in {Root} \cup DOMAIN tree, NEW n \in Names, NEW kind \in Kinds, Make(d, n, kind)
  PROVE  MakerIInv'
<1> DEFINE e == [wd |-> watch[d], mask |-> "IN_CREATE", name |-> n]
<1>1. /\ UNCHANGED <<user, watch, lastWd, pc, cur, at, todo, dir_list>>
      /\ queue' = queue \o Event(d, "IN_CREATE", n) /\ pc \notin {"scan", "add", "read"}
  BY DEF Make, UserActs, logger
<1>2. PICK new :
      /\ new \notin DOMAIN tree /\ DOMAIN tree' = DOMAIN tree \cup {new}
      /\ tree'[new] = [dir |-> d, name |-> n, kind |-> kind]
      /\ \A m \in DOMAIN tree : tree'[m] = tree[m]
      /\ ChildIn(tree, d, n) = Missing
      /\ IsTree(tree') /\ Grows(tree, tree')
  BY MakeDoes
<1>3. new \notin DOMAIN watch
  <2>1. new # Root
    BY <1>2 DEF IsTree, Root
  <2>2. QED
    BY <1>2, <2>1 DEF LogInv, TypeOK
<1>4. WatchedChain'
  BY <1>1, <1>2 DEF MakerIInv, WatchedChain
<1>5. \A k \in DOMAIN tree : ~(tree[k].dir = d /\ tree[k].name = n)
  BY <1>2, ChildIs DEF LogInv
<1>6. \A k \in DOMAIN tree : (Unwatched(k) => Unwatched(k)') /\ MakingOf(k)' = MakingOf(k)
  BY <1>1, <1>2 DEF Unwatched, MakingOf
<1>7. ASSUME NEW k \in DOMAIN tree, Unwatched(k), d \in DOMAIN watch PROVE MakingOf(k) # e
  <2>1. tree[k].dir # d \/ tree[k].name # n
    BY <1>5
  <2>2. tree[k].dir \in DOMAIN watch
    BY <1>7 DEF Unwatched
  <2>3. watch[tree[k].dir] = watch[d] => tree[k].dir = d
    BY <1>7, <2>2, WatchOnce
  <2>4. QED
    BY <2>1, <2>3 DEF MakingOf
<1>8. queue \in Seq([wd : 1 .. lastWd, mask : Masks, name : Names]) /\ Len(queue) \in Nat
  BY DEF LogInv, TypeOK
<1> HIDE DEF e
<1>9. \/ queue' = queue
      \/ d \in DOMAIN watch /\ queue' = Append(queue, e)
  <2>1. CASE d \in DOMAIN watch
    BY <1>1, <1>8, <2>1 DEF Event, e
  <2>2. CASE d \notin DOMAIN watch
    BY <1>1, <1>8, <2>2 DEF Event
  <2>3. QED
    BY <2>1, <2>2
<1>10. ASSUME NEW m \in 1 .. Len(queue')
       PROVE  \/ m \in 1 .. Len(queue) /\ queue'[m] = queue[m]
              \/ m = Len(queue) + 1 /\ d \in DOMAIN watch /\ queue'[m] = e
  <2>1. CASE queue' = queue
    BY <2>1
  <2>2. CASE d \in DOMAIN watch /\ queue' = Append(queue, e)
    BY <1>8, <2>2
  <2>3. QED
    BY <1>9, <2>1, <2>2
<1>11. ASSUME EventsNew PROVE EventsNew'
  <2>1. ASSUME NEW m \in 1 .. Len(queue')
        PROVE  \E k \in DOMAIN tree' : Unwatched(k)' /\ queue'[m] = MakingOf(k)'
    <3>1. CASE m \in 1 .. Len(queue) /\ queue'[m] = queue[m]
      <4>1. PICK k \in DOMAIN tree : Unwatched(k) /\ queue[m] = MakingOf(k)
        BY <1>11, <3>1 DEF EventsNew
      <4>2. QED
        BY <1>2, <1>6, <3>1, <4>1
    <3>2. CASE d \in DOMAIN watch /\ queue'[m] = e
      <4>1. Unwatched(new)' /\ MakingOf(new)' = e
        BY <1>1, <1>2, <1>3, <3>2 DEF Unwatched, MakingOf, e
      <4>2. QED
        BY <1>2, <3>2, <4>1
    <3>3. QED
      BY <1>10, <3>1, <3>2
  <2>2. ASSUME NEW m \in 1 .. Len(queue), d \in DOMAIN watch PROVE queue[m] # e
    BY <1>7, <1>11, <2>2 DEF EventsNew
  <2>3. ASSUME NEW l \in 1 .. Len(queue'), NEW m \in 1 .. Len(queue'), l # m
        PROVE  queue'[l] # queue'[m]
    <3>1. CASE l \in 1 .. Len(queue) /\ queue'[l] = queue[l] /\ m \in 1 .. Len(queue) /\ queue'[m] = queue[m]
      BY <1>11, <2>3, <3>1 DEF EventsNew
    <3>2. QED
      BY <1>10, <2>2, <2>3, <3>1
  <2>4. QED
    BY <2>1, <2>3 DEF EventsNew
<1>12. ASSUME WatchesNew PROVE WatchesNew'
  <2>1. PICK k \in DOMAIN tree :
          /\ k = LookupIn(tree, cur) /\ Unwatched(k) /\ tree[k].kind = "dir"
          /\ \A m \in 1 .. Len(queue) : queue[m] # MakingOf(k)
    BY <1>12 DEF WatchesNew
  <2>2. LookupIn(tree', cur') = k
    <3>1. Len(cur) \in Nat /\ k \in {Root} \cup DOMAIN tree'
      BY <1>2 DEF LogInv, TypeOK
    <3>2. QED
      BY <1>1, <1>2, <2>1, <3>1, LookupStays DEF LogInv
  <2>3. \A m \in 1 .. Len(queue') : queue'[m] # MakingOf(k)'
    BY <1>6, <1>7, <1>10, <2>1
  <2>4. QED
    BY <1>2, <1>6, <2>1, <2>2, <2>3 DEF WatchesNew
<1>13. QED
  BY <1>1, <1>4, <1>11, <1>12 DEF MakerIInv
LEMMA MakerStarts ==
  ASSUME LogInv, Start
  PROVE  MakerIInv'
<1>1. /\ UNCHANGED <<files, queue, cur, at, todo>> /\ pc' = "read" /\ lastWd' = 1
      /\ DOMAIN watch' = {Root} /\ watch'[Root] = 1 /\ dir_list' = <<<<>>>>
      /\ queue = <<>> /\ cur = <<>> /\ at = Root /\ todo = <<>>
  BY DEF Start, FirstPaths, LogInv, Starting
<1>2. Len(dir_list') = 1 /\ Len(todo') = 0
  BY <1>1
<1>3. WatchedChain'
  BY <1>1 DEF WatchedChain
<1>4. TodoNew'
  BY <1>2 DEF TodoNew
<1>5. ReadsNew'
  <2>1. LookupIn(tree', cur') = Root
    BY <1>1, LookupRoot DEF LogInv, files
  <2>2. \A k \in DOMAIN tree' : k # Root
    BY <1>1 DEF LogInv, IsTree, files, Root
  <2>3. QED
    BY <1>1, <1>2, <2>1, <2>2 DEF ReadsNew
<1>6. QED
  BY <1>1, <1>2, <1>3, <1>4, <1>5 DEF MakerIInv

LEMMA MakerReads ==
  ASSUME LogInv, MakerIInv, ScanRead
  PROVE  MakerIInv'
<1>1. PICK order \in SetToSeqs(Entries(at)) :
        todo' = [k \in DOMAIN order |-> [dir |-> at, path |-> Append(cur, tree[order[k]].name)]]
                  \o todo
  BY DEF ScanRead
<1>2. /\ UNCHANGED <<files, watch, lastWd, queue, cur, at, dir_list>> /\ pc = "read" /\ pc' = "scan"
      /\ TodoNew /\ ReadsNew /\ queue = <<>>
  BY DEF ScanRead, MakerIInv
<1> DEFINE more == [k \in DOMAIN order |-> [dir |-> at, path |-> Append(cur, tree[order[k]].name)]]
           L == Len(order)
<1>3. /\ L \in Nat /\ DOMAIN order = 1 .. L
      /\ \A k \in 1 .. L : order[k] \in DOMAIN tree /\ tree[order[k]].dir = at
      /\ \A k, m \in 1 .. L : order[k] = order[m] => k = m
  BY EntriesFinite, OrderOf
<1> HIDE DEF L
<1>4. ASSUME NEW k \in 1 .. L
      PROVE  /\ Entry(more[k]) = order[k] /\ Unwatched(order[k])
             /\ LookupIn(tree, more[k].path) = order[k]
  <2> DEFINE name == tree[order[k]].name
  <2>1. name \in Names /\ cur \in Seq(Names)
    BY <1>3 DEF LogInv, TypeOK
  <2>2. more[k] = [dir |-> at, path |-> Append(cur, name)]
    BY <1>3
  <2>3. Last(Append(cur, name)) = name
    BY <2>1 DEF Last
  <2>4. ChildIn(tree, at, name) = order[k]
    BY <1>3, ChildIs DEF LogInv
  <2> HIDE DEF name, more
  <2>5. LookupIn(tree, Append(cur, name)) = order[k]
    BY <1>2, <2>1, <2>4, LookupAppend DEF LogInv, ReadsNew
  <2>6. Unwatched(order[k])
    BY <1>2, <1>3 DEF ReadsNew, Unwatched
  <2>7. QED
    BY <2>2, <2>3, <2>4, <2>5, <2>6 DEF Entry
<1>5. todo' = more \o todo /\ Len(more) = L /\ Len(todo) \in Nat
  BY <1>1, <1>3 DEF LogInv, TypeOK
<1>6. /\ more \in Seq([dir : {Root} \cup Inodes, path : Seq(Names) \ {<<>>}])
      /\ todo \in Seq([dir : {Root} \cup Inodes, path : Seq(Names) \ {<<>>}])
  BY ReadType DEF LogInv, TypeOK
<1>7. \A k \in 1 .. L : more[k].dir = at
  BY <1>3
<1> HIDE DEF more
<1>8. ASSUME NEW m \in 1 .. Len(todo')
      PROVE  \/ m \in 1 .. L /\ todo'[m] = more[m]
             \/ m - L \in 1 .. Len(todo) /\ todo'[m] = todo[m - L] /\ m \notin 1 .. L
  <2>1. Len(todo') = L + Len(todo)
    <3>1. Len(more \o todo) = Len(more) + Len(todo)
      BY <1>6, ConcatProperties
    <3>2. QED
      BY <1>5, <3>1
  <2>2. CASE m \in 1 .. L
    BY <1>3, <1>5, <1>6, <2>1, <2>2, ConcatProperties
  <2>3. CASE m \notin 1 .. L
    <3>1. m - L \in 1 .. Len(todo) /\ m > L
      BY <1>3, <1>5, <2>1, <2>3
    <3>2. QED
      BY <1>3, <1>5, <1>6, <2>1, <2>3, <3>1, ConcatProperties
  <2>4. QED
    BY <2>2, <2>3
<1>9. TodoNew'
  <2>1. tree' = tree /\ watch' = watch
    BY <1>2 DEF files
  <2>2. ASSUME NEW m \in 1 .. Len(todo')
        PROVE  Unwatched(Entry(todo'[m])) /\ LookupIn(tree, todo'[m].path) = Entry(todo'[m])
    BY <1>2, <1>4, <1>8 DEF TodoNew
  <2>3. ASSUME NEW m \in 1 .. L, NEW n \in 1 .. Len(todo) PROVE Entry(more[m]) # Entry(todo[n])
    <3>1. tree[Entry(more[m])].dir = at
      BY <1>3, <1>4
    <3>2. Entry(todo[n]) \in DOMAIN tree
      BY <1>2 DEF TodoNew, Unwatched
    <3>3. Entry(todo[n]) # Missing
      BY <3>2 DEF LogInv, IsTree, Missing
    <3>4. tree[Entry(todo[n])].dir = todo[n].dir
      BY <3>3, ChildFound DEF Entry, LogInv
    <3>5. todo[n].dir # at
      BY <1>2 DEF ReadsNew
    <3>6. QED
      BY <3>1, <3>4, <3>5
  <2>4. ASSUME NEW l \in 1 .. Len(todo'), NEW m \in 1 .. Len(todo'), l # m
        PROVE  Entry(todo'[l]) # Entry(todo'[m])
    <3>1. CASE l \in 1 .. L /\ m \in 1 .. L
      BY <1>3, <1>4, <1>8, <2>4, <3>1
    <3>2. CASE l \in 1 .. L /\ m \notin 1 .. L
      BY <1>8, <2>3, <3>2
    <3>3. CASE l \notin 1 .. L /\ m \in 1 .. L
      BY <1>8, <2>3, <3>3
    <3>4. CASE l \notin 1 .. L /\ m \notin 1 .. L
      <4>1. l - L # m - L
        BY <1>3, <2>4
      <4>2. QED
        BY <1>2, <1>8, <3>4, <4>1 DEF TodoNew
    <3>5. QED
      BY <3>1, <3>2, <3>3, <3>4
  <2>5. QED
    BY <2>1, <2>2, <2>4 DEF TodoNew, Unwatched, Entry
<1>10. QED
  <2>1. WatchedChain' /\ Len(dir_list') = lastWd'
    BY <1>2 DEF MakerIInv, WatchedChain, files
  <2>2. QED
    BY <1>2, <1>9, <2>1 DEF MakerIInv

LEMMA MakerLooks ==
  ASSUME LogInv, MakerIInv, ScanNext
  PROVE  MakerIInv'
<1>1. /\ UNCHANGED <<files, watch, lastWd, queue, dir_list>> /\ pc = "scan"
      /\ todo # <<>> /\ todo' = Tail(todo) /\ TodoNew /\ queue = <<>>
      /\ todo \in Seq([dir : {Root} \cup Inodes, path : Seq(Names) \ {<<>>}])
  BY DEF ScanNext, MakerIInv, LogInv, TypeOK
<1>2. /\ Len(todo) \in Nat /\ Len(todo') = Len(todo) - 1 /\ Head(todo) = todo[1] /\ 1 \in 1 .. Len(todo)
      /\ \A m \in 1 .. Len(todo') : m + 1 \in 1 .. Len(todo) /\ todo'[m] = todo[m + 1]
  <2>1. /\ Len(todo) \in Nat /\ Len(todo') = Len(todo) - 1 /\ Head(todo) = todo[1] /\ 1 \in 1 .. Len(todo)
    BY <1>1
  <2>2. QED
    BY <1>1, <2>1, HeadTailProperties
<1> DEFINE k == Entry(todo[1])
<1>3. Unwatched(k) /\ LookupIn(tree, Head(todo).path) = k
  BY <1>1, <1>2 DEF TodoNew
<1>4. k # Missing /\ k # Root /\ k = Child(Head(todo).dir, Last(Head(todo).path))
  BY <1>2, <1>3, OfTree DEF Unwatched, Entry, LogInv, IsTree, Missing, Root
<1> HIDE DEF k
<1>5. \/ IsDirectory(k) /\ pc' = "add" /\ cur' = Head(todo).path /\ at' = k
      \/ UNCHANGED <<pc, cur, at>>
  BY <1>4 DEF ScanNext, Descends
<1>6. TodoNew' /\ \A m \in 1 .. Len(todo') : Entry(todo'[m]) # k
  <2>1. tree' = tree /\ watch' = watch
    BY <1>1 DEF files
  <2>2. ASSUME NEW m \in 1 .. Len(todo')
        PROVE  /\ Unwatched(Entry(todo'[m])) /\ LookupIn(tree, todo'[m].path) = Entry(todo'[m])
               /\ Entry(todo'[m]) # k
    <3>1. m + 1 # 1
      OBVIOUS
    <3>2. QED
      BY <1>1, <1>2, <3>1 DEF TodoNew, k
  <2>3. ASSUME NEW l \in 1 .. Len(todo'), NEW m \in 1 .. Len(todo'), l # m
        PROVE  Entry(todo'[l]) # Entry(todo'[m])
    <3>1. l + 1 # m + 1
      BY <2>3
    <3>2. QED
      BY <1>1, <1>2, <3>1 DEF TodoNew
  <2>4. QED
    BY <2>1, <2>2, <2>3 DEF TodoNew, Unwatched, Entry
<1>7. WatchedChain' /\ Len(dir_list') = lastWd' /\ tree' = tree /\ watch' = watch
  BY <1>1 DEF MakerIInv, WatchedChain, files
<1>8. CASE IsDirectory(k) /\ pc' = "add" /\ cur' = Head(todo).path /\ at' = k
  <2>1. tree[k].kind = "dir"
    BY <1>4, <1>8 DEF IsDirectory
  <2>2. AddsNew'
    BY <1>3, <1>6, <1>7, <1>8, <2>1 DEF AddsNew, Unwatched, Entry
  <2>3. QED
    BY <1>1, <1>6, <1>7, <1>8, <2>2 DEF MakerIInv
<1>9. CASE UNCHANGED <<pc, cur, at>>
  BY <1>1, <1>6, <1>7, <1>9 DEF MakerIInv
<1>10. QED
  BY <1>5, <1>8, <1>9
LEMMA MakerAdds ==
  ASSUME LogInv, MakerIInv, ScanAdd
  PROVE  MakerIInv'
<1>1. /\ UNCHANGED <<files, queue, cur, at, todo>> /\ AddWatch(cur, "read") /\ cur \in Seq(Names)
      /\ queue = <<>> /\ TodoNew /\ AddsNew /\ WatchedChain /\ Len(dir_list) = lastWd
      /\ lastWd \in Nat /\ dir_list \in Seq(Seq(Names))
  BY DEF ScanAdd, MakerIInv, LogInv, TypeOK
<1>2. /\ at \in DOMAIN tree /\ at \notin DOMAIN watch /\ at # Missing /\ tree[at].kind = "dir"
      /\ tree[at].dir \in DOMAIN watch /\ LookupIn(tree, cur) = at
  BY <1>1 DEF AddsNew, Unwatched, LogInv, IsTree, Missing
<1>3. /\ pc' = "read" /\ dir_list' = Append(dir_list, cur) /\ lastWd' = lastWd + 1
      /\ DOMAIN watch' = DOMAIN watch \cup {at}
      /\ \A m \in DOMAIN watch : watch'[m] = watch[m]
  BY <1>1, <1>2, AddWatchDoes
<1>4. Len(dir_list') = lastWd'
  BY <1>1, <1>3
<1>5. tree' = tree /\ at' = at /\ cur' = cur /\ todo' = todo
  BY <1>1 DEF files
<1>6. WatchedChain'
  BY <1>1, <1>2, <1>3, <1>5 DEF WatchedChain
<1>7. TodoNew'
  <2>1. ASSUME NEW m \in 1 .. Len(todo) PROVE Unwatched(Entry(todo[m]))'
    BY <1>1, <1>3, <1>5 DEF TodoNew, AddsNew, Unwatched, Entry
  <2>2. QED
    BY <1>1, <1>5, <2>1 DEF TodoNew, Entry
<1>8. ReadsNew'
  <2>1. ASSUME NEW k \in DOMAIN tree, tree[k].dir = at PROVE k \notin DOMAIN watch'
    <3>1. k # at
      BY <1>2, <2>1
    <3>2. k # Root
      BY DEF LogInv, IsTree, Root
    <3>3. QED
      BY <1>1, <1>2, <1>3, <2>1, <3>1, <3>2 DEF WatchedChain
  <2>2. ASSUME NEW m \in 1 .. Len(todo) PROVE todo[m].dir # at
    <3>1. Unwatched(Entry(todo[m]))
      BY <1>1 DEF TodoNew
    <3>2. Entry(todo[m]) # Missing
      BY <3>1 DEF Unwatched, LogInv, IsTree, Missing
    <3>3. tree[Entry(todo[m])].dir = todo[m].dir
      BY <3>2, ChildFound DEF Entry, LogInv
    <3>4. QED
      BY <1>2, <3>1, <3>3 DEF Unwatched
  <2>3. QED
    BY <1>2, <1>3, <1>5, <2>1, <2>2 DEF ReadsNew
<1>9. QED
  BY <1>1, <1>3, <1>4, <1>6, <1>7, <1>8 DEF MakerIInv

LEMMA MakerHandles ==
  ASSUME LogInv, ListAgrees, MakerIInv, HandleCreate
  PROVE  MakerIInv'
<1>1. /\ UNCHANGED <<files, watch, lastWd, at, todo, dir_list>> /\ pc = "loop"
      /\ queue # <<>> /\ queue' = Tail(queue) /\ EventsNew
      /\ queue \in Seq([wd : 1 .. lastWd, mask : Masks, name : Names])
      /\ WatchedChain /\ Len(dir_list) = lastWd
  BY DEF HandleCreate, MakerIInv, LogInv, TypeOK
<1>2. /\ Len(queue) \in Nat /\ Len(queue') = Len(queue) - 1 /\ Head(queue) = queue[1] /\ 1 \in 1 .. Len(queue)
      /\ \A m \in 1 .. Len(queue') : m + 1 \in 1 .. Len(queue) /\ queue'[m] = queue[m + 1]
  <2>1. /\ Len(queue) \in Nat /\ Len(queue') = Len(queue) - 1 /\ Head(queue) = queue[1]
        /\ 1 \in 1 .. Len(queue)
    BY <1>1
  <2>2. QED
    BY <1>1, <2>1, HeadTailProperties
<1>3. PICK k \in DOMAIN tree : Unwatched(k) /\ queue[1] = MakingOf(k)
  BY <1>1, <1>2 DEF EventsNew
<1> DEFINE path == EventPath(Head(queue))
<1>4. LookupIn(tree, path) = k /\ k # Missing /\ k # Root
  <2> DEFINE p == dir_list[watch[tree[k].dir]]
  <2>1. watch[tree[k].dir] \in 1 .. Len(dir_list) /\ tree[k].dir \in DOMAIN watch
    BY <1>1, <1>3 DEF Unwatched, LogInv, TypeOK
  <2>2. p \in Seq(Names) /\ tree[k].name \in Names
    BY <2>1 DEF LogInv, TypeOK
  <2>3. LookupIn(tree, p) = tree[k].dir
    BY <2>1, OfTree DEF ListAgrees
  <2>4. path = Append(p, tree[k].name)
    BY <1>2, <1>3 DEF EventPath, MakingOf
  <2> HIDE DEF p, path
  <2>5. LookupIn(tree, path) = ChildIn(tree, tree[k].dir, tree[k].name)
    BY <2>2, <2>3, <2>4, LookupAppend DEF LogInv
  <2>6. QED
    BY <2>5, ChildIs DEF LogInv, IsTree, Root
<1> HIDE DEF path
<1>5. \/ IsDirectory(k) /\ pc' = "watch" /\ cur' = path
      \/ UNCHANGED <<pc, cur>>
  BY <1>4, OfTree DEF HandleCreate, NotRegular, path
<1>6. WatchedChain' /\ Len(dir_list') = lastWd' /\ tree' = tree /\ watch' = watch
  BY <1>1 DEF WatchedChain, files
<1>7. EventsNew' /\ \A m \in 1 .. Len(queue') : queue'[m] # MakingOf(k)
  <2>1. ASSUME NEW m \in 1 .. Len(queue')
        PROVE  \E l \in DOMAIN tree : Unwatched(l) /\ queue'[m] = MakingOf(l)
    BY <1>1, <1>2 DEF EventsNew
  <2>2. ASSUME NEW m \in 1 .. Len(queue') PROVE queue'[m] # MakingOf(k)
    <3>1. m + 1 # 1
      OBVIOUS
    <3>2. QED
      BY <1>1, <1>2, <1>3, <3>1 DEF EventsNew
  <2>3. ASSUME NEW l \in 1 .. Len(queue'), NEW m \in 1 .. Len(queue'), l # m
        PROVE  queue'[l] # queue'[m]
    <3>1. l + 1 # m + 1
      BY <2>3
    <3>2. QED
      BY <1>1, <1>2, <3>1 DEF EventsNew
  <2>4. QED
    BY <1>6, <2>1, <2>2, <2>3 DEF EventsNew, Unwatched, MakingOf
<1>8. CASE IsDirectory(k) /\ pc' = "watch" /\ cur' = path
  <2>1. tree[k].kind = "dir"
    BY <1>4, <1>8 DEF IsDirectory
  <2>2. WatchesNew'
    BY <1>3, <1>4, <1>6, <1>7, <1>8, <2>1 DEF WatchesNew, Unwatched, MakingOf
  <2>3. QED
    BY <1>6, <1>7, <1>8, <2>2 DEF MakerIInv
<1>9. CASE UNCHANGED <<pc, cur>>
  BY <1>1, <1>6, <1>7, <1>9 DEF MakerIInv
<1>10. QED
  BY <1>5, <1>8, <1>9

LEMMA MakerWatches ==
  ASSUME LogInv, MakerIInv, HandleWatch
  PROVE  MakerIInv'
<1>1. /\ UNCHANGED <<files, queue, cur, at, todo>> /\ AddWatch(cur, "loop") /\ cur \in Seq(Names)
      /\ EventsNew /\ WatchesNew /\ WatchedChain /\ Len(dir_list) = lastWd
      /\ lastWd \in Nat /\ dir_list \in Seq(Seq(Names))
  BY DEF HandleWatch, MakerIInv, LogInv, TypeOK
<1>2. PICK k \in DOMAIN tree :
        /\ k = LookupIn(tree, cur) /\ Unwatched(k) /\ tree[k].kind = "dir"
        /\ \A m \in 1 .. Len(queue) : queue[m] # MakingOf(k)
  BY <1>1 DEF WatchesNew
<1>3. k # Missing /\ k \notin DOMAIN watch /\ tree[k].dir \in DOMAIN watch
  BY <1>2 DEF Unwatched, LogInv, IsTree, Missing
<1>4. /\ pc' = "loop" /\ dir_list' = Append(dir_list, cur) /\ lastWd' = lastWd + 1
      /\ DOMAIN watch' = DOMAIN watch \cup {k}
      /\ \A m \in DOMAIN watch : watch'[m] = watch[m]
  BY <1>1, <1>2, <1>3, AddWatchDoes
<1>5. Len(dir_list') = lastWd'
  BY <1>1, <1>4
<1>6. tree' = tree /\ queue' = queue
  BY <1>1 DEF files
<1>7. WatchedChain'
  BY <1>1, <1>2, <1>3, <1>4, <1>6 DEF WatchedChain
<1>8. EventsNew'
  <2>1. ASSUME NEW m \in 1 .. Len(queue)
        PROVE  \E l \in DOMAIN tree : Unwatched(l)' /\ queue[m] = MakingOf(l)'
    <3>1. PICK l \in DOMAIN tree : Unwatched(l) /\ queue[m] = MakingOf(l)
      BY <1>1 DEF EventsNew
    <3>2. l # k
      BY <1>2, <3>1
    <3>3. Unwatched(l)' /\ MakingOf(l)' = MakingOf(l)
      BY <1>4, <1>6, <3>1, <3>2 DEF Unwatched, MakingOf
    <3>4. QED
      BY <3>1, <3>3
  <2>2. QED
    BY <1>1, <1>6, <2>1 DEF EventsNew
<1>9. QED
  BY <1>4, <1>5, <1>7, <1>8 DEF MakerIInv
-----------------------------------------------------------------------------
\* The invariant of the logger, whoever the user is.
LogIInv == LogInv /\ ListSound /\ MakerInv

\* The list is right without renames until a directory is added twice, and in each state
\* of a logger whose user only makes things every directory is watched or still to be met.
THEOREM LogInvariant == Spec => []LogIInv
<1>1. Init => LogIInv
  <2> SUFFICES ASSUME Init PROVE ListSound /\ MakerInv
    BY LogInitially DEF LogIInv
  <2>1. DOMAIN watch = {} /\ Len(dir_list) = 0 /\ lastWd = 0 /\ pc = "start"
    BY DEF Init
  <2>2. QED
    BY <2>1 DEF ListSound, ListAgrees, MakerInv, MakerIInv, WatchedChain
<1>2. LogIInv /\ [Next]_vars => LogIInv'
  <2> SUFFICES ASSUME LogInv, ListSound, MakerInv, [Next]_vars PROVE LogIInv'
    BY DEF LogIInv
  <2>1. LogInv' /\ ListSound'
    BY LogStep, ListKept
  <2>2. user' = user
    BY DEF Next, User, Make, Unlink, Rename, Logger, Start, ScanRead, ScanNext, ScanAdd, ScanDone,
           HandleCreate, HandleWatch, HandleOther, vars, files
  <2>3. SUFFICES ASSUME user = "maker", MakerIInv, ListAgrees PROVE MakerIInv'
    BY <2>1, <2>2 DEF LogIInv, MakerInv, ListSound, MakerIInv
  <2>4. CASE User
    <3>1. ASSUME NEW k \in DOMAIN tree PROVE ~Unlink(k)
      BY <2>3, OnlyBusyRenames DEF Unlink, UserActs
    <3>2. ASSUME NEW k \in DOMAIN tree, NEW d, NEW n PROVE ~Rename(k, d, n)
      BY <2>3, OnlyBusyRenames DEF Rename, UserActs
    <3>3. QED
      BY <2>3, <2>4, <3>1, <3>2, MakerMakes DEF User
  <2>5. CASE ScanDone
    <3>1. /\ UNCHANGED <<files, watch, lastWd, queue, cur, at, todo, dir_list>> /\ pc' = "loop"
          /\ queue = <<>>
      BY <2>3, <2>5 DEF ScanDone, MakerIInv
    <3>2. Len(queue') = 0
      BY <3>1
    <3>3. EventsNew' /\ WatchedChain'
      BY <2>3, <3>1, <3>2 DEF EventsNew, MakerIInv, WatchedChain, files
    <3>4. QED
      BY <2>3, <3>1, <3>3 DEF MakerIInv
  <2>6. CASE HandleOther
    <3>1. EventsNew /\ queue # <<>> /\ Head(queue).mask # "IN_CREATE"
      BY <2>3, <2>6 DEF HandleOther, MakerIInv
    <3>2. Head(queue) = queue[1] /\ 1 \in 1 .. Len(queue)
      BY <3>1 DEF LogInv, TypeOK
    <3>3. PICK k : queue[1] = MakingOf(k)
      BY <3>1, <3>2 DEF EventsNew
    <3>4. MakingOf(k).mask = "IN_CREATE"
      BY DEF MakingOf
    <3>5. QED
      BY <3>1, <3>2, <3>3, <3>4
  <2>7. CASE UNCHANGED vars
    BY <2>3, <2>7 DEF vars, files, logger, MakerIInv, WatchedChain, TodoNew, ReadsNew, AddsNew,
                      EventsNew, WatchesNew, Unwatched, Entry, MakingOf
  <2>8. QED
    BY <2>3, <2>4, <2>5, <2>6, <2>7, MakerStarts, MakerReads, MakerLooks, MakerAdds, MakerHandles,
       MakerWatches DEF Next, Logger
<1>3. QED
  BY <1>1, <1>2, PTL DEF Spec

\* Every event's descriptor has its place in dir_list; without renames, until a
\* directory is added twice, the list is right; and with a user who only makes things
\* that never happens and the logger does not exit.
THEOREM Listed == Spec => []ListRight
<1>1. LogIInv => ListRight
  <2> SUFFICES ASSUME LogIInv PROVE ListRight
    OBVIOUS
  <2>1. ASSUME NEW e \in Range(queue) PROVE e.wd <= Len(dir_list)
    <3> DEFINE A == [wd : 1 .. lastWd, mask : Masks, name : Names]
    <3>1. PICK k \in DOMAIN queue : e = queue[k]
      BY DEF Range
    <3>2. queue \in Seq(A) /\ lastWd \in Nat /\ lastWd <= Len(dir_list) /\ Len(dir_list) \in Nat
      BY DEF LogIInv, LogInv, TypeOK
    <3>3. queue[k] \in A
      <4> HIDE DEF A
      <4>1. QED
        BY <3>2
    <3>4. e.wd \in 1 .. lastWd
      BY <3>1, <3>3
    <3>5. QED
      BY <3>2, <3>4
  <2>2. \A k \in DOMAIN watch : watch[k] <= Len(dir_list)
    BY DEF LogIInv, LogInv, TypeOK
  <2>3. QED
    BY <2>1, <2>2 DEF ListRight, LogIInv, ListSound, MakerInv, MakerIInv
<1>2. QED
  BY <1>1, LogInvariant, PTL
-----------------------------------------------------------------------------
(* ProcScan: the process table *)

ProcessType == [name : Nat \ {0}, ppid : Nat, user : {"asked", "other"},
                fd : {"none", "asked", "other"}, zombie : BOOLEAN]

\* The processes: number 1 stays; names are given once; every other process has a
\* parent, which is no zombie and, in the first round of pids, older.
TableInv ==
  /\ 1 \in Pids /\ ~procs[1].zombie /\ procs[1].ppid = 0
  /\ \A p \in Pids : procs[p].name < NewName /\ (~reused => procs[p].name = p)
  /\ \A p, q \in Pids : procs[p].name = procs[q].name => p = q
  /\ \A p \in Pids \ {1} :
       /\ procs[p].ppid \in Pids \ {p} /\ ~procs[procs[p].ppid].zombie
       /\ ~reused => procs[p].ppid < p
  /\ ~ended => \A p \in Pids : ~procs[p].zombie

\* Its type and that.
TableOK ==
  /\ Pids \subseteq Nat \ {0} /\ IsFiniteSet(Pids) /\ \A p \in Pids : procs[p] \in ProcessType
  /\ TableInv

\* A process of which some attributes change.
LEMMA Adopted ==
  ASSUME NEW x \in ProcessType,
         NEW y, y = [x EXCEPT !.ppid = 1]
  PROVE  /\ y \in ProcessType /\ y.ppid = 1
         /\ y.name = x.name /\ y.user = x.user /\ y.fd = x.fd /\ y.zombie = x.zombie
BY DEF ProcessType

LEMMA Opened ==
  ASSUME NEW x \in ProcessType, NEW f \in {"none", "asked", "other"},
         NEW y, y = [x EXCEPT !.fd = f]
  PROVE  /\ y \in ProcessType /\ y.fd = f
         /\ y.name = x.name /\ y.ppid = x.ppid /\ y.user = x.user /\ y.zombie = x.zombie
BY DEF ProcessType

\* What a fork does to the table, ...
LEMMA ForkDoes ==
  ASSUME TableOK, events \in Nat, NEW p \in Pids, Fork(p)
  PROVE  \E q \in Nat \ {0} :
           /\ q \notin Pids /\ Pids' = Pids \cup {q} /\ \A r \in Pids : procs'[r] = procs[r]
           /\ procs'[q] \in ProcessType
           /\ procs'[q].name = NewName /\ procs'[q].ppid = p
           /\ procs'[q].user = procs[p].user /\ procs'[q].fd = procs[p].fd /\ ~procs'[q].zombie
           /\ ~reused => q = NewName
           /\ ~procs[p].zombie /\ ended' = ended
<1>1. PICK q \in NewPids :
        procs' = [r \in Pids \cup {q} |->
          IF r = q THEN [procs[p] EXCEPT !.name = NewName, !.ppid = p] ELSE procs[r]]
  BY DEF Fork
<1>2. /\ MaxPid \in Nat /\ NewName \in Nat \ {0} /\ p \in Nat /\ procs[p] \in ProcessType
      /\ ~procs[p].zombie
  BY BoundsAssumption DEF TableOK, NewName, Fork
<1>3. q \in Nat \ {0} /\ q \notin Pids /\ (~reused => q = NewName)
  <2>1. CASE reused
    BY <1>2, <2>1 DEF NewPids
  <2>2. CASE ~reused
    <3>1. q = NewName /\ NewName \in Nat \ {0}
      BY <1>2, <2>2 DEF NewPids
    <3>2. NewName \notin Pids
      BY <2>2, <3>1 DEF TableInv, TableOK
    <3>3. QED
      BY <3>1, <3>2
  <2>3. QED
    BY <2>1, <2>2
<1>4. procs'[q] = [procs[p] EXCEPT !.name = NewName, !.ppid = p]
  BY <1>1
<1>5. /\ procs'[q] \in ProcessType /\ procs'[q].name = NewName /\ procs'[q].ppid = p
      /\ procs'[q].user = procs[p].user /\ procs'[q].fd = procs[p].fd
      /\ procs'[q].zombie = procs[p].zombie
  BY <1>2, <1>4 DEF ProcessType
<1>6. Pids' = Pids \cup {q} /\ \A r \in Pids : procs'[r] = procs[r]
  BY <1>1, <1>3 DEF Pids
<1>7. QED
  BY <1>2, <1>3, <1>5, <1>6 DEF Fork

\* ... an exit, ...
LEMMA ExitDoes ==
  ASSUME TableOK, NEW p \in Pids, Exit(p)
  PROVE  /\ p # 1 /\ ended' /\ Pids' = Pids
         /\ \A r \in Pids :
              /\ procs'[r] \in ProcessType
              /\ procs'[r].name = procs[r].name /\ procs'[r].user = procs[r].user
              /\ procs'[r].zombie = (r = p \/ procs[r].zombie)
              /\ procs'[r].fd = IF r = p THEN "none" ELSE procs[r].fd
              /\ procs'[r].ppid = IF r # p /\ procs[r].ppid = p THEN 1 ELSE procs[r].ppid
<1>1. procs' = [r \in Pids |->
        IF r = p THEN [procs[p] EXCEPT !.zombie = TRUE, !.fd = "none"]
        ELSE IF procs[r].ppid = p THEN [procs[r] EXCEPT !.ppid = 1] ELSE procs[r]]
  BY DEF Exit
<1>2. Pids' = Pids
  BY <1>1 DEF Pids
<1>3. ASSUME NEW r \in Pids
      PROVE  /\ procs'[r] \in ProcessType
             /\ procs'[r].name = procs[r].name /\ procs'[r].user = procs[r].user
             /\ procs'[r].zombie = (r = p \/ procs[r].zombie)
             /\ procs'[r].fd = IF r = p THEN "none" ELSE procs[r].fd
             /\ procs'[r].ppid = IF r # p /\ procs[r].ppid = p THEN 1 ELSE procs[r].ppid
  <2>1. procs[r] \in ProcessType /\ procs[r].zombie \in BOOLEAN
    BY DEF TableOK, ProcessType
  <2>2. CASE r = p
    <3>1. procs'[r] = [procs[r] EXCEPT !.zombie = TRUE, !.fd = "none"]
      BY <1>1, <2>2
    <3>2. /\ procs'[r] \in ProcessType /\ procs'[r].zombie
          /\ procs'[r].name = procs[r].name /\ procs'[r].ppid = procs[r].ppid
          /\ procs'[r].user = procs[r].user /\ procs'[r].fd = "none"
      BY <2>1, <3>1 DEF ProcessType
    <3>3. procs'[r].zombie = TRUE
      BY <3>2 DEF ProcessType
    <3>4. QED
      BY <2>2, <3>2, <3>3
  <2>3. CASE r # p /\ procs[r].ppid = p
    <3>1. procs'[r] = [procs[r] EXCEPT !.ppid = 1]
      BY <1>1, <2>3
    <3>2. /\ procs'[r] \in ProcessType /\ procs'[r].ppid = 1
          /\ procs'[r].name = procs[r].name /\ procs'[r].user = procs[r].user
          /\ procs'[r].fd = procs[r].fd /\ procs'[r].zombie = procs[r].zombie
      BY <2>1, <3>1, Adopted
    <3>3. QED
      BY <2>1, <2>3, <3>2
  <2>4. CASE r # p /\ procs[r].ppid # p
    BY <1>1, <2>1, <2>4
  <2>5. QED
    BY <2>2, <2>3, <2>4
<1>4. QED
  BY <1>2, <1>3 DEF Exit

\* ... the end of a zombie ...
LEMMA ReapDoes ==
  ASSUME NEW p \in Pids, Reap(p)
  PROVE  /\ procs[p].zombie /\ ended' = ended /\ Pids' = Pids \ {p}
         /\ \A r \in Pids' : procs'[r] = procs[r]
BY DEF Reap, Pids

\* ... and opening or closing the file.
LEMMA OpenCloseDoes ==
  ASSUME TableOK, NEW p \in Pids, OpenClose(p)
  PROVE  /\ Pids' = Pids /\ ended' = (ended \/ procs[p].fd # "none") /\ ~procs[p].zombie
         /\ \A r \in Pids :
              /\ procs'[r] \in ProcessType
              /\ procs'[r].name = procs[r].name /\ procs'[r].ppid = procs[r].ppid
              /\ procs'[r].user = procs[r].user /\ procs'[r].zombie = procs[r].zombie
              /\ r # p => procs'[r].fd = procs[r].fd
<1>1. PICK f \in {"none", "asked", "other"} : procs' = [procs EXCEPT ![p].fd = f]
  BY DEF OpenClose
<1>2. Pids' = Pids
  BY <1>1 DEF Pids
<1>3. \A r \in Pids \ {p} : procs'[r] = procs[r]
  BY <1>1 DEF Pids
<1>4. procs'[p] = [procs[p] EXCEPT !.fd = f]
  BY <1>1 DEF Pids
<1>5. procs[p] \in ProcessType
  BY DEF TableOK
<1>6. /\ procs'[p] \in ProcessType
      /\ procs'[p].name = procs[p].name /\ procs'[p].ppid = procs[p].ppid
      /\ procs'[p].user = procs[p].user /\ procs'[p].zombie = procs[p].zombie
  BY <1>4, <1>5, Opened
<1>7. QED
  BY <1>2, <1>3, <1>6 DEF OpenClose, TableOK

\* The table keeps its type and its order.
LEMMA TableKept ==
  ASSUME TableOK, events \in Nat, Others
  PROVE  TableOK'
<1>1. /\ reused' = reused /\ events \in Nat /\ NewName \in Nat /\ NewName' = NewName + 1
      /\ NewName \in Nat \ {0} /\ NewName > 1
  BY DEF Others, NewName
<1>2. Pids \subseteq Nat \ {0} /\ IsFiniteSet(Pids)
  BY DEF TableOK
<1>3. \A r \in Pids : /\ procs[r] \in ProcessType /\ procs[r].name \in Nat /\ procs[r].ppid \in Nat
                      /\ procs[r].zombie \in BOOLEAN
  BY DEF TableOK, ProcessType
<1> DEFINE Given == /\ \A r \in Pids : procs[r].name < NewName /\ (~reused => procs[r].name = r)
                    /\ \A r, s \in Pids : procs[r].name = procs[s].name => r = s
                    /\ 1 \in Pids /\ ~procs[1].zombie /\ procs[1].ppid = 0
<1>4. Given
  BY DEF TableOK, TableInv
<1>5. ASSUME NEW p \in Pids, Fork(p)
      PROVE  TableOK'
  <2>1. PICK q \in Nat \ {0} :
           /\ q \notin Pids /\ Pids' = Pids \cup {q} /\ \A r \in Pids : procs'[r] = procs[r]
           /\ procs'[q] \in ProcessType
           /\ procs'[q].name = NewName /\ procs'[q].ppid = p
           /\ procs'[q].user = procs[p].user /\ procs'[q].fd = procs[p].fd /\ ~procs'[q].zombie
           /\ ~reused => q = NewName
           /\ ~procs[p].zombie /\ ended' = ended
    BY <1>1, <1>5, ForkDoes
  <2>2. IsFiniteSet(Pids')
    BY <1>2, <2>1, FS_AddElement
  <2>3. \A r \in Pids' : procs'[r] \in ProcessType
    BY <1>3, <2>1
  <2>4. TableInv'
    <3> USE DEF TableInv
    <3>1. 1 \in Pids' /\ ~procs'[1].zombie /\ procs'[1].ppid = 0
      BY <2>1 DEF TableOK
    <3>2. \A r \in Pids : procs[r].name < NewName /\ (~reused => procs[r].name = r)
      BY DEF TableOK
    <3>3. \A r \in Pids' : procs'[r].name < NewName' /\ (~reused' => procs'[r].name = r)
      BY <1>1, <1>3, <2>1, <3>2
    <3>4. \A r, s \in Pids' : procs'[r].name = procs'[s].name => r = s
      BY <1>1, <1>3, <2>1, <3>2 DEF TableOK
    <3>5. ASSUME NEW r \in Pids' \ {1}
          PROVE  /\ procs'[r].ppid \in Pids' \ {r} /\ ~procs'[procs'[r].ppid].zombie
                 /\ ~reused' => procs'[r].ppid < r
      <4>1. CASE r = q
        <5>1. ~reused => p < q
          BY <1>1, <1>2, <2>1, <3>2
        <5>2. QED
          BY <1>1, <2>1, <4>1, <5>1
      <4>2. CASE r # q
        <5>1. r \in Pids \ {1}
          BY <2>1, <4>2
        <5>2. /\ procs'[r].ppid = procs[r].ppid /\ procs[r].ppid \in Pids \ {r}
              /\ ~procs[procs[r].ppid].zombie /\ (~reused => procs[r].ppid < r)
          BY <2>1, <5>1 DEF TableOK
        <5>3. procs'[procs[r].ppid] = procs[procs[r].ppid]
          BY <2>1, <5>2
        <5>4. QED
          BY <1>1, <2>1, <5>2, <5>3
      <4>3. QED
        BY <4>1, <4>2
    <3>6. ~ended' => \A r \in Pids' : ~procs'[r].zombie
      BY <2>1 DEF TableOK
    <3>7. QED
      BY <3>1, <3>3, <3>4, <3>5, <3>6
  <2>5. QED
    BY <1>2, <2>1, <2>2, <2>3, <2>4 DEF TableOK
<1>6. ASSUME NEW p \in Pids, Exit(p)
      PROVE  TableOK'
  <2>1. /\ p # 1 /\ ended' /\ Pids' = Pids
        /\ \A r \in Pids :
              /\ procs'[r] \in ProcessType
              /\ procs'[r].name = procs[r].name
              /\ procs'[r].zombie = (r = p \/ procs[r].zombie)
              /\ procs'[r].ppid = IF r # p /\ procs[r].ppid = p THEN 1 ELSE procs[r].ppid
    BY <1>6, ExitDoes, SMTT(30)
  <2>2. TableInv'
    <3> USE DEF TableInv
    <3>1. 1 \in Pids' /\ ~procs'[1].zombie /\ procs'[1].ppid = 0
      <4>1. 1 \in Pids /\ ~procs[1].zombie /\ procs[1].ppid = 0
        BY DEF TableOK
      <4>2. QED
        BY <1>2, <2>1, <4>1
    <3>2. \A r \in Pids' : procs'[r].name < NewName' /\ (~reused' => procs'[r].name = r)
      BY <1>1, <1>3, <2>1 DEF TableOK
    <3>3. \A r, s \in Pids' : procs'[r].name = procs'[s].name => r = s
      BY <1>4, <2>1
    <3>4. ASSUME NEW r \in Pids' \ {1}
          PROVE  /\ procs'[r].ppid \in Pids' \ {r} /\ ~procs'[procs'[r].ppid].zombie
                 /\ ~reused' => procs'[r].ppid < r
      <4>1. CASE r # p /\ procs[r].ppid = p
        <5>1. procs'[r].ppid = 1
          BY <2>1, <4>1
        <5>2. r > 1
          BY <1>2, <2>1
        <5>3. QED
          BY <2>1, <3>1, <5>1, <5>2
      <4>2. CASE r = p \/ procs[r].ppid # p
        <5>1. /\ procs'[r].ppid = procs[r].ppid /\ procs[r].ppid \in Pids \ {r}
              /\ ~procs[procs[r].ppid].zombie /\ (~reused => procs[r].ppid < r)
          BY <2>1, <4>2 DEF TableOK
        <5>2. procs[r].ppid # p
          BY <4>2, <5>1
        <5>3. procs'[procs[r].ppid].zombie = procs[procs[r].ppid].zombie
          BY <1>3, <2>1, <5>1, <5>2
        <5>4. QED
          BY <1>1, <2>1, <5>1, <5>3
      <4>3. QED
        BY <4>1, <4>2
    <3>5. QED
      BY <2>1, <3>1, <3>2, <3>3, <3>4
  <2>3. QED
    BY <1>2, <2>1, <2>2 DEF TableOK
<1>7. ASSUME NEW p \in Pids, Reap(p)
      PROVE  TableOK'
  <2>1. /\ procs[p].zombie /\ ended' = ended /\ Pids' = Pids \ {p}
        /\ \A r \in Pids' : procs'[r] = procs[r]
    BY <1>7, ReapDoes
  <2>2. IsFiniteSet(Pids')
    BY <1>2, <2>1, FS_RemoveElement
  <2>3. TableInv'
    <3> USE DEF TableInv
    <3>1. 1 \in Pids' /\ ~procs'[1].zombie /\ procs'[1].ppid = 0
      BY <2>1 DEF TableOK
    <3>2. \A r \in Pids' : procs'[r].name < NewName' /\ (~reused' => procs'[r].name = r)
      BY <1>1, <1>3, <1>4, <2>1
    <3>3. ASSUME NEW r \in Pids' \ {1}
          PROVE  /\ procs'[r].ppid \in Pids' \ {r} /\ ~procs'[procs'[r].ppid].zombie
                 /\ ~reused' => procs'[r].ppid < r
      <4>1. procs'[r] = procs[r] /\ r \in Pids \ {1}
        BY <2>1
      <4>2. procs[r].ppid \in Pids \ {r} /\ ~procs[procs[r].ppid].zombie /\ (~reused => procs[r].ppid < r)
        BY <4>1 DEF TableOK
      <4>3. procs[r].ppid \in Pids' /\ procs'[procs[r].ppid] = procs[procs[r].ppid]
        BY <2>1, <4>2
      <4>4. QED
        BY <1>1, <4>1, <4>2, <4>3
    <3>4. QED
      BY <2>1, <3>1, <3>2, <3>3 DEF TableOK
  <2>4. QED
    BY <1>2, <1>3, <2>1, <2>2, <2>3 DEF TableOK
<1>8. ASSUME NEW p \in Pids, OpenClose(p)
      PROVE  TableOK'
  <2>1. /\ Pids' = Pids /\ ended' = (ended \/ procs[p].fd # "none")
        /\ \A r \in Pids :
              /\ procs'[r] \in ProcessType
              /\ procs'[r].name = procs[r].name /\ procs'[r].ppid = procs[r].ppid
              /\ procs'[r].zombie = procs[r].zombie
    BY <1>8, OpenCloseDoes
  <2>2. \A r \in Pids' : procs'[r].name < NewName' /\ (~reused' => procs'[r].name = r)
    BY <1>1, <1>3, <2>1 DEF TableInv, TableOK
  <2>3. ~ended' => ~ended
    BY <2>1
  <2>4. \A r, s \in Pids' : procs'[r].name = procs'[s].name => r = s
    BY <1>4, <2>1
  <2>5. ASSUME NEW r \in Pids' \ {1}
        PROVE  /\ procs'[r].ppid \in Pids' \ {r} /\ ~procs'[procs'[r].ppid].zombie
               /\ ~reused' => procs'[r].ppid < r
    <3>1. procs[r].ppid \in Pids \ {r} /\ ~procs[procs[r].ppid].zombie /\ (~reused => procs[r].ppid < r)
      BY <2>1 DEF TableOK, TableInv
    <3>2. QED
      BY <1>1, <2>1, <3>1
  <2>6. 1 \in Pids' /\ ~procs'[1].zombie /\ procs'[1].ppid = 0
    BY <1>4, <2>1
  <2>7. ~ended' => \A r \in Pids' : ~procs'[r].zombie
    BY <2>1, <2>3 DEF TableInv, TableOK
  <2>8. TableInv'
    BY <2>2, <2>4, <2>5, <2>6, <2>7 DEF TableInv
  <2>9. QED
    BY <1>2, <2>1, <2>8 DEF TableOK
<1>9. QED
  BY <1>5, <1>6, <1>7, <1>8 DEF Others
-----------------------------------------------------------------------------
(* ProcScan: what a step of the other processes leaves to the scanner *)

\* No process changes its name, a new one has a new name, and until something ends or
\* closes the file no process goes.
LEMMA OthersDo ==
  ASSUME TableOK, events \in Nat, Others
  PROVE  /\ ended \in BOOLEAN => ended' \in BOOLEAN
         /\ \A r \in Pids \cap Pids' : procs'[r].name = procs[r].name
         /\ \A q \in Pids' \ Pids : /\ procs'[q].name = NewName /\ procs'[q].ppid \in Pids
                                    /\ ~reused => q = NewName
         /\ \A r \in Pids \cap Pids' : procs'[r].ppid \in {procs[r].ppid, 1}
         /\ ended => ended'
         /\ ~ended' => /\ Pids \subseteq Pids'
                       /\ \A r \in Pids : procs[r].fd # "none" => procs'[r].fd # "none"
<1> DEFINE Kept ==
         /\ ended \in BOOLEAN => ended' \in BOOLEAN
         /\ \A r \in Pids \cap Pids' : procs'[r].name = procs[r].name
         /\ \A q \in Pids' \ Pids : /\ procs'[q].name = NewName /\ procs'[q].ppid \in Pids
                                    /\ ~reused => q = NewName
         /\ \A r \in Pids \cap Pids' : procs'[r].ppid \in {procs[r].ppid, 1}
         /\ ended => ended'
         /\ ~ended' => /\ Pids \subseteq Pids'
                       /\ \A r \in Pids : procs[r].fd # "none" => procs'[r].fd # "none"
<1>1. ASSUME NEW p \in Pids, Fork(p) PROVE Kept
  BY <1>1, ForkDoes
<1>2. ASSUME NEW p \in Pids, Exit(p) PROVE Kept
  <2>1. /\ ended' /\ Pids' = Pids
        /\ \A r \in Pids :
              /\ procs'[r].name = procs[r].name
              /\ procs'[r].ppid = IF r # p /\ procs[r].ppid = p THEN 1 ELSE procs[r].ppid
    BY <1>2, ExitDoes
  <2>2. QED
    BY <2>1
<1>3. ASSUME NEW p \in Pids, Reap(p) PROVE Kept
  BY <1>3, ReapDoes DEF TableOK, TableInv
<1>4. ASSUME NEW p \in Pids, OpenClose(p) PROVE Kept
  <2>1. /\ Pids' = Pids /\ ended' = (ended \/ procs[p].fd # "none")
        /\ \A r \in Pids :
              /\ procs'[r].name = procs[r].name /\ procs'[r].ppid = procs[r].ppid
              /\ r # p => procs'[r].fd = procs[r].fd
    BY <1>4, OpenCloseDoes
  <2>2. QED
    BY <2>1
<1>5. QED
  BY <1>1, <1>2, <1>3, <1>4 DEF Others
-----------------------------------------------------------------------------
(* ProcScan: readdir *)

\* The first ones of a set of pids: those before them are among them, and there are
\* some as long as there are any.
LEMMA TheFirst ==
  ASSUME NEW S \in SUBSET Nat, IsFiniteSet(S)
  PROVE  /\ FirstOf(S) \subseteq S
         /\ \A x \in FirstOf(S), y \in S : y <= x => y \in FirstOf(S)
         /\ FirstOf(S) = {} => S = {}
<1>1. Batch \in Nat \ {0}
  BY BoundsAssumption
<1>2. \A z \in S : z \in Nat
  OBVIOUS
<1>3. ASSUME NEW x \in FirstOf(S), NEW y \in S, y <= x PROVE y \in FirstOf(S)
  <2> DEFINE X == {q \in S : q < x}
             Y == {q \in S : q < y}
  <2>1. x \in S /\ Cardinality(X) < Batch
    BY DEF FirstOf
  <2>2. Y \subseteq X
    <3>1. x \in Nat /\ y \in Nat /\ y <= x
      BY <1>2, <1>3, <2>1
    <3>2. ASSUME NEW q \in S, q < y PROVE q < x
      <4>1. q \in Nat
        BY <1>2
      <4>2. QED
        BY <3>1, <3>2, <4>1
    <3>3. QED
      BY <3>2
  <2>3. IsFiniteSet(X)
    BY FS_Subset
  <2>4. Cardinality(Y) <= Cardinality(X) /\ IsFiniteSet(Y)
    BY <2>2, <2>3, FS_Subset
  <2>5. Cardinality(X) \in Nat /\ Cardinality(Y) \in Nat
    BY <2>3, <2>4, FS_CardinalityType
  <2>6. Cardinality(Y) < Batch
    BY <1>1, <2>1, <2>4, <2>5
  <2>7. QED
    BY <2>6 DEF FirstOf
<1>4. ASSUME S # {} PROVE FirstOf(S) # {}
  <2>1. PICK x \in S : \A y \in S : x <= y
    BY <1>4, LeastNumber
  <2>2. {q \in S : q < x} = {}
    <3>1. ASSUME NEW q \in S PROVE ~(q < x)
      <4>1. q \in Nat /\ x \in Nat /\ x <= q
        BY <1>2, <2>1
      <4>2. QED
        BY <4>1
    <3>2. QED
      BY <3>1
  <2>3. Cardinality({q \in S : q < x}) = 0
    BY <2>2, FS_EmptySet
  <2>4. QED
    BY <1>1, <2>1, <2>3 DEF FirstOf
<1>5. QED
  BY <1>3, <1>4 DEF FirstOf

LEMMA MinIs ==
  ASSUME NEW S \in SUBSET Nat, S # {}
  PROVE  Min(S) \in S /\ \A y \in S : Min(S) <= y
BY LeastNumber DEF Min

Buffer == IF names = {} THEN FirstOf(Fetched) ELSE names

\* Readdir takes the least of the buffer; nobody is passed over between those it takes.
LEMMA ReaddirDoes ==
  ASSUME TableOK, pid \in Nat, names \in SUBSET Nat, \A m \in names : m > pid, Readdir
  PROVE  \/ /\ names = {} /\ names' = names /\ pid' = pid /\ spc' = "success"
            /\ \A p \in Pids : ~(p > pid)
            /\ shown' = IF Draws THEN Drawing ELSE shown
         \/ /\ pid' \in Nat \ {0} /\ pid' > pid /\ names' \subseteq Nat \ {0}
            /\ pid' \in names \cup Pids /\ names' \subseteq names \cup Pids /\ spc' = "open"
            /\ shown' = shown /\ \A m \in names' : m > pid'
            /\ \A p \in Nat : (p \in Pids \/ p \in names) /\ p > pid
                               /\ (\A m \in names : p <= m => p \in names) =>
                 p = pid' \/ (p > pid' /\ \A m \in names' : p <= m => p \in names')
<1>1. Fetched \subseteq Pids /\ \A p \in Fetched : p > pid /\ p \in Nat
  BY DEF Fetched, TableOK
<1>2. IsFiniteSet(Fetched)
  BY <1>1, FS_Subset DEF TableOK
<1>3. /\ FirstOf(Fetched) \subseteq Fetched
      /\ \A x \in FirstOf(Fetched), y \in Fetched : y <= x => y \in FirstOf(Fetched)
      /\ FirstOf(Fetched) = {} => Fetched = {}
  BY <1>1, <1>2, TheFirst
<1>4. Buffer \subseteq names \cup Pids /\ \A p \in Buffer : p > pid /\ p \in Nat
  BY <1>1, <1>3 DEF Buffer
<1>5. CASE Buffer = {}
  <2>1. names = {} /\ Fetched = {}
    BY <1>3, <1>5 DEF Buffer
  <2>2. \A p \in Pids : ~(p > pid)
    BY <2>1 DEF Fetched
  <2>3. QED
    BY <1>5, <2>1, <2>2 DEF Readdir, Buffer
<1>6. CASE Buffer # {}
  <2>1. Min(Buffer) \in Buffer /\ \A y \in Buffer : Min(Buffer) <= y
    BY <1>4, <1>6, MinIs
  <2>2. pid' = Min(Buffer) /\ names' = Buffer \ {Min(Buffer)} /\ spc' = "open" /\ shown' = shown
    BY <1>6 DEF Readdir, Buffer
  <2>3. ASSUME NEW p \in Nat, p \in Pids \/ p \in names, p > pid,
               \A m \in names : p <= m => p \in names
        PROVE  p = pid' \/ (p > pid' /\ \A m \in names' : p <= m => p \in names')
    <3>1. \A m \in Buffer : p <= m => p \in Buffer
      <4>1. CASE names = {}
        <5>1. p \in Fetched /\ Buffer = FirstOf(Fetched)
          BY <2>3, <4>1 DEF Fetched, Buffer
        <5>2. QED
          BY <1>3, <5>1
      <4>2. CASE names # {}
        BY <2>3, <4>2 DEF Buffer
      <4>3. QED
        BY <4>1, <4>2
    <3>3. pid' \in Buffer /\ pid' \in Nat /\ \A y \in Buffer : pid' <= y /\ y \in Nat
      BY <1>4, <2>1, <2>2
    <3>2. ~(p < pid')
      BY <2>3, <3>1, <3>3
    <3>4. QED
      BY <2>2, <3>1, <3>2, <3>3
  <2>4. pid' \in Nat \ {0} /\ pid' > pid /\ names' \subseteq Nat \ {0} /\ \A m \in names' : m > pid'
    <3>1. \A m \in Buffer : m \in Nat \ {0} /\ m > pid
      BY <1>4
    <3>2. \A m \in names' : m \in Buffer /\ m # pid' /\ pid' <= m
      BY <2>1, <2>2
    <3>3. QED
      BY <2>1, <2>2, <3>1, <3>2
  <2>5. pid' \in names \cup Pids /\ names' \subseteq names \cup Pids
    BY <1>4, <2>1, <2>2
  <2>6. QED
    BY <2>2, <2>3, <2>4, <2>5
<1>7. QED
  BY <1>5, <1>6
-----------------------------------------------------------------------------
(* ProcScan: sequences one after another *)

LEMMA Joined ==
  ASSUME NEW A, NEW s \in Seq(A), NEW t \in Seq(A)
  PROVE  /\ s \o t \in Seq(A) /\ Len(s \o t) = Len(s) + Len(t)
         /\ Len(s) \in Nat /\ Len(t) \in Nat
         /\ DOMAIN s = 1 .. Len(s) /\ DOMAIN t = 1 .. Len(t)
         /\ DOMAIN (s \o t) = 1 .. Len(s) + Len(t)
         /\ \A a \in 1 .. Len(s) : (s \o t)[a] = s[a]
         /\ \A a \in 1 .. Len(t) : (s \o t)[Len(s) + a] = t[a]
         /\ \A a \in DOMAIN (s \o t) : (a \notin DOMAIN s => a - Len(s) \in DOMAIN t /\ (s \o t)[a] = t[a - Len(s)])
OBVIOUS

\* No element occurs twice.
LEMMA JoinedOnce ==
  ASSUME NEW A, NEW s \in Seq(A), NEW t \in Seq(A), IsInjective(s), IsInjective(t),
         Range(s) \cap Range(t) = {}
  PROVE  IsInjective(s \o t)
<1> SUFFICES ASSUME NEW a \in DOMAIN (s \o t), NEW b \in DOMAIN (s \o t), (s \o t)[a] = (s \o t)[b]
             PROVE  a = b
  BY DEF IsInjective
<1>1. \A c \in DOMAIN (s \o t) : c \in Nat
  BY Joined
<1>2. CASE a \in DOMAIN s /\ b \in DOMAIN s
  BY <1>2, Joined DEF IsInjective
<1>3. CASE a \notin DOMAIN s /\ b \notin DOMAIN s
  <2>1. a - Len(s) \in DOMAIN t /\ b - Len(s) \in DOMAIN t /\ t[a - Len(s)] = t[b - Len(s)]
    BY <1>3, Joined
  <2>2. a - Len(s) = b - Len(s)
    BY <2>1 DEF IsInjective
  <2>3. QED
    BY <1>1, <2>2, Joined
<1>4. CASE a \in DOMAIN s /\ b \notin DOMAIN s
  <2>1. b - Len(s) \in DOMAIN t /\ s[a] = t[b - Len(s)]
    BY <1>4, Joined
  <2>2. QED
    BY <1>4, <2>1 DEF Range
<1>5. CASE a \notin DOMAIN s /\ b \in DOMAIN s
  <2>1. a - Len(s) \in DOMAIN t /\ s[b] = t[a - Len(s)]
    BY <1>5, Joined
  <2>2. QED
    BY <1>5, <2>1 DEF Range
<1>6. QED
  BY <1>2, <1>3, <1>4, <1>5

\* InOrder puts together, from the first node to the last, the drawings of those in S.
Part(S, v, n) == IF n \in S THEN v[n] ELSE <<>>
Drawings(A, L) == [1 .. L -> Seq(A)]
Puts(A, S, v, L, w) ==
  /\ w \in [0 .. L -> Seq(A)]
  /\ w[0] = <<>>
  /\ \A n \in 1 .. L : w[n] = w[n - 1] \o Part(S, v, n)

LEMMA InOrderDoes ==
  ASSUME NEW A, NEW L \in Nat, Len(nodes) = L, NEW S, NEW v \in Drawings(A, L)
  PROVE  \E w : Puts(A, S, v, L, w) /\ InOrder(S, v) = w[L]
<1> DEFINE V == Seq(A)
           G == [nv \in (1 .. L) \X V |-> nv[2] \o Part(S, v, nv[1])]
           s == [i \in 1 .. L |-> IF i \in S THEN v[i] ELSE <<>>]
           flat == CHOOSE f : f = [i \in 1 .. Len(s) |-> IF i = 1 THEN s[i] ELSE f[i - 1] \o s[i]]
<1>1. \A n \in 1 .. L : Part(S, v, n) \in V /\ s[n] = Part(S, v, n)
  BY DEF Part, Drawings
<1>2. \A n \in 1 .. L, x \in V : G[<<n, x>>] = x \o Part(S, v, n)
  OBVIOUS
<1>3. ASSUME NEW n \in 1 .. L, NEW x \in V PROVE G[<<n, x>>] \in V
  <2>1. x \in Seq(A) /\ Part(S, v, n) \in Seq(A)
    BY <1>1
  <2>2. QED
    BY <1>2, <2>1, ConcatProperties
<1>4. <<>> \in V
  OBVIOUS
<1> HIDE DEF G
<1>5. PICK w \in [0 .. L -> V] : Iterates(w, <<>>, L, G)
  <2> HIDE DEF V
  <2>1. QED
    BY <1>3, <1>4, Iteration
<1>6. ASSUME NEW n \in 1 .. L PROVE w[n] = w[n - 1] \o Part(S, v, n)
  <2>1. n - 1 \in 0 .. L
    OBVIOUS
  <2>2. w[n - 1] \in V
    BY <2>1
  <2>3. QED
    BY <1>2, <1>5, <2>2 DEF Iterates
<1>7. Puts(A, S, v, L, w)
  BY <1>5, <1>6 DEF Puts, Iterates
<1>8. Len(s) = L
  OBVIOUS
<1>9. InOrder(S, v) = IF L = 0 THEN s ELSE flat[L]
  BY <1>8 DEF InOrder, FlattenSeq
<1>10. CASE L = 0
  <2>1. s = <<>>
    BY <1>10
  <2>2. QED
    BY <1>7, <1>9, <1>10, <2>1 DEF Puts
<1>11. CASE L # 0
  <2> DEFINE f == [i \in 1 .. L |-> w[i]]
             g == [i \in 1 .. Len(s) |-> IF i = 1 THEN s[i] ELSE f[i - 1] \o s[i]]
  <2>1. ASSUME NEW i \in 1 .. L PROVE f[i] = g[i]
    <3>1. f[i] = w[i - 1] \o s[i] /\ w[0] = <<>> /\ s[i] \in Seq(A)
      BY <1>1, <1>6, <1>7 DEF Puts
    <3>2. CASE i = 1
      <4>1. <<>> \o s[i] = s[i]
        BY <3>1
      <4>2. i - 1 = 0 /\ g[i] = s[i]
        BY <1>8, <3>2
      <4>3. QED
        BY <3>1, <4>1, <4>2
    <3>3. CASE i # 1
      <4>1. i - 1 \in 1 .. L
        BY <3>3
      <4>2. f[i - 1] = w[i - 1]
        BY <4>1
      <4>3. QED
        BY <1>8, <3>1, <3>3, <4>2
    <3>4. QED
      BY <3>2, <3>3
  <2>2. f = [i \in 1 .. Len(s) |-> IF i = 1 THEN s[i] ELSE f[i - 1] \o s[i]]
    <3>1. f = [i \in 1 .. L |-> f[i]] /\ g = [i \in 1 .. L |-> g[i]]
      BY <1>8
    <3> HIDE DEF f
    <3>2. g = [i \in 1 .. Len(s) |-> IF i = 1 THEN s[i] ELSE f[i - 1] \o s[i]]
      OBVIOUS
    <3> HIDE DEF g
    <3>3. f = g
      BY <2>1, <3>1
    <3>4. QED
      BY <3>2, <3>3
  <2> HIDE DEF f, s
  <2>3. flat = [i \in 1 .. Len(s) |-> IF i = 1 THEN s[i] ELSE flat[i - 1] \o s[i]]
    BY <2>2
  <2> HIDE DEF flat
  <2> DEFINE B == {n \in 0 .. L : n = 0 \/ flat[n] = w[n]}
  <2>4. ASSUME NEW n \in 1 .. L, n - 1 \in B PROVE n \in B
    <3>1. flat[n] = IF n = 1 THEN s[n] ELSE flat[n - 1] \o s[n]
      BY <1>8, <2>3
    <3>2. w[n] = w[n - 1] \o s[n] /\ s[n] \in Seq(A) /\ w[0] = <<>>
      BY <1>1, <1>6, <1>7 DEF Puts
    <3>3. CASE n = 1
      <4>1. <<>> \o s[n] = s[n]
        BY <3>2
      <4>2. n - 1 = 0 /\ flat[n] = s[n]
        BY <3>1, <3>3
      <4>3. flat[n] = w[n]
        BY <3>2, <4>1, <4>2
      <4>4. QED
        BY <4>3
    <3>4. CASE n # 1
      <4>1. flat[n - 1] = w[n - 1]
        BY <2>4, <3>4
      <4>2. flat[n] = flat[n - 1] \o s[n]
        BY <3>1, <3>4
      <4>3. flat[n] = w[n]
        BY <3>2, <4>1, <4>2
      <4>4. QED
        BY <4>3
    <3>5. QED
      BY <3>3, <3>4
  <2>5. \A n \in 0 .. L : n \in B
    <3>1. 0 \in B
      OBVIOUS
    <3> HIDE DEF B
    <3>2. QED
      BY <2>4, <3>1, UpTo
  <2>6. flat[L] = w[L]
    BY <1>11, <2>5
  <2>7. QED
    BY <1>7, <1>9, <1>11, <2>6
<1>12. QED
  BY <1>10, <1>11

\* What each drawing has and two of them keep when they are put together, all have.
LEMMA InOrderKeeps ==
  ASSUME NEW A, NEW L \in Nat, Len(nodes) = L, NEW S, NEW v \in Drawings(A, L),
         NEW C \in SUBSET Seq(A), <<>> \in C, \A s, t \in C : s \o t \in C,
         \A n \in 1 .. L : n \in S => v[n] \in C
  PROVE  InOrder(S, v) \in C
<1>1. PICK w : Puts(A, S, v, L, w) /\ InOrder(S, v) = w[L]
  BY InOrderDoes
<1> DEFINE B == {n \in 0 .. L : w[n] \in C}
<1>2. 0 \in B
  BY <1>1 DEF Puts
<1>3. ASSUME NEW n \in 1 .. L, n - 1 \in B PROVE n \in B
  <2>1. w[n - 1] \in C /\ w[n] = w[n - 1] \o Part(S, v, n)
    BY <1>1, <1>3 DEF Puts
  <2>2. Part(S, v, n) \in C
    BY DEF Part
  <2>3. w[n] \in C
    BY <2>1, <2>2
  <2>4. QED
    BY <2>3
<1>4. \A n \in 0 .. L : n \in B
  <2> HIDE DEF B
  <2>1. QED
    BY <1>2, <1>3, UpTo
<1>5. QED
  BY <1>1, <1>4

\* The elements are those of the drawings.
LEMMA InOrderRange ==
  ASSUME NEW A, NEW L \in Nat, Len(nodes) = L, NEW S, NEW v \in Drawings(A, L), NEW x
  PROVE  x \in Range(InOrder(S, v)) <=> \E n \in 1 .. L : n \in S /\ x \in Range(v[n])
<1>1. PICK w : Puts(A, S, v, L, w) /\ InOrder(S, v) = w[L]
  BY InOrderDoes
<1> DEFINE Before(n) == \E m \in 1 .. n : m \in S /\ x \in Range(v[m])
           B == {n \in 0 .. L : x \in Range(w[n]) <=> Before(n)}
<1>2. 0 \in B
  BY <1>1 DEF Puts, Range
<1>3. ASSUME NEW n \in 1 .. L, n - 1 \in B PROVE n \in B
  <2>1. w[n - 1] \in Seq(A) /\ w[n] = w[n - 1] \o Part(S, v, n)
    <3>1. n - 1 \in 0 .. L
      OBVIOUS
    <3>2. QED
      BY <1>1, <3>1 DEF Puts
  <2>2. Part(S, v, n) \in Seq(A)
    BY DEF Part, Drawings
  <2>3. Range(w[n]) = Range(w[n - 1]) \cup Range(Part(S, v, n))
    BY <2>1, <2>2, RangeConcatenation
  <2>4. x \in Range(Part(S, v, n)) <=> n \in S /\ x \in Range(v[n])
    <3>1. x \notin Range(<<>>)
      BY DEF Range
    <3>2. QED
      BY <3>1 DEF Part
  <2>5. Before(n) <=> Before(n - 1) \/ (n \in S /\ x \in Range(v[n]))
    <3>1. \A m : m \in 1 .. n <=> m \in 1 .. n - 1 \/ m = n
      OBVIOUS
    <3>2. QED
      BY <3>1
  <2>6. QED
    BY <1>3, <2>3, <2>4, <2>5
<1>4. \A n \in 0 .. L : n \in B
  <2> HIDE DEF B
  <2>1. QED
    BY <1>2, <1>3, UpTo
<1>5. QED
  BY <1>1, <1>4

\* If no drawing shows anything twice, and no two of them the same, then nothing is
\* shown twice.
LEMMA InOrderOnce ==
  ASSUME NEW A, NEW L \in Nat, Len(nodes) = L, NEW S, NEW v \in Drawings(A, L),
         \A n \in 1 .. L : n \in S => IsInjective(v[n]),
         \A m, n \in 1 .. L : m \in S /\ n \in S /\ m # n => Range(v[m]) \cap Range(v[n]) = {}
  PROVE  IsInjective(InOrder(S, v))
<1>1. PICK w : Puts(A, S, v, L, w) /\ InOrder(S, v) = w[L]
  BY InOrderDoes
<1> DEFINE From(n) == \A x \in Range(w[n]) : \E m \in 1 .. n : m \in S /\ x \in Range(v[m])
           B == {n \in 0 .. L : IsInjective(w[n]) /\ From(n)}
<1>2. 0 \in B
  BY <1>1 DEF Puts, Range, IsInjective
<1>3. ASSUME NEW n \in 1 .. L, n - 1 \in B PROVE n \in B
  <2>1. w[n - 1] \in Seq(A) /\ w[n] = w[n - 1] \o Part(S, v, n)
    <3>1. n - 1 \in 0 .. L
      OBVIOUS
    <3>2. QED
      BY <1>1, <3>1 DEF Puts
  <2>2. Part(S, v, n) \in Seq(A)
    BY DEF Part, Drawings
  <2>3. Range(w[n]) = Range(w[n - 1]) \cup Range(Part(S, v, n))
    BY <2>1, <2>2, RangeConcatenation
  <2>4. \A x : x \in Range(Part(S, v, n)) => n \in S /\ x \in Range(v[n])
    <3>1. \A x : x \notin Range(<<>>)
      BY DEF Range
    <3>2. QED
      BY <3>1 DEF Part
  <2>5. IsInjective(Part(S, v, n))
    BY DEF Part, IsInjective
  <2>6. Range(w[n - 1]) \cap Range(Part(S, v, n)) = {}
    <3>1. SUFFICES ASSUME NEW x \in Range(w[n - 1]), x \in Range(Part(S, v, n)) PROVE FALSE
      OBVIOUS
    <3>2. PICK m \in 1 .. n - 1 : m \in S /\ x \in Range(v[m])
      BY <1>3
    <3>3. n \in S /\ x \in Range(v[n]) /\ m \in 1 .. L /\ m # n
      BY <2>4, <3>1, <3>2
    <3>4. QED
      BY <3>2, <3>3
  <2>7. IsInjective(w[n])
    <3>1. IsInjective(w[n - 1])
      BY <1>3
    <3>2. QED
      BY <2>1, <2>2, <2>5, <2>6, <3>1, JoinedOnce
  <2>8. From(n)
    <3>1. ASSUME NEW x \in Range(w[n]) PROVE \E m \in 1 .. n : m \in S /\ x \in Range(v[m])
      <4>1. CASE x \in Range(w[n - 1])
        <5>1. PICK m \in 1 .. n - 1 : m \in S /\ x \in Range(v[m])
          BY <1>3, <4>1
        <5>2. m \in 1 .. n
          OBVIOUS
        <5>3. QED
          BY <5>1, <5>2
      <4>2. CASE x \in Range(Part(S, v, n))
        <5>1. n \in 1 .. n
          OBVIOUS
        <5>2. QED
          BY <2>4, <4>2, <5>1
      <4>3. QED
        BY <2>3, <4>1, <4>2
    <3>2. QED
      BY <3>1
  <2>9. QED
    BY <2>7, <2>8
<1>4. \A n \in 0 .. L : n \in B
  <2> HIDE DEF B
  <2>1. QED
    BY <1>2, <1>3, UpTo
<1>5. QED
  BY <1>1, <1>4
-----------------------------------------------------------------------------
(* ProcScan: the tree *)

NodesType == nodes \in Seq([pid : Nat \ {0}, ppid : Nat, name : Nat \ {0}])
Lines == [pid : Nat \ {0}, name : Nat, level : Nat]
Line(i, level) == [pid |-> nodes[i].pid, name |-> DrawnName(i), level |-> level]
Below(i, level, drawing) == <<Line(i, level)>> \o InOrder(Children(i), drawing)

LEMMA NodesAre ==
  ASSUME NodesType
  PROVE  /\ Len(nodes) \in Nat /\ DOMAIN nodes = 1 .. Len(nodes)
         /\ \A i \in 1 .. Len(nodes) : /\ nodes[i].pid \in Nat \ {0} /\ nodes[i].ppid \in Nat
                                       /\ nodes[i].name \in Nat \ {0}
                                       /\ \A level \in Nat : Line(i, level) \in Lines
<1>1. Len(nodes) \in Nat /\ DOMAIN nodes = 1 .. Len(nodes)
  BY DEF NodesType
<1>2. ASSUME NEW i \in 1 .. Len(nodes)
      PROVE  /\ nodes[i].pid \in Nat \ {0} /\ nodes[i].ppid \in Nat /\ nodes[i].name \in Nat \ {0}
             /\ \A level \in Nat : Line(i, level) \in Lines
  <2> DEFINE N == [pid : Nat \ {0}, ppid : Nat, name : Nat \ {0}]
  <2>1. nodes[i] \in N
    <3>1. nodes \in Seq(N)
      BY DEF NodesType
    <3> HIDE DEF N
    <3>2. QED
      BY <3>1
  <2>2. DrawnName(i) \in Nat
    BY <2>1 DEF DrawnName, Smashed
  <2>3. QED
    BY <2>1, <2>2 DEF Line, Lines
<1>3. QED
  BY <1>1, <1>2

LEMMA InOrderType ==
  ASSUME NEW A, NEW L \in Nat, Len(nodes) = L, NEW S, NEW v \in Drawings(A, L)
  PROVE  InOrder(S, v) \in Seq(A)
<1>1. PICK w : Puts(A, S, v, L, w) /\ InOrder(S, v) = w[L]
  BY InOrderDoes
<1>2. QED
  BY <1>1 DEF Puts

\* print_tree is what its definition says: for every level there is a drawing of each
\* node, the line of the node and below it what the next level has of its children.
LEMMA TreeDefined ==
  ASSUME NodesType, NEW L, L = Len(nodes), NEW level \in 0 .. L
  PROVE  /\ print_tree[level] \in Drawings(Lines, L)
         /\ \A i \in 1 .. L :
              print_tree[level][i] = IF level = L THEN <<Line(i, level)>>
                                     ELSE Below(i, level, print_tree[level + 1])
<1>1. L \in Nat
  BY NodesAre
<1> DEFINE V == Drawings(Lines, L)
           Step(l, d) == [i \in 1 .. L |-> <<Line(i, l)>> \o IF l = L THEN <<>> ELSE InOrder(Children(i), d)]
           G == [nv \in (1 .. L) \X V |-> Step(L - nv[1], nv[2])]
           a == Step(L, <<>>)
<1>2. ASSUME NEW l \in 0 .. L, NEW d, l = L \/ d \in V PROVE Step(l, d) \in V
  <2>1. ASSUME NEW i \in 1 .. L PROVE Step(l, d)[i] \in Seq(Lines)
    <3>1. (IF l = L THEN <<>> ELSE InOrder(Children(i), d)) \in Seq(Lines)
      <4>1. CASE l = L
        BY <4>1
      <4>2. CASE l # L
        BY <1>1, <1>2, <4>2, InOrderType
      <4>3. QED
        BY <4>1, <4>2
    <3>2. <<Line(i, l)>> \in Seq(Lines)
      BY NodesAre
    <3>3. QED
      BY <3>1, <3>2, ConcatProperties
  <2>2. QED
    BY <2>1 DEF Drawings
<1>3. a \in V
  <2>1. L \in 0 .. L
    BY <1>1
  <2> HIDE DEF V, Step
  <2>2. QED
    BY <1>2, <2>1
<1>4. ASSUME NEW n \in 1 .. L, NEW v \in V PROVE G[<<n, v>>] = Step(L - n, v) /\ G[<<n, v>>] \in V
  <2>1. L - n \in 0 .. L
    BY <1>1
  <2>2. G[<<n, v>>] = Step(L - n, v)
    OBVIOUS
  <2>3. Step(L - n, v) \in V
    BY <1>2, <2>1
  <2> HIDE DEF Step, G
  <2>4. QED
    BY <2>2, <2>3
<1>5. PICK w \in [0 .. L -> V] : Iterates(w, a, L, G)
  <2> HIDE DEF V, a, G
  <2>1. QED
    BY <1>1, <1>3, <1>4, Iteration
<1> DEFINE f == [l \in 0 .. L |-> w[L - l]]
<1>6. ASSUME NEW l \in 0 .. L PROVE f[l] = Step(l, f[l + 1])
  <2>1. L - l \in 0 .. L /\ f[l] = w[L - l]
    BY <1>1
  <2>2. CASE l = L
    <3>1. L - l = 0 /\ w[0] = a
      BY <1>1, <1>5, <2>2 DEF Iterates
    <3>2. QED
      BY <2>1, <2>2, <3>1
  <2>3. CASE l # L
    <3>1. L - l \in 1 .. L /\ (L - l) - 1 \in 0 .. L /\ (L - l) - 1 = L - (l + 1) /\ l + 1 \in 0 .. L
      BY <1>1, <2>3
    <3>2. w[L - l] = G[<<L - l, w[L - l - 1]>>] /\ w[L - l - 1] \in V
      BY <1>5, <3>1 DEF Iterates
    <3>3. f[l + 1] = w[L - l - 1]
      BY <3>1
    <3>4. G[<<L - l, w[L - l - 1]>>] = Step(L - (L - l), w[L - l - 1])
      BY <1>4, <3>1, <3>2
    <3>5. L - (L - l) = l
      BY <1>1
    <3> HIDE DEF Step, G, V, f
    <3>6. QED
      BY <2>1, <3>2, <3>3, <3>4, <3>5
  <2>4. QED
    BY <2>2, <2>3
<1> DEFINE g == [l \in 0 .. Len(nodes) |->
                  [i \in 1 .. Len(nodes) |->
                     <<[pid |-> nodes[i].pid, name |-> DrawnName(i), level |-> l]>> \o
                     IF l = Len(nodes) THEN <<>> ELSE InOrder(Children(i), f[l + 1])]]
<1>7. f = g
  <2>1. ASSUME NEW l \in 0 .. L PROVE f[l] = g[l]
    <3>1. g[l] = Step(l, f[l + 1])
      BY DEF Line
    <3> HIDE DEF f, g
    <3>2. QED
      BY <1>6, <3>1
  <2>2. f = [l \in 0 .. L |-> f[l]] /\ g = [l \in 0 .. L |-> g[l]]
    OBVIOUS
  <2> HIDE DEF f, g
  <2>3. QED
    BY <2>1, <2>2
<1> DEFINE h == CHOOSE h : h = [l \in 0 .. Len(nodes) |->
                  [i \in 1 .. Len(nodes) |->
                     <<[pid |-> nodes[i].pid, name |-> DrawnName(i), level |-> l]>> \o
                     IF l = Len(nodes) THEN <<>> ELSE InOrder(Children(i), h[l + 1])]]
<1> HIDE DEF f
<1>8. h = [l \in 0 .. Len(nodes) |->
            [i \in 1 .. Len(nodes) |->
               <<[pid |-> nodes[i].pid, name |-> DrawnName(i), level |-> l]>> \o
               IF l = Len(nodes) THEN <<>> ELSE InOrder(Children(i), h[l + 1])]]
  BY <1>7
<1>9. print_tree = h
  BY DEF print_tree
<1> HIDE DEF h
<1>10. ASSUME NEW l \in 0 .. L PROVE print_tree[l] = Step(l, print_tree[l + 1])
  BY <1>8, <1>9 DEF Line
<1> DEFINE B == {n \in 0 .. L : print_tree[L - n] \in V}
<1>11. \A n \in 0 .. L : n \in B
  <2>1. 0 \in B
    <3>1. L - 0 = L /\ L \in 0 .. L
      BY <1>1
    <3>2. print_tree[L] \in V
      <4> HIDE DEF Step, V
      <4>1. QED
        BY <1>2, <1>10, <3>1
    <3>3. QED
      BY <1>1, <3>1, <3>2
  <2>2. ASSUME NEW n \in 1 .. L, n - 1 \in B PROVE n \in B
    <3>1. L - n \in 0 .. L /\ L - n + 1 = L - (n - 1) /\ n \in 0 .. L
      BY <1>1
    <3>2. print_tree[L - n + 1] \in V
      BY <2>2, <3>1
    <3>3. print_tree[L - n] \in V
      <4> HIDE DEF Step, V
      <4>1. QED
        BY <1>2, <1>10, <3>1, <3>2
    <3>4. QED
      BY <3>1, <3>3
  <2> HIDE DEF B
  <2>3. QED
    BY <1>1, <2>1, <2>2, UpTo
<1>12. print_tree[level] \in V
  <2>1. L - level \in B /\ L - (L - level) = level
    BY <1>1, <1>11
  <2>2. QED
    BY <2>1
<1>13. ASSUME NEW i \in 1 .. L
       PROVE  print_tree[level][i] = IF level = L THEN <<Line(i, level)>>
                                     ELSE Below(i, level, print_tree[level + 1])
  <2>1. print_tree[level] = Step(level, print_tree[level + 1])
    BY <1>10
  <2>2. print_tree[level][i] = <<Line(i, level)>> \o
          IF level = L THEN <<>> ELSE InOrder(Children(i), print_tree[level + 1])
    BY <2>1
  <2>3. <<Line(i, level)>> \o <<>> = <<Line(i, level)>>
    <3>1. <<Line(i, level)>> \in Seq(Lines)
      BY <1>1, NodesAre
    <3>2. QED
      BY <3>1, ConcatEmptySeq
  <2>4. QED
    BY <2>2, <2>3 DEF Below
<1>14. QED
  BY <1>12, <1>13

\* find_parent returns the first node with that pid, or 0 if there is none.
LEMMA ParentFound ==
  ASSUME NodesType, NEW id
  PROVE  LET p == find_parent(id) IN
         /\ p \in 0 .. Len(nodes)
         /\ p # 0 => nodes[p].pid = id /\ \A m \in 1 .. Len(nodes) : nodes[m].pid = id => p <= m
         /\ p = 0 => \A m \in 1 .. Len(nodes) : nodes[m].pid # id
<1> DEFINE I == {m \in 1 .. Len(nodes) : nodes[m].pid = id}
<1>1. Len(nodes) \in Nat /\ I \in SUBSET Nat
  BY NodesAre
<1>2. find_parent(id) = IF I # {} THEN Min(I) ELSE 0
  BY DEF find_parent, SelectInSeq
<1>3. CASE I # {}
  <2>1. Min(I) \in I /\ \A m \in I : Min(I) <= m
    <3> HIDE DEF I
    <3>1. QED
      BY <1>1, <1>3, MinIs
  <2>2. QED
    BY <1>2, <1>3, <2>1
<1>4. CASE I = {}
  BY <1>1, <1>2, <1>4
<1>5. QED
  BY <1>3, <1>4

\* The nodes from which node j hangs: the one n levels above it, or 0.
ParentOf(j) == find_parent(nodes[j].ppid)
Climbs(up, L) ==
  /\ \A n \in 0 .. L, j \in 1 .. L : up[n][j] \in 0 .. L
  /\ \A j \in 1 .. L : up[0][j] = j
  /\ \A n \in 1 .. L, j \in 1 .. L :
       up[n][j] = IF up[n - 1][j] = 0 THEN 0 ELSE ParentOf(up[n - 1][j])

LEMMA Climbing ==
  ASSUME NodesType, NEW L, L = Len(nodes)
  PROVE  \E up : Climbs(up, L)
<1> DEFINE V == [1 .. L -> 0 .. L]
           a == [j \in 1 .. L |-> j]
           Over(v) == [j \in 1 .. L |-> IF v[j] = 0 THEN 0 ELSE ParentOf(v[j])]
           G == [nv \in (1 .. L) \X V |-> Over(nv[2])]
<1>1. L \in Nat /\ a \in V
  BY NodesAre
<1>2. ASSUME NEW n \in 1 .. L, NEW v \in V PROVE G[<<n, v>>] = Over(v) /\ G[<<n, v>>] \in V
  <2>1. G[<<n, v>>] = Over(v)
    OBVIOUS
  <2>2. \A j \in 1 .. L : Over(v)[j] \in 0 .. L
    BY <1>1, ParentFound DEF ParentOf
  <2>3. Over(v) \in V
    BY <2>2
  <2> HIDE DEF Over, G
  <2>4. QED
    BY <2>1, <2>3
<1>3. PICK up \in [0 .. L -> V] : Iterates(up, a, L, G)
  <2> HIDE DEF V, a, G
  <2>1. QED
    BY <1>1, <1>2, Iteration
<1>4. ASSUME NEW n \in 1 .. L, NEW j \in 1 .. L
      PROVE  up[n][j] = IF up[n - 1][j] = 0 THEN 0 ELSE ParentOf(up[n - 1][j])
  <2>1. n - 1 \in 0 .. L
    BY <1>1
  <2>2. up[n - 1] \in V
    BY <2>1
  <2>3. up[n] = Over(up[n - 1])
    <3> HIDE DEF V, G, Over
    <3>1. QED
      BY <1>2, <1>3, <2>2 DEF Iterates
  <2>4. QED
    BY <2>3
<1>5. \A n \in 0 .. L, j \in 1 .. L : up[n][j] \in 0 .. L
  OBVIOUS
<1>6. \A j \in 1 .. L : up[0][j] = j
  BY <1>3 DEF Iterates
<1>7. QED
  <2> HIDE DEF V, a, G
  <2>1. Climbs(up, L)
    BY <1>4, <1>5, <1>6 DEF Climbs
  <2>2. QED
    BY <2>1

\* What print_tree shows of a node at some level: each node that hangs from it, at the
\* level that is as much deeper as it hangs below the node.
Hangs(up, L, level, i, x) ==
  \E d \in 0 .. L - level, j \in 1 .. L : up[d][j] = i /\ x = Line(j, level + d)

LEMMA TreeLines ==
  ASSUME NodesType, NEW L, L = Len(nodes), NEW up, Climbs(up, L),
         NEW level \in 0 .. L, NEW i \in 1 .. L, NEW x
  PROVE  x \in Range(print_tree[level][i]) <=> Hangs(up, L, level, i, x)
<1>1. L \in Nat
  BY NodesAre
<1> DEFINE B == {n \in 0 .. L : \A k \in 1 .. L :
                   x \in Range(print_tree[L - n][k]) <=> Hangs(up, L, L - n, k, x)}
<1>2. 0 \in B
  <2>1. ASSUME NEW k \in 1 .. L
        PROVE  x \in Range(print_tree[L][k]) <=> Hangs(up, L, L, k, x)
    <3>1. print_tree[L][k] = <<Line(k, L)>>
      <4>1. L \in 0 .. L
        BY <1>1
      <4>2. QED
        BY <4>1, TreeDefined
    <3>2. x \in Range(print_tree[L][k]) <=> x = Line(k, L)
      BY <3>1 DEF Range
    <3>3. Hangs(up, L, L, k, x) <=> \E j \in 1 .. L : up[0][j] = k /\ x = Line(j, L)
      <4>1. L + 0 = L /\ \A d : d \in 0 .. L - L <=> d = 0
        BY <1>1
      <4>2. QED
        BY <4>1 DEF Hangs
    <3>4. QED
      BY <3>2, <3>3 DEF Climbs
  <2>2. L - 0 = L /\ 0 \in 0 .. L
    BY <1>1
  <2>3. QED
    BY <2>1, <2>2
<1>3. ASSUME NEW n \in 1 .. L, n - 1 \in B PROVE n \in B
  <2> DEFINE l == L - n
  <2>1. l \in 0 .. L /\ l # L /\ l + 1 \in 0 .. L /\ L - (n - 1) = l + 1 /\ l \in Nat
    BY <1>1
  <2>2. \A k \in 1 .. L : x \in Range(print_tree[l + 1][k]) <=> Hangs(up, L, l + 1, k, x)
    BY <1>3, <2>1
  <2> HIDE DEF l
  <2>3. ASSUME NEW k \in 1 .. L
        PROVE  x \in Range(print_tree[l][k]) <=> Hangs(up, L, l, k, x)
    <3>1. print_tree[l][k] = Below(k, l, print_tree[l + 1])
      BY <2>1, TreeDefined
    <3>2. print_tree[l + 1] \in Drawings(Lines, L)
      BY <2>1, TreeDefined
    <3>3. InOrder(Children(k), print_tree[l + 1]) \in Seq(Lines)
      BY <1>1, <3>2, InOrderType
    <3>4. <<Line(k, l)>> \in Seq(Lines)
      BY <2>1, NodesAre
    <3>5. Range(print_tree[l][k]) = Range(<<Line(k, l)>>) \cup Range(InOrder(Children(k), print_tree[l + 1]))
      <4>1. print_tree[l][k] = <<Line(k, l)>> \o InOrder(Children(k), print_tree[l + 1])
        BY <3>1 DEF Below
      <4>2. \A s, t \in Seq(Lines) : Range(s \o t) = Range(s) \cup Range(t)
        BY RangeConcatenation
      <4>3. QED
        BY <3>3, <3>4, <4>1, <4>2
    <3>6. x \in Range(<<Line(k, l)>>) <=> x = Line(k, l)
      BY DEF Range
    <3>7. x \in Range(InOrder(Children(k), print_tree[l + 1])) <=>
            \E c \in 1 .. L : c \in Children(k) /\ x \in Range(print_tree[l + 1][c])
      BY <1>1, <3>2, InOrderRange
    <3>8. ASSUME x = Line(k, l) PROVE Hangs(up, L, l, k, x)
      <4>1. 0 \in 0 .. L - l /\ l + 0 = l /\ up[0][k] = k
        BY <1>1, <2>1 DEF Climbs
      <4>2. QED
        BY <3>8, <4>1 DEF Hangs
    <3>9. ASSUME NEW c \in 1 .. L, c \in Children(k), x \in Range(print_tree[l + 1][c])
          PROVE  Hangs(up, L, l, k, x)
      <4>1. PICK d \in 0 .. L - (l + 1), j \in 1 .. L : up[d][j] = c /\ x = Line(j, l + 1 + d)
        BY <2>2, <3>9 DEF Hangs
      <4>2. d + 1 \in 0 .. L - l /\ d + 1 \in 1 .. L /\ d + 1 - 1 = d /\ l + (d + 1) = l + 1 + d
        BY <1>1, <2>1
      <4>3. up[d + 1][j] = ParentOf(c)
        <5>1. c # 0
          BY <1>1
        <5>2. \A m \in 1 .. L : up[m][j] = IF up[m - 1][j] = 0 THEN 0 ELSE ParentOf(up[m - 1][j])
          BY DEF Climbs
        <5>3. up[d + 1][j] = IF up[d + 1 - 1][j] = 0 THEN 0 ELSE ParentOf(up[d + 1 - 1][j])
          BY <4>2, <5>2
        <5>4. QED
          BY <4>1, <4>2, <5>1, <5>3
      <4>4. ParentOf(c) = k
        BY <3>9 DEF Children, ParentOf
      <4>5. QED
        BY <4>1, <4>2, <4>3, <4>4 DEF Hangs
    <3>10. ASSUME Hangs(up, L, l, k, x), x # Line(k, l)
           PROVE  \E c \in 1 .. L : c \in Children(k) /\ x \in Range(print_tree[l + 1][c])
      <4>1. PICK d \in 0 .. L - l, j \in 1 .. L : up[d][j] = k /\ x = Line(j, l + d)
        BY <3>10 DEF Hangs
      <4>2. d # 0
        <5>1. l + 0 = l /\ up[0][j] = j
          BY <2>1 DEF Climbs
        <5>2. QED
          BY <3>10, <4>1, <5>1
      <4>3. d - 1 \in 0 .. L - (l + 1) /\ d \in 1 .. L /\ d - 1 \in 0 .. L /\ l + 1 + (d - 1) = l + d
        BY <1>1, <2>1, <4>2
      <4>4. k # 0 /\ up[d - 1][j] \in 0 .. L
        BY <1>1, <4>3 DEF Climbs
      <4>5. up[d - 1][j] # 0 /\ ParentOf(up[d - 1][j]) = k
        BY <4>1, <4>3, <4>4 DEF Climbs
      <4>6. up[d - 1][j] \in 1 .. L
        BY <1>1, <4>4, <4>5
      <4>7. up[d - 1][j] \in Children(k)
        BY <4>5, <4>6, NodesAre DEF Children, ParentOf
      <4>8. Hangs(up, L, l + 1, up[d - 1][j], x)
        BY <4>1, <4>3 DEF Hangs
      <4>9. QED
        BY <2>2, <4>6, <4>7, <4>8
    <3>11. QED
      BY <3>5, <3>6, <3>7, <3>8, <3>9, <3>10
  <2>4. QED
    BY <2>3 DEF l
<1>4. \A n \in 0 .. L : n \in B
  <2> HIDE DEF B
  <2>1. QED
    BY <1>1, <1>2, <1>3, UpTo
<1>5. L - level \in 0 .. L /\ L - (L - level) = level
  BY <1>1
<1>6. L - level \in B
  BY <1>4, <1>5
<1>7. QED
  BY <1>5, <1>6

Roots == {i \in 1 .. Len(nodes) : nodes[i].ppid = 0}

\* What is drawn: each node that hangs from a root, as deep as it hangs below it.
LEMMA DrawingLines ==
  ASSUME NodesType, NEW L, L = Len(nodes), NEW up, Climbs(up, L)
  PROVE  /\ Drawing \in Seq(Lines) /\ Drawing = InOrder(Roots, print_tree[0])
         /\ print_tree[0] \in Drawings(Lines, L)
         /\ \A x : x \in Range(Drawing) <=>
                     \E d \in 0 .. L, j \in 1 .. L : up[d][j] \in Roots /\ x = Line(j, d)
<1>1. L \in Nat /\ 0 \in 0 .. L /\ DOMAIN nodes = 1 .. L
  BY NodesAre
<1>2. Drawing = InOrder(Roots, print_tree[0])
  <2>1. {i \in DOMAIN nodes : IsRoot(i)} = Roots
    BY <1>1 DEF Roots, IsRoot
  <2>2. QED
    BY <2>1 DEF Drawing
<1>3. print_tree[0] \in Drawings(Lines, L)
  BY <1>1, TreeDefined
<1>4. Drawing \in Seq(Lines)
  BY <1>1, <1>2, <1>3, InOrderType
<1>5. ASSUME NEW x
      PROVE  x \in Range(Drawing) <=>
                     \E d \in 0 .. L, j \in 1 .. L : up[d][j] \in Roots /\ x = Line(j, d)
  <2>1. x \in Range(Drawing) <=> \E i \in 1 .. L : i \in Roots /\ x \in Range(print_tree[0][i])
    BY <1>1, <1>2, <1>3, InOrderRange
  <2>2. \A i \in 1 .. L : x \in Range(print_tree[0][i]) <=> Hangs(up, L, 0, i, x)
    BY <1>1, TreeLines
  <2>3. \A i \in 1 .. L : Hangs(up, L, 0, i, x) <=>
                            \E d \in 0 .. L, j \in 1 .. L : up[d][j] = i /\ x = Line(j, d)
    <3>1. L - 0 = L /\ \A d \in 0 .. L : 0 + d = d
      BY <1>1
    <3>2. QED
      BY <3>1 DEF Hangs
  <2>4. Roots \subseteq 1 .. L
    BY DEF Roots
  <2>5. ASSUME x \in Range(Drawing)
        PROVE  \E d \in 0 .. L, j \in 1 .. L : up[d][j] \in Roots /\ x = Line(j, d)
    <3>1. PICK i \in 1 .. L : i \in Roots /\ x \in Range(print_tree[0][i])
      BY <2>1, <2>5
    <3>2. PICK d \in 0 .. L, j \in 1 .. L : up[d][j] = i /\ x = Line(j, d)
      BY <2>2, <2>3, <3>1
    <3>3. QED
      BY <3>1, <3>2
  <2>6. ASSUME NEW d \in 0 .. L, NEW j \in 1 .. L, up[d][j] \in Roots, x = Line(j, d)
        PROVE  x \in Range(Drawing)
    <3>1. up[d][j] \in 1 .. L
      BY <2>4, <2>6
    <3>2. Hangs(up, L, 0, up[d][j], x)
      BY <2>3, <2>6, <3>1
    <3>3. QED
      BY <2>1, <2>2, <2>6, <3>1, <3>2
  <2>7. QED
    BY <2>5, <2>6
<1>6. QED
  BY <1>2, <1>3, <1>4, <1>5

Distinct == \A m, n \in 1 .. Len(nodes) : nodes[m].pid = nodes[n].pid => m = n

LEMMA SameLine ==
  ASSUME NodesType, Distinct, NEW i \in 1 .. Len(nodes), NEW j \in 1 .. Len(nodes), NEW l, NEW m,
         Line(i, l) = Line(j, m)
  PROVE  i = j /\ l = m
<1>1. Line(i, l).pid = Line(j, m).pid /\ Line(i, l).level = Line(j, m).level
  OBVIOUS
<1>2. Line(i, l).pid = nodes[i].pid /\ Line(j, m).pid = nodes[j].pid
  BY DEF Line
<1>3. Line(i, l).level = l /\ Line(j, m).level = m
  BY DEF Line
<1>4. QED
  BY <1>1, <1>2, <1>3 DEF Distinct

\* No line is drawn twice.
LEMMA TreeOnce ==
  ASSUME NodesType, Distinct, NEW L, L = Len(nodes), NEW level \in 0 .. L, NEW i \in 1 .. L
  PROVE  IsInjective(print_tree[level][i])
<1>1. L \in Nat
  BY NodesAre
<1>2. PICK up : Climbs(up, L)
  BY Climbing
<1> DEFINE B == {n \in 0 .. L : \A k \in 1 .. L : IsInjective(print_tree[L - n][k])}
<1>3. 0 \in B
  <2>1. L - 0 = L /\ 0 \in 0 .. L /\ L \in 0 .. L
    BY <1>1
  <2>2. ASSUME NEW k \in 1 .. L PROVE IsInjective(print_tree[L][k])
    <3>1. print_tree[L][k] = <<Line(k, L)>>
      BY <2>1, TreeDefined
    <3>2. QED
      BY <3>1 DEF IsInjective
  <2>3. QED
    BY <2>1, <2>2
<1>4. ASSUME NEW n \in 1 .. L, n - 1 \in B PROVE n \in B
  <2> DEFINE l == L - n
  <2>1. l \in 0 .. L /\ l # L /\ l + 1 \in 0 .. L /\ L - (n - 1) = l + 1 /\ l \in Nat
    BY <1>1
  <2>2. \A k \in 1 .. L : IsInjective(print_tree[l + 1][k])
    BY <1>4, <2>1
  <2> HIDE DEF l
  <2>3. ASSUME NEW k \in 1 .. L
        PROVE  IsInjective(print_tree[l][k])
    <3>1. print_tree[l][k] = <<Line(k, l)>> \o InOrder(Children(k), print_tree[l + 1])
      BY <2>1, TreeDefined DEF Below
    <3>2. print_tree[l + 1] \in Drawings(Lines, L)
      BY <2>1, TreeDefined
    <3>3. InOrder(Children(k), print_tree[l + 1]) \in Seq(Lines)
      BY <1>1, <3>2, InOrderType
    <3>4. <<Line(k, l)>> \in Seq(Lines)
      BY <2>1, NodesAre
    <3>5. ASSUME NEW c \in 1 .. L, NEW x \in Range(print_tree[l + 1][c])
          PROVE  \E d \in 0 .. L - (l + 1), j \in 1 .. L : up[d][j] = c /\ x = Line(j, l + 1 + d)
      <4>1. Hangs(up, L, l + 1, c, x)
        BY <1>2, <2>1, <3>5, TreeLines
      <4>2. QED
        BY <4>1 DEF Hangs
    <3>6. ASSUME NEW c \in 1 .. L, NEW e \in 1 .. L, c # e
          PROVE  Range(print_tree[l + 1][c]) \cap Range(print_tree[l + 1][e]) = {}
      <4> SUFFICES ASSUME NEW x \in Range(print_tree[l + 1][c]), x \in Range(print_tree[l + 1][e])
                   PROVE  FALSE
        OBVIOUS
      <4>1. PICK d \in 0 .. L - (l + 1), j \in 1 .. L : up[d][j] = c /\ x = Line(j, l + 1 + d)
        BY <3>5
      <4>2. PICK f \in 0 .. L - (l + 1), m \in 1 .. L : up[f][m] = e /\ x = Line(m, l + 1 + f)
        BY <3>5
      <4>3. j = m /\ l + 1 + d = l + 1 + f
        BY <4>1, <4>2, SameLine
      <4>4. d = f
        BY <1>1, <2>1, <4>3
      <4>5. QED
        BY <3>6, <4>1, <4>2, <4>3, <4>4
    <3>7. IsInjective(InOrder(Children(k), print_tree[l + 1]))
      BY <1>1, <2>2, <3>2, <3>6, InOrderOnce
    <3>8. Range(<<Line(k, l)>>) \cap Range(InOrder(Children(k), print_tree[l + 1])) = {}
      <4> SUFFICES ASSUME Line(k, l) \in Range(InOrder(Children(k), print_tree[l + 1])) PROVE FALSE
        BY DEF Range
      <4>1. PICK c \in 1 .. L : Line(k, l) \in Range(print_tree[l + 1][c])
        BY <1>1, <3>2, InOrderRange
      <4>2. PICK d \in 0 .. L - (l + 1), j \in 1 .. L :
              up[d][j] = c /\ Line(k, l) = Line(j, l + 1 + d)
        BY <3>5, <4>1
      <4>3. l = l + 1 + d
        BY <4>2, SameLine
      <4>4. QED
        BY <2>1, <4>3
    <3>9. IsInjective(<<Line(k, l)>>)
      BY DEF IsInjective
    <3>10. QED
      BY <3>1, <3>3, <3>4, <3>7, <3>8, <3>9, JoinedOnce
  <2>4. QED
    BY <2>3 DEF l
<1>5. \A n \in 0 .. L : n \in B
  <2> HIDE DEF B
  <2>1. QED
    BY <1>1, <1>3, <1>4, UpTo
<1>6. L - level \in 0 .. L /\ L - (L - level) = level
  BY <1>1
<1>7. L - level \in B
  BY <1>5, <1>6
<1>8. QED
  BY <1>6, <1>7

LEMMA DrawingOnce ==
  ASSUME NodesType, Distinct
  PROVE  IsInjective(Drawing)
<1> DEFINE L == Len(nodes)
<1>1. L \in Nat /\ 0 \in 0 .. L
  BY NodesAre
<1>2. PICK up : Climbs(up, L)
  BY Climbing
<1>7. L = Len(nodes)
  OBVIOUS
<1> HIDE DEF L
<1>3. Drawing = InOrder(Roots, print_tree[0]) /\ print_tree[0] \in Drawings(Lines, L)
  BY <1>2, DrawingLines DEF L
<1>4. ASSUME NEW c \in 1 .. L, NEW x \in Range(print_tree[0][c])
      PROVE  \E d \in 0 .. L, j \in 1 .. L : up[d][j] = c /\ x = Line(j, d)
  <2>1. Hangs(up, L, 0, c, x)
    BY <1>1, <1>2, <1>4, TreeLines DEF L
  <2>2. L - 0 = L /\ \A d \in 0 .. L : 0 + d = d
    BY <1>1
  <2>3. QED
    BY <2>1, <2>2 DEF Hangs
<1>5. ASSUME NEW c \in 1 .. L, NEW e \in 1 .. L, c # e
      PROVE  Range(print_tree[0][c]) \cap Range(print_tree[0][e]) = {}
  <2> SUFFICES ASSUME NEW x \in Range(print_tree[0][c]), x \in Range(print_tree[0][e])
               PROVE  FALSE
    OBVIOUS
  <2>1. PICK d \in 0 .. L, j \in 1 .. L : up[d][j] = c /\ x = Line(j, d)
    BY <1>4
  <2>2. PICK f \in 0 .. L, m \in 1 .. L : up[f][m] = e /\ x = Line(m, f)
    BY <1>4
  <2>3. j = m /\ d = f
    <3>1. j \in 1 .. Len(nodes) /\ m \in 1 .. Len(nodes) /\ Line(j, d) = Line(m, f)
      BY <1>7, <2>1, <2>2
    <3>2. QED
      BY <3>1, SameLine
  <2>4. QED
    BY <1>5, <2>1, <2>2, <2>3
<1>6. \A c \in 1 .. L : IsInjective(print_tree[0][c])
  BY <1>1, TreeOnce DEF L
<1>8. QED
  BY <1>1, <1>3, <1>5, <1>6, <1>7, InOrderOnce

\* In a part of the tree that begins at some level, below node i, every line is at that
\* level or deeper; those at that level are i's children; and a deeper line comes after
\* that of its parent, with no line of that level between them.
ParentLine(x, y) == \E n \in 1 .. Len(nodes) : nodes[n].pid = y.pid /\ nodes[n].ppid = x.pid
HasAbove(s, a) ==
  \E q \in 1 .. a - 1 : /\ s[q].level = s[a].level - 1 /\ ParentLine(s[q], s[a])
                        /\ \A k \in q + 1 .. a - 1 : s[k].level # s[a].level - 1
Branches(level, P) ==
  {s \in Seq(Lines) : \A a \in 1 .. Len(s) :
     /\ s[a].level >= level
     /\ s[a].level = level => \E n \in 1 .. Len(nodes) : nodes[n].pid = s[a].pid /\ nodes[n].ppid = P
     /\ s[a].level > level => HasAbove(s, a)}

LEMMA BranchesJoin ==
  ASSUME NEW level \in Nat, NEW P, NEW s \in Branches(level, P), NEW t \in Branches(level, P)
  PROVE  s \o t \in Branches(level, P)
<1> DEFINE u == s \o t
           N == Len(s)
<1>1. s \in Seq(Lines) /\ t \in Seq(Lines)
  BY DEF Branches
<1>2. /\ u \in Seq(Lines) /\ Len(u) = N + Len(t) /\ N \in Nat /\ Len(t) \in Nat
      /\ \A a \in 1 .. N : u[a] = s[a]
      /\ \A a \in 1 .. Len(t) : u[N + a] = t[a]
  BY <1>1, Joined
<1> HIDE DEF u, N
<1>3. ASSUME NEW a \in 1 .. Len(u)
      PROVE  /\ u[a].level >= level
             /\ u[a].level = level => \E n \in 1 .. Len(nodes) : nodes[n].pid = u[a].pid /\ nodes[n].ppid = P
             /\ u[a].level > level => HasAbove(u, a)
  <2>1. CASE a <= N
    <3>1. a \in 1 .. N /\ u[a] = s[a]
      BY <1>2, <2>1
    <3>2. ASSUME u[a].level > level PROVE HasAbove(u, a)
      <4>1. PICK q \in 1 .. a - 1 : /\ s[q].level = s[a].level - 1 /\ ParentLine(s[q], s[a])
                                    /\ \A k \in q + 1 .. a - 1 : s[k].level # s[a].level - 1
        BY <3>1, <3>2 DEF Branches, HasAbove, N
      <4>2. \A k \in 1 .. a : u[k] = s[k]
        BY <1>2, <3>1
      <4>3. u[q] = s[q] /\ \A k \in q + 1 .. a - 1 : u[k] = s[k]
        BY <4>2
      <4>4. QED
        BY <3>1, <4>1, <4>3 DEF HasAbove
    <3>3. QED
      BY <3>1, <3>2 DEF Branches, N
  <2>2. CASE a > N
    <3> DEFINE b == a - N
    <3>1. b \in 1 .. Len(t) /\ N + b = a
      BY <1>2, <2>2
    <3>2. u[a] = t[b]
      BY <1>2, <3>1
    <3>3. ASSUME u[a].level > level PROVE HasAbove(u, a)
      <4>1. PICK q \in 1 .. b - 1 : /\ t[q].level = t[b].level - 1 /\ ParentLine(t[q], t[b])
                                    /\ \A k \in q + 1 .. b - 1 : t[k].level # t[b].level - 1
        <5> HIDE DEF b
        <5>1. QED
          BY <3>1, <3>2, <3>3 DEF Branches, HasAbove
      <4>2. N + q \in 1 .. a - 1 /\ u[N + q] = t[q]
        <5> HIDE DEF b
        <5>1. q \in Int /\ b \in Int /\ 1 <= q /\ q <= b - 1 /\ b <= Len(t) /\ N + b = a
          BY <1>2, <3>1
        <5>2. q \in 1 .. Len(t)
          BY <1>2, <5>1
        <5>3. QED
          BY <1>2, <5>1, <5>2
      <4>3. ASSUME NEW k \in N + q + 1 .. a - 1 PROVE u[k].level # u[a].level - 1
        <5>1. k - N \in q + 1 .. b - 1 /\ k - N \in 1 .. Len(t) /\ N + (k - N) = k
          BY <1>2, <3>1
        <5>2. u[k] = t[k - N]
          BY <1>2, <5>1
        <5>3. QED
          BY <3>2, <4>1, <5>1, <5>2
      <4>4. QED
        BY <3>2, <4>1, <4>2, <4>3 DEF HasAbove
    <3>4. QED
      <4> HIDE DEF b
      <4>1. QED
        BY <3>1, <3>2, <3>3 DEF Branches
  <2>3. QED
    BY <1>2, <2>1, <2>2
<1>4. QED
  BY <1>2, <1>3 DEF Branches, u

\* A node and below it a part of the tree that begins with its children.
LEMMA BranchesBelow ==
  ASSUME NodesType, NEW level \in Nat, NEW i \in 1 .. Len(nodes), NEW s \in Branches(level + 1, nodes[i].pid)
  PROVE  <<Line(i, level)>> \o s \in Branches(level, nodes[i].ppid)
<1> DEFINE r == <<Line(i, level)>>
           u == r \o s
<1>1. s \in Seq(Lines) /\ r \in Seq(Lines) /\ Len(r) = 1 /\ r[1] = Line(i, level)
  BY NodesAre DEF Branches
<1>2. /\ u \in Seq(Lines) /\ Len(u) = 1 + Len(s) /\ Len(s) \in Nat /\ u[1] = Line(i, level)
      /\ \A a \in 1 .. Len(s) : u[1 + a] = s[a]
  BY <1>1, Joined
<1> HIDE DEF u, r
<1>3. u[1].level = level /\ u[1].pid = nodes[i].pid /\ nodes[i].pid \in Nat \ {0}
  BY <1>2, NodesAre DEF Line
<1>4. ASSUME NEW a \in 1 .. Len(u)
      PROVE  /\ u[a].level >= level
             /\ u[a].level = level => \E n \in 1 .. Len(nodes) : nodes[n].pid = u[a].pid /\ nodes[n].ppid = nodes[i].ppid
             /\ u[a].level > level => HasAbove(u, a)
  <2>1. CASE a = 1
    <3>1. u[a].level = level /\ u[a].pid = nodes[i].pid
      BY <1>3, <2>1
    <3>2. i \in 1 .. Len(nodes) /\ nodes[i].ppid = nodes[i].ppid
      OBVIOUS
    <3>3. QED
      BY <3>1, <3>2
  <2>2. CASE a # 1
    <3> DEFINE b == a - 1
    <3>1. b \in 1 .. Len(s) /\ 1 + b = a
      BY <1>2, <2>2
    <3>2. u[a] = s[b]
      BY <1>2, <3>1
    <3> HIDE DEF b
    <3>3. s[b].level >= level + 1 /\ s[b].level \in Nat
      <4>1. s[b] \in Lines
        BY <1>1, <3>1
      <4>2. QED
        BY <3>1, <4>1 DEF Branches, Lines
    <3>4. \A k \in 2 .. Len(u) : k - 1 \in 1 .. Len(s) /\ u[k] = s[k - 1]
      <4>1. \A k \in 2 .. Len(u) : k - 1 \in 1 .. Len(s) /\ 1 + (k - 1) = k
        BY <1>2
      <4>2. QED
        BY <1>2, <4>1
    <3>5. CASE s[b].level = level + 1
      <4>1. ParentLine(u[1], u[a])
        BY <1>3, <3>1, <3>2, <3>5 DEF Branches, ParentLine
      <4>2. ASSUME NEW k \in 2 .. a - 1 PROVE u[k].level # level
        <5>1. k \in 2 .. Len(u)
          BY <1>2
        <5>2. s[k - 1].level >= level + 1 /\ u[k] = s[k - 1]
          BY <3>4, <5>1 DEF Branches
        <5>3. s[k - 1] \in Lines
          BY <1>1, <3>4, <5>1
        <5>4. QED
          BY <5>2, <5>3 DEF Lines
      <4>3. u[1].level = u[a].level - 1 /\ 1 \in 1 .. a - 1 /\ u[a].level - 1 = level
        <5>1. u[a].level = level + 1 /\ u[a].level - 1 = level
          BY <3>2, <3>5
        <5>2. u[1].level = level
          BY <1>3
        <5>3. 1 \in 1 .. a - 1
          BY <3>1
        <5>4. QED
          BY <5>1, <5>2, <5>3
      <4>4. HasAbove(u, a)
        BY <4>1, <4>2, <4>3 DEF HasAbove
      <4>5. QED
        BY <3>2, <3>3, <4>4
    <3>6. CASE s[b].level > level + 1
      <4>1. PICK q \in 1 .. b - 1 : /\ s[q].level = s[b].level - 1 /\ ParentLine(s[q], s[b])
                                    /\ \A k \in q + 1 .. b - 1 : s[k].level # s[b].level - 1
        BY <3>1, <3>6 DEF Branches, HasAbove
      <4>2. 1 + q \in 1 .. a - 1 /\ u[1 + q] = s[q]
        <5>1. q \in 1 .. Len(s) /\ 1 + q \in 1 .. a - 1
          BY <1>2, <3>1
        <5>2. QED
          BY <1>2, <5>1
      <4>3. ASSUME NEW k \in 1 + q + 1 .. a - 1 PROVE u[k].level # u[a].level - 1
        <5>1. k \in 2 .. Len(u) /\ k - 1 \in q + 1 .. b - 1
          BY <1>2, <3>1
        <5>2. QED
          BY <3>2, <3>4, <4>1, <5>1
      <4>4. HasAbove(u, a)
        BY <3>2, <4>1, <4>2, <4>3 DEF HasAbove
      <4>5. QED
        BY <3>2, <3>3, <4>4
    <3>7. QED
      BY <3>3, <3>5, <3>6
  <2>3. QED
    BY <2>1, <2>2
<1>5. QED
  BY <1>2, <1>4 DEF Branches, u, r

LEMMA TreeBranches ==
  ASSUME NodesType, NEW L, L = Len(nodes), NEW level \in 0 .. L, NEW i \in 1 .. L
  PROVE  print_tree[level][i] \in Branches(level, nodes[i].ppid)
<1>1. L \in Nat
  BY NodesAre
<1> DEFINE B == {n \in 0 .. L : \A k \in 1 .. L : print_tree[L - n][k] \in Branches(L - n, nodes[k].ppid)}
<1>2. \A l, P : <<>> \in Branches(l, P)
  BY DEF Branches
<1>3. 0 \in B
  <2>1. L - 0 = L /\ 0 \in 0 .. L /\ L \in 0 .. L
    BY <1>1
  <2>2. ASSUME NEW k \in 1 .. L PROVE print_tree[L][k] \in Branches(L, nodes[k].ppid)
    <3>1. print_tree[L][k] = <<Line(k, L)>>
      BY <2>1, TreeDefined
    <3>2. <<Line(k, L)>> \o <<>> = <<Line(k, L)>>
      <4>1. <<Line(k, L)>> \in Seq(Lines)
        BY <1>1, NodesAre
      <4>2. QED
        BY <4>1, ConcatEmptySeq
    <3>3. <<Line(k, L)>> \o <<>> \in Branches(L, nodes[k].ppid)
      BY <1>1, <1>2, BranchesBelow
    <3>4. QED
      BY <3>1, <3>2, <3>3
  <2>3. QED
    BY <2>1, <2>2
<1>4. ASSUME NEW n \in 1 .. L, n - 1 \in B PROVE n \in B
  <2> DEFINE l == L - n
  <2>1. l \in 0 .. L /\ l # L /\ l + 1 \in 0 .. L /\ L - (n - 1) = l + 1 /\ l \in Nat
    BY <1>1
  <2>2. \A k \in 1 .. L : print_tree[l + 1][k] \in Branches(l + 1, nodes[k].ppid)
    BY <1>4, <2>1
  <2> HIDE DEF l
  <2>3. ASSUME NEW k \in 1 .. L
        PROVE  print_tree[l][k] \in Branches(l, nodes[k].ppid)
    <3> DEFINE C == Branches(l + 1, nodes[k].pid)
    <3>1. print_tree[l][k] = <<Line(k, l)>> \o InOrder(Children(k), print_tree[l + 1])
      BY <2>1, TreeDefined DEF Below
    <3>2. print_tree[l + 1] \in Drawings(Lines, L)
      BY <2>1, TreeDefined
    <3>3. \A c \in 1 .. L : c \in Children(k) => print_tree[l + 1][c] \in C
      <4> SUFFICES ASSUME NEW c \in 1 .. L, c \in Children(k) PROVE print_tree[l + 1][c] \in C
        OBVIOUS
      <4>1. find_parent(nodes[c].ppid) = k /\ k # 0
        BY <1>1 DEF Children
      <4>2. nodes[c].ppid = nodes[k].pid
        BY <4>1, ParentFound
      <4>3. QED
        BY <2>2, <4>2
    <3>4. \A s, t \in C : s \o t \in C
      BY <2>1, BranchesJoin
    <3>5. C \in SUBSET Seq(Lines) /\ <<>> \in C
      BY <1>2 DEF Branches
    <3> HIDE DEF C
    <3>6. InOrder(Children(k), print_tree[l + 1]) \in C
      BY <1>1, <3>2, <3>3, <3>4, <3>5, InOrderKeeps
    <3>7. QED
      BY <2>1, <3>1, <3>6, BranchesBelow DEF C
  <2>4. QED
    BY <2>3 DEF l
<1>5. \A n \in 0 .. L : n \in B
  <2> HIDE DEF B
  <2>1. QED
    BY <1>1, <1>3, <1>4, UpTo
<1>6. L - level \in 0 .. L /\ L - (L - level) = level
  BY <1>1
<1>7. L - level \in B
  BY <1>5, <1>6
<1>8. QED
  BY <1>6, <1>7

\* Every deeper line of the drawing is below that of its parent.
LEMMA DrawingBelow ==
  ASSUME NodesType
  PROVE  \A a \in 1 .. Len(Drawing) : Drawing[a].level > 0 => HasAbove(Drawing, a)
<1> DEFINE L == Len(nodes)
           C == Branches(0, 0)
<1>1. L \in Nat /\ 0 \in 0 .. L /\ L = Len(nodes)
  BY NodesAre
<1>2. PICK up : Climbs(up, L)
  BY Climbing
<1> HIDE DEF L
<1>3. Drawing = InOrder(Roots, print_tree[0]) /\ print_tree[0] \in Drawings(Lines, L)
  BY <1>1, <1>2, DrawingLines
<1>4. \A i \in 1 .. L : i \in Roots => print_tree[0][i] \in C
  BY <1>1, TreeBranches DEF Roots
<1>5. \A s, t \in C : s \o t \in C
  BY BranchesJoin
<1>6. C \in SUBSET Seq(Lines) /\ <<>> \in C
  BY DEF Branches
<1> HIDE DEF C
<1>7. InOrder(Roots, print_tree[0]) \in C
  BY <1>1, <1>3, <1>4, <1>5, <1>6, InOrderKeeps
<1>8. QED
  BY <1>3, <1>7 DEF C, Branches

\* If every node is a root or comes after its parent, then every node is drawn.
Ordered ==
  \A n \in 1 .. Len(nodes) :
    nodes[n].ppid = 0 \/ \E m \in 1 .. n - 1 : nodes[m].pid = nodes[n].ppid

LEMMA AllHang ==
  ASSUME NodesType, Ordered, NEW L, L = Len(nodes), NEW up, Climbs(up, L), NEW j \in 1 .. L
  PROVE  \E d \in 0 .. L : up[d][j] \in Roots
<1>1. L \in Nat /\ j \in Nat
  BY NodesAre
<1> DEFINE Rooted(n) == \E e \in 0 .. n : up[e][j] \in Roots
           B == {n \in 0 .. L : Rooted(n) \/ up[n][j] \in 1 .. j - n}
<1>2. 0 \in B
  <2>1. up[0][j] = j /\ j \in 1 .. j - 0 /\ 0 \in 0 .. L
    BY <1>1 DEF Climbs
  <2>2. QED
    BY <2>1
<1>3. ASSUME NEW n \in 1 .. L, n - 1 \in B PROVE n \in B
  <2>1. n \in 0 .. L /\ n - 1 \in 0 .. L /\ n - 1 \in 0 .. n
    BY <1>1
  <2>2. CASE Rooted(n - 1)
    <3>1. PICK e \in 0 .. n - 1 : up[e][j] \in Roots
      BY <2>2
    <3>2. e \in 0 .. n
      BY <1>1
    <3>3. QED
      BY <2>1, <3>1, <3>2
  <2>3. CASE up[n - 1][j] \in 1 .. j - (n - 1)
    <3> DEFINE c == up[n - 1][j]
    <3>1. c \in 1 .. j - (n - 1) /\ c \in 1 .. L /\ c # 0
      BY <1>1, <2>3
    <3>2. up[n][j] = ParentOf(c)
      BY <3>1 DEF Climbs
    <3> HIDE DEF c
    <3>3. CASE nodes[c].ppid = 0
      <4>1. c \in Roots
        BY <3>1, <3>3 DEF Roots
      <4>2. QED
        BY <2>1, <4>1 DEF c
    <3>4. CASE nodes[c].ppid # 0
      <4>1. PICK m \in 1 .. c - 1 : nodes[m].pid = nodes[c].ppid
        BY <3>1, <3>4 DEF Ordered
      <4>2. m \in 1 .. L
        BY <1>1, <3>1
      <4>3. ParentOf(c) \in 0 .. L /\ ParentOf(c) # 0 /\ ParentOf(c) <= m
        BY <4>1, <4>2, ParentFound DEF ParentOf
      <4>4. ParentOf(c) \in 1 .. j - n
        BY <1>1, <3>1, <4>1, <4>2, <4>3
      <4>5. QED
        BY <2>1, <3>2, <4>4
    <3>5. QED
      BY <3>3, <3>4
  <2>4. QED
    BY <1>3, <2>2, <2>3
<1>4. \A n \in 0 .. L : n \in B
  <2> HIDE DEF B
  <2>1. QED
    BY <1>1, <1>2, <1>3, UpTo
<1>5. j \in B /\ j \in 0 .. L
  BY <1>1, <1>4
<1>6. Rooted(j)
  <2>1. ~(up[j][j] \in 1 .. j - j)
    BY <1>1
  <2>2. QED
    BY <1>5, <2>1
<1>7. PICK e \in 0 .. j : up[e][j] \in Roots
  BY <1>6
<1>8. e \in 0 .. L
  BY <1>1
<1>9. QED
  BY <1>7, <1>8

\* Nothing is above a root, so that a node hangs from roots at one level only.
LEMMA OneLevel ==
  ASSUME NodesType, NEW L, L = Len(nodes), NEW up, Climbs(up, L), NEW j \in 1 .. L,
         NEW d \in 0 .. L, up[d][j] \in Roots, NEW e \in 0 .. L, up[e][j] \in Roots
  PROVE  ~(d < e)
<1>1. L \in Nat
  BY NodesAre
<1> SUFFICES ASSUME d < e PROVE FALSE
  OBVIOUS
<1> DEFINE B == {n \in 0 .. L : n > d => up[n][j] = 0}
<1>2. 0 \in B
  BY <1>1
<1>3. ASSUME NEW n \in 1 .. L, n - 1 \in B PROVE n \in B
  <2>1. n \in 0 .. L /\ n - 1 \in 0 .. L
    BY <1>1
  <2>2. up[n][j] = IF up[n - 1][j] = 0 THEN 0 ELSE ParentOf(up[n - 1][j])
    BY DEF Climbs
  <2>3. CASE n - 1 > d
    <3>1. up[n - 1][j] = 0
      BY <1>3, <2>3
    <3>2. up[n][j] = 0
      BY <2>2, <3>1
    <3>3. QED
      BY <2>1, <3>2
  <2>4. CASE n - 1 = d
    <3>1. nodes[up[n - 1][j]].ppid = 0
      BY <2>4 DEF Roots
    <3>2. \A m \in 1 .. Len(nodes) : nodes[m].pid # 0
      BY NodesAre
    <3>3. find_parent(0) = 0
      BY <1>1, <3>2, ParentFound
    <3>4. up[n][j] = 0
      BY <2>2, <3>1, <3>3 DEF ParentOf
    <3>5. QED
      BY <2>1, <3>4
  <2>5. CASE n - 1 < d
    <3>1. ~(n > d)
      BY <1>1, <2>5
    <3>2. QED
      BY <2>1, <3>1
  <2>6. QED
    BY <1>1, <2>3, <2>4, <2>5
<1>4. \A n \in 0 .. L : n \in B
  <2> HIDE DEF B
  <2>1. QED
    BY <1>1, <1>2, <1>3, UpTo
<1>5. up[e][j] = 0
  BY <1>1, <1>4
<1>6. QED
  BY <1>1, <1>5 DEF Roots

\* No process is drawn twice.
LEMMA DrawingPids ==
  ASSUME NodesType, Distinct, NEW a \in 1 .. Len(Drawing), NEW b \in 1 .. Len(Drawing),
         Drawing[a].pid = Drawing[b].pid
  PROVE  a = b
<1> DEFINE L == Len(nodes)
<1>1. L = Len(nodes) /\ L \in Nat
  BY NodesAre
<1> HIDE DEF L
<1>2. PICK up : Climbs(up, L)
  BY <1>1, Climbing
<1>3. /\ Drawing \in Seq(Lines)
      /\ \A x : x \in Range(Drawing) <=>
                  \E d \in 0 .. L, j \in 1 .. L : up[d][j] \in Roots /\ x = Line(j, d)
  BY <1>1, <1>2, DrawingLines
<1>4. a \in DOMAIN Drawing /\ b \in DOMAIN Drawing
  BY <1>3
<1>5. Drawing[a] \in Range(Drawing) /\ Drawing[b] \in Range(Drawing)
  BY <1>4 DEF Range
<1>6. PICK d \in 0 .. L, i \in 1 .. L : up[d][i] \in Roots /\ Drawing[a] = Line(i, d)
  BY <1>3, <1>5
<1>7. PICK e \in 0 .. L, j \in 1 .. L : up[e][j] \in Roots /\ Drawing[b] = Line(j, e)
  BY <1>3, <1>5
<1>8. i = j
  <2>1. Line(i, d).pid = nodes[i].pid /\ Line(j, e).pid = nodes[j].pid
    BY DEF Line
  <2>2. QED
    BY <1>1, <1>6, <1>7, <2>1 DEF Distinct
<1>9. d = e
  <2>1. ~(d < e)
    BY <1>1, <1>2, <1>6, <1>7, <1>8, OneLevel
  <2>2. ~(e < d)
    BY <1>1, <1>2, <1>6, <1>7, <1>8, OneLevel
  <2>3. QED
    BY <1>1, <2>1, <2>2
<1>10. IsInjective(Drawing)
  BY DrawingOnce
<1>11. QED
  BY <1>4, <1>6, <1>7, <1>8, <1>9, <1>10 DEF IsInjective

\* As many lines are drawn as there are nodes.
LEMMA DrawingWhole ==
  ASSUME NodesType, Distinct, Ordered
  PROVE  Len(Drawing) = Len(nodes)
<1> DEFINE L == Len(nodes)
           M == Len(Drawing)
<1>1. L = Len(nodes) /\ L \in Nat /\ 1 \in Int /\ L \in Int
  BY NodesAre
<1>2. PICK up : Climbs(up, L)
  BY <1>1, Climbing
<1>3. /\ Drawing \in Seq(Lines)
      /\ \A x : x \in Range(Drawing) <=>
                  \E d \in 0 .. L, j \in 1 .. L : up[d][j] \in Roots /\ x = Line(j, d)
  <2> HIDE DEF L
  <2>1. QED
    BY <1>1, <1>2, DrawingLines
<1>4. M \in Nat /\ M \in Int /\ DOMAIN Drawing = 1 .. M
  BY <1>3
<1>5. Len(nodes) = L /\ Len(Drawing) = M
  OBVIOUS
<1> HIDE DEF L, M
<1>6. \A a \in 1 .. M : \E i \in 1 .. L : Drawing[a].pid = nodes[i].pid
  <2> SUFFICES ASSUME NEW a \in 1 .. M PROVE \E i \in 1 .. L : Drawing[a].pid = nodes[i].pid
    OBVIOUS
  <2>1. Drawing[a] \in Range(Drawing)
    BY <1>4 DEF Range
  <2>2. PICK d \in 0 .. L, i \in 1 .. L : up[d][i] \in Roots /\ Drawing[a] = Line(i, d)
    BY <1>3, <2>1
  <2>3. QED
    BY <2>2 DEF Line
<1>7. \A i \in 1 .. L : \E a \in 1 .. M : Drawing[a].pid = nodes[i].pid
  <2> SUFFICES ASSUME NEW i \in 1 .. L PROVE \E a \in 1 .. M : Drawing[a].pid = nodes[i].pid
    OBVIOUS
  <2>1. PICK d \in 0 .. L : up[d][i] \in Roots
    BY <1>1, <1>2, AllHang
  <2>2. Line(i, d) \in Range(Drawing)
    BY <1>3, <2>1
  <2>3. PICK a \in 1 .. M : Drawing[a] = Line(i, d)
    BY <1>4, <2>2 DEF Range
  <2>4. QED
    BY <2>3 DEF Line
<1> DEFINE node == [a \in 1 .. M |-> CHOOSE i \in 1 .. L : Drawing[a].pid = nodes[i].pid]
<1>8. \A a \in 1 .. M : node[a] \in 1 .. L /\ Drawing[a].pid = nodes[node[a]].pid
  BY <1>6
<1>9. node \in [1 .. M -> 1 .. L]
  BY <1>8
<1> HIDE DEF node
<1>10. IsInjective(node)
  <2> SUFFICES ASSUME NEW a \in 1 .. M, NEW b \in 1 .. M, node[a] = node[b] PROVE a = b
    BY <1>9 DEF IsInjective
  <2>1. Drawing[a].pid = Drawing[b].pid
    BY <1>8
  <2>2. QED
    BY <1>5, <2>1, DrawingPids
<1>11. ASSUME NEW i \in 1 .. L PROVE \E a \in 1 .. M : node[a] = i
  <2>1. PICK a \in 1 .. M : Drawing[a].pid = nodes[i].pid
    BY <1>7
  <2>2. node[a] = i
    BY <1>5, <1>8, <2>1 DEF Distinct
  <2>3. QED
    BY <2>2
<1>12. node \in Bijection(1 .. M, 1 .. L)
  BY <1>9, <1>10, <1>11 DEF Bijection, Injection, Surjection
<1>13. IsFiniteSet(1 .. M) /\ Cardinality(1 .. M) = M /\ Cardinality(1 .. L) = L
  <2>1. \A n \in Nat : IsFiniteSet(1 .. n) /\ Cardinality(1 .. n) = IF 1 > n THEN 0 ELSE n - 1 + 1
    BY FS_Interval
  <2>2. \A n \in Nat : (IF 1 > n THEN 0 ELSE n - 1 + 1) = n
    OBVIOUS
  <2>3. QED
    BY <1>1, <1>4, <2>1, <2>2
<1>14. Cardinality(1 .. L) = Cardinality(1 .. M)
  BY <1>12, <1>13, FS_Bijection DEF ExistsBijection
<1>15. QED
  BY <1>5, <1>13, <1>14

\* The last line before line i that is one level further left, in such lines as these.
AboveIn(s, i) ==
  LET above == {j \in 1 .. i - 1 : s[j].level = s[i].level - 1}
  IN  s[CHOOSE j \in above : \A k \in above : k <= j]

LEMMA AboveIs ==
  ASSUME NEW s \in Seq(Lines), NEW i \in 1 .. Len(s), HasAbove(s, i)
  PROVE  ParentLine(AboveIn(s, i), s[i])
<1> DEFINE above == {j \in 1 .. i - 1 : s[j].level = s[i].level - 1}
<1>1. PICK q \in 1 .. i - 1 : /\ s[q].level = s[i].level - 1 /\ ParentLine(s[q], s[i])
                              /\ \A k \in q + 1 .. i - 1 : s[k].level # s[i].level - 1
  BY DEF HasAbove
<1>2. Len(s) \in Nat /\ i \in Nat /\ q \in Nat
  OBVIOUS
<1>3. q \in above /\ \A k \in above : k <= q
  <2>1. ASSUME NEW k \in above PROVE k <= q
    <3>1. k \in 1 .. i - 1 /\ k \notin q + 1 .. i - 1
      BY <1>1, <2>1
    <3>2. QED
      BY <1>2, <3>1
  <2>2. QED
    BY <1>1, <2>1
<1>4. \A j \in above : (\A k \in above : k <= j) => j = q
  <2> SUFFICES ASSUME NEW j \in above, \A k \in above : k <= j PROVE j = q
    OBVIOUS
  <2>1. j \in Nat /\ j <= q /\ q <= j
    BY <1>2, <1>3
  <2>2. QED
    BY <1>2, <2>1
<1>5. AboveIn(s, i) = s[CHOOSE j \in above : \A k \in above : k <= j]
  BY DEF AboveIn
<1> HIDE DEF above
<1>6. (CHOOSE j \in above : \A k \in above : k <= j) = q
  BY <1>3, <1>4
<1>7. QED
  BY <1>1, <1>5, <1>6

\* What is drawn from such nodes is as it should be.
RightTree(s) ==
  /\ \A i, j \in DOMAIN s : s[i].pid = s[j].pid => i = j
  /\ \A i \in DOMAIN s : s[i].level > 0 =>
       \E n \in DOMAIN nodes : nodes[n].pid = s[i].pid /\ nodes[n].ppid = AboveIn(s, i).pid
  /\ ~reused => Len(s) = Len(nodes)

LEMMA DrawnRight ==
  ASSUME NodesType, Distinct, ~reused => Ordered
  PROVE  Drawing \in Seq(Lines) /\ RightTree(Drawing)
<1>1. PICK up : Climbs(up, Len(nodes))
  BY Climbing
<1>2. Drawing \in Seq(Lines)
  BY <1>1, DrawingLines
<1>3. DOMAIN Drawing = 1 .. Len(Drawing) /\ DOMAIN nodes = 1 .. Len(nodes)
  BY <1>2, NodesAre
<1>4. \A i, j \in DOMAIN Drawing : Drawing[i].pid = Drawing[j].pid => i = j
  BY <1>3, DrawingPids
<1>5. ASSUME NEW i \in DOMAIN Drawing, Drawing[i].level > 0
      PROVE  \E n \in DOMAIN nodes :
                nodes[n].pid = Drawing[i].pid /\ nodes[n].ppid = AboveIn(Drawing, i).pid
  <2>1. HasAbove(Drawing, i)
    BY <1>3, <1>5, DrawingBelow
  <2>2. ParentLine(AboveIn(Drawing, i), Drawing[i])
    BY <1>2, <1>3, <2>1, AboveIs
  <2>3. QED
    BY <1>3, <2>2 DEF ParentLine
<1>6. ~reused => Len(Drawing) = Len(nodes)
  BY DrawingWhole
<1>7. QED
  BY <1>2, <1>4, <1>5, <1>6 DEF RightTree

\* What is shown of a node: its name, or, where the children overwrote it, something else.
LEMMA DrawnNames ==
  ASSUME NodesType, NEW a \in DOMAIN Drawing
  PROVE  \E n \in 1 .. Len(nodes) :
           /\ Drawing[a].pid = nodes[n].pid
           /\ \/ Drawing[a].name = nodes[n].name
              \/ Size <= Cardinality({m \in DOMAIN nodes : nodes[m].ppid = nodes[n].pid})
<1> DEFINE L == Len(nodes)
<1>1. L = Len(nodes) /\ L \in Nat /\ DOMAIN nodes = 1 .. L
  BY NodesAre
<1> HIDE DEF L
<1>2. PICK up : Climbs(up, L)
  BY <1>1, Climbing
<1>3. PICK d \in 0 .. L, n \in 1 .. L : up[d][n] \in Roots /\ Drawing[a] = Line(n, d)
  <2>1. Drawing[a] \in Range(Drawing)
    BY DEF Range
  <2>2. QED
    BY <1>1, <1>2, <2>1, DrawingLines
<1>4. Drawing[a].pid = nodes[n].pid /\ Drawing[a].name = DrawnName(n)
  BY <1>3 DEF Line
<1>5. CASE Cardinality(Children(n)) < Size
  BY <1>1, <1>4, <1>5 DEF DrawnName
<1>6. CASE ~(Cardinality(Children(n)) < Size)
  <2> DEFINE T == {m \in DOMAIN nodes : nodes[m].ppid = nodes[n].pid}
  <2>1. Children(n) \subseteq T
    <3> SUFFICES ASSUME NEW m \in Children(n) PROVE m \in T
      OBVIOUS
    <3>1. m \in DOMAIN nodes /\ find_parent(nodes[m].ppid) = n /\ n # 0
      BY <1>1 DEF Children
    <3>2. nodes[n].pid = nodes[m].ppid
      BY <3>1, ParentFound
    <3>3. QED
      BY <3>1, <3>2
  <2>2. IsFiniteSet(T)
    <3>1. IsFiniteSet(1 .. L)
      BY <1>1, FS_Interval
    <3>2. T \subseteq 1 .. L
      BY <1>1
    <3>3. QED
      BY <3>1, <3>2, FS_Subset
  <2>3. IsFiniteSet(Children(n)) /\ Cardinality(Children(n)) <= Cardinality(T)
    BY <2>1, <2>2, FS_Subset
  <2>4. Cardinality(T) \in Nat /\ Cardinality(Children(n)) \in Nat /\ Size \in Nat
    BY <2>2, <2>3, FS_CardinalityType, BoundsAssumption
  <2>5. Size <= Cardinality(T)
    BY <1>6, <2>3, <2>4
  <2>6. QED
    BY <1>1, <1>4, <2>5
<1>7. QED
  BY <1>5, <1>6
-----------------------------------------------------------------------------
(* ProcScan: the invariant *)

InHand == {"open", "read", "opendir", "readfd", "readlink"}
Opens == {"read", "readfd", "readlink"}
Result == IF Draws THEN nodes ELSE shown

ScannerType ==
  /\ program \in Programs /\ reused \in BOOLEAN /\ events \in 0 .. MaxEvents
  /\ spc \in InHand \cup {"readdir", "success", "failure", "crashed"}
  /\ names \subseteq Nat \ {0} /\ pid \in Nat /\ file \in Nat /\ fds \in 1 .. MaxFds
  /\ head \in {"NULL", "garbage"} /\ NodesType /\ p_cmd \in Nat /\ shown \in Seq(Lines)
  /\ ended \in BOOLEAN /\ steady \subseteq Nat /\ asked \subseteq Nat

\* The history: those to be shown now have been seen, those of the whole scan are there.
HistoryInv == WantedNames \subseteq asked /\ steady \subseteq WantedNames

\* readdir runs ahead of the pid in hand, never beyond the processes there have been.
FetchInv ==
  /\ \A m \in names : m > pid
  /\ ~reused => pid < NewName /\ \A m \in names : m < NewName

\* Until something ends, what was fetched and opened is there.
UndisturbedInv ==
  ~ended =>
    /\ names \subseteq Pids
    /\ spc \in InHand => pid \in Pids
    /\ spc \in Opens => file = procs[pid].name
    /\ spc = "readlink" => procs[pid].fd # "none"

\* Only file_open_list leaves descriptors open.
FdsInv ==
  /\ spc \in {"opendir", "readfd", "readlink"} => program = "file_open_list"
  /\ program # "file_open_list" /\ spc \in {"readdir", "open"} => fds = 1
  /\ program # "file_open_list" /\ spc = "read" => fds = 2
  /\ spc = "read" => fds >= 2

\* A process that is still to come, in hand, or among the results.
Placed(p) ==
  \/ p > pid /\ \A m \in names : p <= m => p \in names
  \/ /\ p = pid /\ spc \in InHand
     /\ spc \in Opens => file = procs[p].name
     /\ spc \in {"opendir", "readfd", "readlink"} => p_cmd = procs[p].name
  \/ procs[p].name \in NamesOf(Result)

\* Each process that was to be shown all the time is; in the first round of pids
\* draw_pid_tree misses none at all.
PlacedInv ==
  /\ spc \in InHand \cup {"readdir"} =>
       \A p \in Pids : procs[p].name \in steady \/ (Draws /\ ~reused) => Placed(p)
  /\ spc = "success" => steady \subseteq NamesOf(Result)

\* Nodes come in the order of their pids, below the pid in hand, parents first in the
\* first round of pids.
NodesInv ==
  /\ \A n \in 1 .. Len(nodes) :
       /\ nodes[n].pid <= pid /\ nodes[n].name \in asked
       /\ spc \in InHand => nodes[n].pid < pid
       /\ ~reused => nodes[n].pid = nodes[n].name
  /\ Distinct /\ (~reused => Ordered)
  /\ Draws /\ spc = "success" => RightTree(shown)

CmdInv == ~reused /\ spc \in {"opendir", "readfd", "readlink"} => p_cmd = pid

AskedInv ==
  \A i \in DOMAIN shown :
    \/ shown[i].name \in asked
    \/ program = "file_open_list" /\ reused
    \/ Draws /\ Size <= Cardinality({n \in DOMAIN nodes : nodes[n].ppid = shown[i].pid})

ScanInv ==
  /\ ScannerType /\ TableOK /\ HistoryInv
  /\ FetchInv /\ UndisturbedInv /\ FdsInv /\ PlacedInv /\ NodesInv /\ CmdInv
  /\ UndisturbedSucceeds /\ AskedInv

\* The other processes keep it.
LEMMA OthersKeep ==
  ASSUME ScanInv, Others
  PROVE  ScanInv'
<1>1. TableOK'
  BY TableKept DEF ScanInv, ScannerType
<1>2. /\ UNCHANGED <<program, reused, spc, names, pid, file, fds, head, nodes, p_cmd, shown>>
      /\ events < MaxEvents /\ events' = events + 1
      /\ steady' = steady \cap WantedNames' /\ asked' = asked \cup WantedNames'
  BY DEF Others, scanner
<1>3. /\ ended' \in BOOLEAN
      /\ \A r \in Pids \cap Pids' : procs'[r].name = procs[r].name
      /\ \A q \in Pids' \ Pids : /\ procs'[q].name = NewName /\ procs'[q].ppid \in Pids
                                 /\ ~reused => q = NewName
      /\ ended => ended'
      /\ ~ended' => /\ Pids \subseteq Pids'
                    /\ \A r \in Pids : procs[r].fd # "none" => procs'[r].fd # "none"
  BY OthersDo DEF ScanInv, ScannerType
<1>4. NewName \in Nat /\ NewName' = NewName + 1
  BY <1>2 DEF NewName, ScanInv, ScannerType
<1>5. ScannerType'
  <2>1. WantedNames' \subseteq Nat
    BY <1>1 DEF WantedNames, TableOK, ProcessType
  <2>2. NodesType'
    BY <1>2 DEF NodesType, ScanInv, ScannerType
  <2>3. events' \in 0 .. MaxEvents
    BY <1>2, BoundsAssumption DEF ScanInv, ScannerType
  <2>4. QED
    BY <1>2, <1>3, <2>1, <2>2, <2>3 DEF ScannerType, ScanInv
<1>6. HistoryInv'
  BY <1>2 DEF HistoryInv
<1>7. FetchInv'
  <2>1. names \subseteq Nat /\ pid \in Nat
    BY DEF ScanInv, ScannerType
  <2>2. QED
    BY <1>2, <1>4, <2>1 DEF FetchInv, ScanInv
<1>8. UndisturbedInv'
  <2> SUFFICES ASSUME ~ended'
               PROVE  /\ names \subseteq Pids'
                      /\ spc \in InHand => pid \in Pids'
                      /\ spc \in Opens => file = procs'[pid].name
                      /\ spc = "readlink" => procs'[pid].fd # "none"
    BY <1>2 DEF UndisturbedInv
  <2>1. /\ names \subseteq Pids
        /\ spc \in InHand => pid \in Pids
        /\ spc \in Opens => file = procs[pid].name
        /\ spc = "readlink" => procs[pid].fd # "none"
    BY <1>3 DEF UndisturbedInv, ScanInv
  <2>2. Pids \subseteq Pids' /\ \A r \in Pids : procs[r].fd # "none" => procs'[r].fd # "none"
    BY <1>3
  <2>3. \A r \in Pids : procs'[r].name = procs[r].name
    BY <1>3, <2>2
  <2>4. spc \in Opens \/ spc = "readlink" => spc \in InHand
    BY DEF Opens, InHand
  <2>5. QED
    BY <2>1, <2>2, <2>3, <2>4
<1>9. FdsInv' /\ CmdInv'
  BY <1>2 DEF FdsInv, CmdInv, ScanInv
<1>10. Result' = Result
  BY <1>2 DEF Result, Draws
<1>11. PlacedInv'
  <2>1. ASSUME NEW p \in Pids', spc \in InHand \cup {"readdir"},
               procs'[p].name \in steady' \/ (Draws /\ ~reused)
        PROVE  Placed(p)'
    <3>1. CASE p \in Pids
      <4>1. procs'[p].name = procs[p].name
        BY <1>3, <2>1, <3>1
      <4>2. procs[p].name \in steady \/ (Draws /\ ~reused)
        BY <1>2, <2>1, <4>1
      <4>3. Placed(p)
        BY <2>1, <3>1, <4>2 DEF PlacedInv, ScanInv
      <4>4. QED
        BY <1>2, <1>10, <4>1, <4>3 DEF Placed, NamesOf
    <3>2. CASE p \notin Pids
      <4>1. procs'[p].name = NewName /\ (~reused => p = NewName)
        BY <1>3, <2>1, <3>2
      <4>2. NewName \notin steady
        <5>1. \A q \in Pids : procs[q].name # NewName
          BY <1>4 DEF ScanInv, TableOK, TableInv, ProcessType
        <5>2. QED
          BY <5>1 DEF ScanInv, HistoryInv, WantedNames
      <4>3. ~reused /\ p = NewName
        BY <1>2, <2>1, <4>1, <4>2
      <4>4. p > pid /\ \A m \in names : ~(p <= m)
        <5>1. pid \in Nat /\ pid < p /\ \A m \in names : m \in Nat /\ m < p
          BY <4>3 DEF ScanInv, ScannerType, FetchInv
        <5>2. QED
          BY <1>4, <4>3, <5>1
      <4>5. QED
        BY <1>2, <4>4 DEF Placed
    <3>3. QED
      BY <3>1, <3>2
  <2>2. spc = "success" => steady' \subseteq NamesOf(Result)
    BY <1>2 DEF PlacedInv, ScanInv
  <2>3. QED
    BY <1>2, <1>10, <2>1, <2>2 DEF PlacedInv, NamesOf, Draws
<1>12. NodesInv'
  <2>1. Distinct' /\ (~reused => Ordered')
    BY <1>2 DEF ScanInv, NodesInv, Distinct, Ordered
  <2>2. RightTree(shown) => RightTree(shown)'
    BY <1>2 DEF RightTree, AboveIn
  <2>3. QED
    BY <1>2, <2>1, <2>2 DEF ScanInv, NodesInv, Draws
<1>13. UndisturbedSucceeds'
  BY <1>2, <1>3 DEF ScanInv, UndisturbedSucceeds
<1>14. AskedInv'
  BY <1>2 DEF ScanInv, AskedInv, Draws
<1>15. QED
  BY <1>1, <1>5, <1>6, <1>7, <1>8, <1>9, <1>11, <1>12, <1>13, <1>14 DEF ScanInv

\* A step of the scanner that reads no name and adds no node leaves what the scanner has
\* fetched, the nodes, the table and the history as they should be.
LEMMA QuietStep ==
  ASSUME ScanInv, UNCHANGED <<program, system, history, names, pid, head, nodes>>,
         file' \in Nat, fds' \in 1 .. MaxFds, p_cmd' \in Nat, shown' \in Seq(Lines),
         spc' \in InHand \cup {"readdir", "failure", "crashed"}, spc' \in InHand => spc \in InHand
  PROVE  ScannerType' /\ TableOK' /\ HistoryInv' /\ FetchInv' /\ NodesInv'
<1>1. /\ reused' = reused /\ procs' = procs /\ events' = events
      /\ ended' = ended /\ steady' = steady /\ asked' = asked
      /\ program' = program /\ names' = names /\ pid' = pid /\ head' = head /\ nodes' = nodes
  BY DEF system, history
<1>2. NodesType'
  BY <1>1 DEF NodesType, ScanInv, ScannerType
<1>3. ScannerType'
  BY <1>1, <1>2 DEF ScannerType, ScanInv
<1>4. TableOK'
  BY <1>1 DEF ScanInv, TableOK, TableInv, Pids, NewName
<1>5. HistoryInv'
  BY <1>1 DEF ScanInv, HistoryInv, WantedNames, Wanted, Pids
<1>6. FetchInv'
  BY <1>1 DEF ScanInv, FetchInv, NewName
<1>7. NodesInv'
  <2>1. Distinct' /\ (~reused => Ordered')
    BY <1>1 DEF ScanInv, NodesInv, Distinct, Ordered
  <2>2. spc' # "success"
    BY DEF InHand
  <2>3. QED
    BY <1>1, <2>1, <2>2 DEF ScanInv, NodesInv
<1>8. QED
  BY <1>3, <1>4, <1>5, <1>6, <1>7

\* What Placed says depends on where the scanner is.
LEMMA PlacedMeans ==
  ASSUME ScanInv, spc \in InHand \cup {"readdir"}, NEW p \in Pids,
         procs[p].name \in steady \/ (Draws /\ ~reused)
  PROVE  Placed(p)
BY DEF ScanInv, PlacedInv

\* Who is to be shown all the time is to be shown now.
LEMMA SteadyWanted ==
  ASSUME ScanInv, NEW p \in Pids, procs[p].name \in steady
  PROVE  Wanted(p)
<1>1. PICK q \in Pids : Wanted(q) /\ procs[q].name = procs[p].name
  BY DEF ScanInv, HistoryInv, WantedNames
<1>2. p = q
  BY <1>1 DEF ScanInv, TableOK, TableInv
<1>3. QED
  BY <1>1, <1>2

LEMMA WantedAsked ==
  ASSUME ScanInv, NEW p \in Pids, Wanted(p)
  PROVE  procs[p].name \in asked
BY DEF ScanInv, HistoryInv, WantedNames

LEMMA OpenStatusKeeps ==
  ASSUME ScanInv, OpenStatus, UNCHANGED <<program, system, history>>
  PROVE  ScanInv'
<1>1. /\ spc = "open" /\ UNCHANGED <<names, pid, head, nodes, p_cmd, shown>>
      /\ procs' = procs /\ ended' = ended /\ steady' = steady /\ asked' = asked /\ reused' = reused
      /\ program' = program
  BY DEF OpenStatus, system, history
<1>2. fds \in 1 .. MaxFds /\ file \in Nat /\ p_cmd \in Nat /\ shown \in Seq(Lines) /\ MaxFds \in Nat \ {0, 1}
  BY BoundsAssumption DEF ScanInv, ScannerType
<1>3. CASE pid \in Pids /\ fds < MaxFds
  <2>1. spc' = "read" /\ file' = procs[pid].name /\ fds' = fds + 1
    BY <1>3 DEF OpenStatus
  <2>2. file' \in Nat
    BY <1>3, <2>1 DEF ScanInv, TableOK, ProcessType
  <2>3. ScannerType' /\ TableOK' /\ HistoryInv' /\ FetchInv' /\ NodesInv'
    <3>1. fds' \in 1 .. MaxFds
      BY <1>2, <1>3, <2>1
    <3>2. QED
      BY <1>1, <1>2, <2>1, <2>2, <3>1, QuietStep DEF InHand
  <2>4. UndisturbedInv'
    BY <1>1, <1>3, <2>1 DEF ScanInv, UndisturbedInv, Pids, InHand, Opens
  <2>5. FdsInv'
    BY <1>1, <1>2, <2>1 DEF ScanInv, FdsInv
  <2>6. CmdInv' /\ UndisturbedSucceeds'
    BY <2>1 DEF CmdInv, UndisturbedSucceeds
  <2>7. AskedInv'
    BY <1>1 DEF ScanInv, AskedInv, Draws
  <2>8. ASSUME NEW p \in Pids, procs[p].name \in steady \/ (Draws /\ ~reused)
        PROVE  Placed(p)'
    <3>1. Placed(p)
      BY <1>1, <2>8, PlacedMeans DEF InHand
    <3>2. QED
      BY <1>1, <2>1, <3>1 DEF Placed, InHand, Opens, Result, NamesOf, Draws
  <2>9. PlacedInv'
    BY <1>1, <2>1, <2>8 DEF PlacedInv, Pids, Draws
  <2>10. QED
    BY <2>3, <2>4, <2>5, <2>6, <2>7, <2>9 DEF ScanInv
<1>4. CASE ~(pid \in Pids /\ fds < MaxFds)
  <2>1. spc' = "failure" /\ file' = file /\ fds' = fds
    BY <1>4 DEF OpenStatus
  <2>2. ScannerType' /\ TableOK' /\ HistoryInv' /\ FetchInv' /\ NodesInv'
    BY <1>1, <1>2, <2>1, QuietStep DEF InHand
  <2>3. UndisturbedInv' /\ FdsInv' /\ PlacedInv' /\ CmdInv'
    BY <1>1, <2>1 DEF ScanInv, UndisturbedInv, FdsInv, PlacedInv, CmdInv, Pids, InHand, Opens
  <2>4. UndisturbedSucceeds'
    <3>1. ~ended => pid \in Pids
      BY <1>1 DEF ScanInv, UndisturbedInv, InHand
    <3>2. program # "file_open_list" => fds < MaxFds
      BY <1>1, <1>2 DEF ScanInv, FdsInv
    <3>3. QED
      BY <1>1, <1>2, <1>4, <2>1, <3>1, <3>2 DEF UndisturbedSucceeds
  <2>5. AskedInv'
    BY <1>1 DEF ScanInv, AskedInv, Draws
  <2>6. QED
    BY <2>2, <2>3, <2>4, <2>5 DEF ScanInv
<1>5. QED
  BY <1>3, <1>4

LEMMA ReadFailsKeeps ==
  ASSUME ScanInv, ReadFails, UNCHANGED <<program, system, history>>
  PROVE  ScanInv'
<1>1. /\ spc = "read" /\ spc' = "failure" /\ ~There
      /\ UNCHANGED <<names, pid, file, fds, head, nodes, p_cmd, shown>>
      /\ procs' = procs /\ ended' = ended /\ steady' = steady /\ asked' = asked /\ reused' = reused
      /\ program' = program
  BY DEF ReadFails, system, history
<1>2. fds \in 1 .. MaxFds /\ file \in Nat /\ p_cmd \in Nat /\ shown \in Seq(Lines)
  BY DEF ScanInv, ScannerType
<1>3. ScannerType' /\ TableOK' /\ HistoryInv' /\ FetchInv' /\ NodesInv'
  BY <1>1, <1>2, QuietStep DEF InHand
<1>4. UndisturbedInv' /\ FdsInv' /\ PlacedInv' /\ CmdInv'
  BY <1>1 DEF ScanInv, UndisturbedInv, FdsInv, PlacedInv, CmdInv, Pids, InHand, Opens
<1>5. ended
  BY <1>1 DEF There, ScanInv, UndisturbedInv, InHand, Opens
<1>6. UndisturbedSucceeds'
  BY <1>1, <1>5 DEF UndisturbedSucceeds
<1>7. AskedInv'
  BY <1>1 DEF ScanInv, AskedInv, Draws
<1>8. QED
  BY <1>3, <1>4, <1>6, <1>7 DEF ScanInv

\* A line more: who was shown still is.
LEMMA OneMore ==
  ASSUME NEW s \in Seq(Lines), NEW x \in Lines
  PROVE  LET t == Append(s, x) IN
         /\ t \in Seq(Lines) /\ NamesOf(t) = NamesOf(s) \cup {x.name}
         /\ \A i \in DOMAIN t : t[i] = x \/ (i \in DOMAIN s /\ t[i] = s[i])
<1> DEFINE t == Append(s, x)
<1>1. /\ t \in Seq(Lines) /\ Len(t) = Len(s) + 1 /\ Len(s) \in Nat
      /\ DOMAIN t = 1 .. Len(s) + 1 /\ DOMAIN s = 1 .. Len(s)
      /\ t[Len(s) + 1] = x /\ \A i \in 1 .. Len(s) : t[i] = s[i]
  OBVIOUS
<1> HIDE DEF t
<1>2. \A i \in DOMAIN t : i = Len(s) + 1 \/ i \in DOMAIN s
  BY <1>1
<1>3. \A i \in DOMAIN t : t[i] = x \/ (i \in DOMAIN s /\ t[i] = s[i])
  BY <1>1, <1>2
<1>4. NamesOf(t) = NamesOf(s) \cup {x.name}
  <2>1. ASSUME NEW n \in NamesOf(t) PROVE n \in NamesOf(s) \cup {x.name}
    BY <1>3, <2>1 DEF NamesOf
  <2>2. ASSUME NEW n \in NamesOf(s) \cup {x.name} PROVE n \in NamesOf(t)
    <3>1. CASE n = x.name
      <4>1. Len(s) + 1 \in DOMAIN t
        BY <1>1
      <4>2. QED
        BY <1>1, <3>1, <4>1 DEF NamesOf
    <3>2. CASE n \in NamesOf(s)
      <4>1. PICK i \in DOMAIN s : n = s[i].name
        BY <3>2 DEF NamesOf
      <4>2. i \in DOMAIN t /\ t[i] = s[i]
        BY <1>1
      <4>3. QED
        BY <4>1, <4>2 DEF NamesOf
    <3>3. QED
      BY <2>2, <3>1, <3>2
  <2>3. QED
    BY <2>1, <2>2
<1>5. QED
  BY <1>1, <1>3, <1>4 DEF t

LEMMA ReadUidKeeps ==
  ASSUME ScanInv, ReadUid, UNCHANGED <<program, system, history>>
  PROVE  ScanInv'
<1>1. /\ spc = "read" /\ spc' = "readdir" /\ There /\ program = "process_list"
      /\ shown' = IF procs[pid].user = "asked"
                    THEN Append(shown, [pid |-> pid, name |-> file, level |-> 0]) ELSE shown
      /\ fds' = fds - 1
      /\ UNCHANGED <<names, pid, file, head, nodes, p_cmd>>
      /\ procs' = procs /\ ended' = ended /\ steady' = steady /\ asked' = asked /\ reused' = reused
      /\ program' = program
  BY DEF ReadUid, FdsClosed, system, history
<1>2. fds \in 1 .. MaxFds /\ fds >= 2 /\ file \in Nat /\ p_cmd \in Nat /\ shown \in Seq(Lines) /\ MaxFds \in Nat
  BY <1>1, BoundsAssumption DEF ScanInv, ScannerType, FdsInv
<1>3. pid \in Pids /\ procs[pid].name = file /\ pid \in Nat \ {0} /\ ~Draws
  BY <1>1 DEF There, ScanInv, TableOK, Draws
<1> DEFINE x == [pid |-> pid, name |-> file, level |-> 0]
<1>4. x \in Lines /\ x.name = file
  BY <1>2, <1>3 DEF Lines
<1>5. /\ shown' \in Seq(Lines)
      /\ NamesOf(shown') = IF procs[pid].user = "asked" THEN NamesOf(shown) \cup {file} ELSE NamesOf(shown)
      /\ \A i \in DOMAIN shown' : \/ procs[pid].user = "asked" /\ shown'[i] = x
                                  \/ i \in DOMAIN shown /\ shown'[i] = shown[i]
  <2> HIDE DEF x
  <2>1. CASE procs[pid].user = "asked"
    <3>1. shown' = Append(shown, x)
      BY <1>1, <2>1 DEF x
    <3>2. QED
      BY <1>2, <1>4, <2>1, <3>1, OneMore
  <2>2. CASE procs[pid].user # "asked"
    BY <1>1, <1>2, <2>2
  <2>3. QED
    BY <2>1, <2>2
<1>6. ScannerType' /\ TableOK' /\ HistoryInv' /\ FetchInv' /\ NodesInv'
  <2>1. fds' \in 1 .. MaxFds
    BY <1>1, <1>2
  <2>2. QED
    BY <1>1, <1>2, <1>5, <2>1, QuietStep DEF InHand
<1>7. UndisturbedInv' /\ CmdInv' /\ UndisturbedSucceeds'
  BY <1>1 DEF ScanInv, UndisturbedInv, CmdInv, UndisturbedSucceeds, Pids, InHand, Opens
<1>8. FdsInv'
  BY <1>1 DEF ScanInv, FdsInv
<1>9. ASSUME NEW p \in Pids, procs[p].name \in steady \/ (Draws /\ ~reused)
      PROVE  Placed(p)'
  <2>1. Placed(p)
    BY <1>1, <1>9, PlacedMeans DEF InHand
  <2>2. CASE p = pid
    <3>1. Wanted(p)
      BY <1>3, <1>9, SteadyWanted
    <3>2. procs[pid].user = "asked"
      BY <1>1, <2>2, <3>1 DEF Wanted
    <3>3. file \in NamesOf(shown')
      BY <1>5, <3>2
    <3>4. QED
      BY <1>1, <1>3, <2>2, <3>3 DEF Placed, Result, NamesOf, Draws
  <2>3. CASE p # pid
    <3>1. NamesOf(shown) \subseteq NamesOf(shown')
      BY <1>5
    <3>2. CASE p > pid /\ \A m \in names : p <= m => p \in names
      BY <1>1, <3>2 DEF Placed
    <3>3. CASE procs[p].name \in NamesOf(Result)
      <4>1. Result = shown /\ Result' = shown'
        BY <1>1, <1>3 DEF Result, Draws
      <4>2. procs[p].name \in NamesOf(shown')
        BY <3>1, <3>3, <4>1
      <4>3. NamesOf(Result)' = NamesOf(shown')
        BY <4>1 DEF NamesOf
      <4>4. QED
        BY <1>1, <4>2, <4>3 DEF Placed
    <3>4. QED
      BY <1>1, <2>1, <2>3, <3>2, <3>3 DEF Placed
  <2>4. QED
    BY <2>2, <2>3
<1>10. PlacedInv'
  BY <1>1, <1>9 DEF PlacedInv, Pids, Draws
<1>11. AskedInv'
  <2>1. ASSUME NEW i \in DOMAIN shown', shown'[i] = x, procs[pid].user = "asked"
        PROVE  shown'[i].name \in asked
    <3>1. Wanted(pid)
      BY <1>1, <2>1 DEF Wanted
    <3>2. file \in asked
      BY <1>3, <3>1, WantedAsked
    <3>3. QED
      BY <1>4, <2>1, <3>2
  <2>2. \A i \in DOMAIN shown : shown[i].name \in asked
    BY <1>1, <1>3 DEF ScanInv, AskedInv
  <2>3. QED
    BY <1>1, <1>5, <2>1, <2>2 DEF AskedInv
<1>12. QED
  BY <1>6, <1>7, <1>8, <1>10, <1>11 DEF ScanInv

LEMMA ReadNameKeeps ==
  ASSUME ScanInv, ReadName, UNCHANGED <<program, system, history>>
  PROVE  ScanInv'
<1>1. /\ spc = "read" /\ spc' = "opendir" /\ There /\ program = "file_open_list"
      /\ p_cmd' = file /\ fds' = fds - 1
      /\ UNCHANGED <<names, pid, file, head, nodes, shown>>
      /\ procs' = procs /\ ended' = ended /\ steady' = steady /\ asked' = asked /\ reused' = reused
      /\ program' = program
  BY DEF ReadName, NameRead, FdsClosed, system, history
<1>2. fds \in 1 .. MaxFds /\ fds >= 2 /\ file \in Nat /\ shown \in Seq(Lines) /\ MaxFds \in Nat
  BY <1>1, BoundsAssumption DEF ScanInv, ScannerType, FdsInv
<1>3. pid \in Pids /\ procs[pid].name = file /\ pid \in Nat \ {0} /\ ~Draws
  BY <1>1 DEF There, ScanInv, TableOK, Draws
<1>4. ScannerType' /\ TableOK' /\ HistoryInv' /\ FetchInv' /\ NodesInv'
  <2>1. fds' \in 1 .. MaxFds
    BY <1>1, <1>2
  <2>2. QED
    BY <1>1, <1>2, <2>1, QuietStep DEF InHand
<1>5. UndisturbedInv' /\ UndisturbedSucceeds' /\ FdsInv'
  BY <1>1 DEF ScanInv, UndisturbedInv, FdsInv, UndisturbedSucceeds, Pids, InHand, Opens
<1>6. CmdInv'
  <2>1. ~reused => file = pid
    BY <1>3 DEF ScanInv, TableOK, TableInv
  <2>2. QED
    BY <1>1, <2>1 DEF CmdInv
<1>7. ASSUME NEW p \in Pids, procs[p].name \in steady \/ (Draws /\ ~reused)
      PROVE  Placed(p)'
  <2>1. Placed(p)
    BY <1>1, <1>7, PlacedMeans DEF InHand
  <2>2. QED
    BY <1>1, <1>3, <2>1 DEF Placed, InHand, Opens, Result, NamesOf, Draws
<1>8. PlacedInv'
  BY <1>1, <1>7 DEF PlacedInv, Pids, Draws
<1>9. AskedInv'
  BY <1>1 DEF ScanInv, AskedInv, Draws
<1>10. QED
  BY <1>4, <1>5, <1>6, <1>8, <1>9 DEF ScanInv

LEMMA OpenFdDirKeeps ==
  ASSUME ScanInv, OpenFdDir, UNCHANGED <<program, system, history>>
  PROVE  ScanInv'
<1>1. /\ spc = "opendir" /\ UNCHANGED <<names, pid, head, nodes, p_cmd, shown>>
      /\ procs' = procs /\ ended' = ended /\ steady' = steady /\ asked' = asked /\ reused' = reused
      /\ program' = program
  BY DEF OpenFdDir, system, history
<1>2. /\ fds \in 1 .. MaxFds /\ file \in Nat /\ p_cmd \in Nat /\ shown \in Seq(Lines) /\ MaxFds \in Nat
      /\ program = "file_open_list"
  BY <1>1, BoundsAssumption DEF ScanInv, ScannerType, FdsInv
<1>3. CASE pid \in Pids /\ fds < MaxFds
  <2>1. spc' = "readfd" /\ file' = procs[pid].name /\ fds' = fds + 1
    BY <1>3 DEF OpenFdDir
  <2>2. file' \in Nat
    BY <1>3, <2>1 DEF ScanInv, TableOK, ProcessType
  <2>3. ScannerType' /\ TableOK' /\ HistoryInv' /\ FetchInv' /\ NodesInv'
    <3>1. fds' \in 1 .. MaxFds
      BY <1>2, <1>3, <2>1
    <3>2. QED
      BY <1>1, <1>2, <2>1, <2>2, <3>1, QuietStep DEF InHand
  <2>4. UndisturbedInv' /\ FdsInv' /\ CmdInv' /\ UndisturbedSucceeds'
    BY <1>1, <1>2, <1>3, <2>1
    DEF ScanInv, UndisturbedInv, FdsInv, CmdInv, UndisturbedSucceeds, Pids, InHand, Opens
  <2>5. AskedInv'
    BY <1>1 DEF ScanInv, AskedInv, Draws
  <2>6. ASSUME NEW p \in Pids, procs[p].name \in steady \/ (Draws /\ ~reused)
        PROVE  Placed(p)'
    <3>1. Placed(p)
      BY <1>1, <2>6, PlacedMeans DEF InHand
    <3>2. QED
      BY <1>1, <2>1, <3>1 DEF Placed, InHand, Opens, Result, NamesOf, Draws
  <2>7. PlacedInv'
    BY <1>1, <2>1, <2>6 DEF PlacedInv, Pids, Draws
  <2>8. QED
    BY <2>3, <2>4, <2>5, <2>7 DEF ScanInv
<1>4. CASE ~(pid \in Pids /\ fds < MaxFds)
  <2>1. spc' = "failure" /\ file' = file /\ fds' = fds
    BY <1>4 DEF OpenFdDir
  <2>2. ScannerType' /\ TableOK' /\ HistoryInv' /\ FetchInv' /\ NodesInv'
    BY <1>1, <1>2, <2>1, QuietStep DEF InHand
  <2>3. UndisturbedInv' /\ FdsInv' /\ PlacedInv' /\ CmdInv'
    BY <1>1, <2>1 DEF ScanInv, UndisturbedInv, FdsInv, PlacedInv, CmdInv, Pids, InHand, Opens
  <2>4. UndisturbedSucceeds'
    <3>1. ~ended => pid \in Pids
      BY <1>1 DEF ScanInv, UndisturbedInv, InHand
    <3>2. QED
      BY <1>1, <1>2, <1>4, <2>1, <3>1 DEF UndisturbedSucceeds
  <2>5. AskedInv'
    BY <1>1 DEF ScanInv, AskedInv, Draws
  <2>6. QED
    BY <2>2, <2>3, <2>4, <2>5 DEF ScanInv
<1>5. QED
  BY <1>3, <1>4

LEMMA ReadFdKeeps ==
  ASSUME ScanInv, ReadFd, UNCHANGED <<program, system, history>>
  PROVE  ScanInv'
<1>1. /\ spc = "readfd" /\ UNCHANGED <<names, pid, file, fds, head, nodes, p_cmd, shown>>
      /\ spc' = IF There /\ procs[pid].fd # "none" THEN "readlink" ELSE "readdir"
      /\ procs' = procs /\ ended' = ended /\ steady' = steady /\ asked' = asked /\ reused' = reused
      /\ program' = program
  BY DEF ReadFd, system, history
<1>2. /\ fds \in 1 .. MaxFds /\ file \in Nat /\ p_cmd \in Nat /\ shown \in Seq(Lines)
      /\ program = "file_open_list" /\ ~Draws
  BY <1>1 DEF ScanInv, ScannerType, FdsInv, Draws
<1>3. ScannerType' /\ TableOK' /\ HistoryInv' /\ FetchInv' /\ NodesInv'
  BY <1>1, <1>2, QuietStep DEF InHand
<1>4. UndisturbedInv'
  BY <1>1 DEF ScanInv, UndisturbedInv, There, Pids, InHand, Opens
<1>5. FdsInv' /\ CmdInv' /\ UndisturbedSucceeds'
  BY <1>1, <1>2 DEF ScanInv, FdsInv, CmdInv, UndisturbedSucceeds
<1>6. AskedInv'
  BY <1>1 DEF ScanInv, AskedInv, Draws
<1>7. ASSUME NEW p \in Pids, procs[p].name \in steady \/ (Draws /\ ~reused)
      PROVE  Placed(p)'
  <2>1. Placed(p)
    BY <1>1, <1>7, PlacedMeans DEF InHand
  <2>2. CASE spc' = "readlink"
    BY <1>1, <2>1, <2>2 DEF Placed, InHand, Opens, Result, NamesOf, Draws
  <2>3. CASE spc' = "readdir"
    <3>1. CASE p = pid /\ file = procs[p].name
      <4>1. Wanted(p)
        BY <1>2, <1>7, SteadyWanted
      <4>2. procs[p].fd = "asked"
        BY <1>2, <4>1 DEF Wanted
      <4>3. QED
        BY <1>1, <2>3, <3>1, <4>2 DEF There
    <3>2. CASE ~(p = pid /\ file = procs[p].name)
      BY <1>1, <2>1, <2>3, <3>2 DEF Placed, InHand, Opens, Result, NamesOf, Draws
    <3>3. QED
      BY <3>1, <3>2
  <2>4. QED
    BY <1>1, <2>2, <2>3
<1>8. PlacedInv'
  BY <1>1, <1>7 DEF PlacedInv, Pids, Draws
<1>9. QED
  BY <1>3, <1>4, <1>5, <1>6, <1>8 DEF ScanInv

LEMMA ReadLinkKeeps ==
  ASSUME ScanInv, ReadLink, UNCHANGED <<program, system, history>>
  PROVE  ScanInv'
<1>1. /\ spc = "readlink" /\ UNCHANGED <<names, pid, file, fds, head, nodes, p_cmd>>
      /\ procs' = procs /\ ended' = ended /\ steady' = steady /\ asked' = asked /\ reused' = reused
      /\ program' = program
  BY DEF ReadLink, system, history
<1>2. /\ fds \in 1 .. MaxFds /\ file \in Nat /\ p_cmd \in Nat /\ shown \in Seq(Lines)
      /\ program = "file_open_list" /\ ~Draws
  BY <1>1 DEF ScanInv, ScannerType, FdsInv, Draws
<1>3. CASE pid \in Pids /\ procs[pid].fd # "none"
  <2> DEFINE x == [pid |-> pid, name |-> p_cmd, level |-> 0]
  <2>1. /\ spc' = "readdir" /\ pid \in Nat \ {0}
        /\ shown' = IF procs[pid].fd = "asked" THEN Append(shown, x) ELSE shown
    BY <1>3 DEF ReadLink, ScanInv, TableOK
  <2>2. x \in Lines /\ x.name = p_cmd
    BY <1>2, <2>1 DEF Lines
  <2>3. /\ shown' \in Seq(Lines)
        /\ NamesOf(shown') = IF procs[pid].fd = "asked" THEN NamesOf(shown) \cup {p_cmd} ELSE NamesOf(shown)
        /\ \A i \in DOMAIN shown' : \/ procs[pid].fd = "asked" /\ shown'[i] = x
                                    \/ i \in DOMAIN shown /\ shown'[i] = shown[i]
    <3> HIDE DEF x
    <3>1. CASE procs[pid].fd = "asked"
      <4>1. shown' = Append(shown, x)
        BY <2>1, <3>1
      <4>2. QED
        BY <1>2, <2>2, <3>1, <4>1, OneMore
    <3>2. CASE procs[pid].fd # "asked"
      BY <1>2, <2>1, <3>2
    <3>3. QED
      BY <3>1, <3>2
  <2>4. ScannerType' /\ TableOK' /\ HistoryInv' /\ FetchInv' /\ NodesInv'
    BY <1>1, <1>2, <2>1, <2>3, QuietStep DEF InHand
  <2>5. UndisturbedInv' /\ FdsInv' /\ CmdInv' /\ UndisturbedSucceeds'
    BY <1>1, <1>2, <2>1 DEF ScanInv, UndisturbedInv, FdsInv, CmdInv, UndisturbedSucceeds, Pids, InHand, Opens
  <2>6. ASSUME NEW p \in Pids, procs[p].name \in steady \/ (Draws /\ ~reused)
        PROVE  Placed(p)'
    <3>1. Placed(p)
      BY <1>1, <2>6, PlacedMeans DEF InHand
    <3>2. NamesOf(shown) \subseteq NamesOf(shown')
      BY <2>3
    <3>3. CASE p = pid /\ p_cmd = procs[p].name
      <4>1. Wanted(p)
        BY <1>2, <2>6, SteadyWanted
      <4>2. procs[pid].fd = "asked"
        BY <1>2, <3>3, <4>1 DEF Wanted
      <4>3. procs[p].name \in NamesOf(shown')
        BY <2>3, <3>3, <4>2
      <4>4. QED
        BY <1>1, <1>2, <4>3 DEF Placed, Result, NamesOf, Draws
    <3>4. CASE ~(p = pid /\ p_cmd = procs[p].name)
      <4>1. CASE p > pid /\ \A m \in names : p <= m => p \in names
        BY <1>1, <4>1 DEF Placed
      <4>2. CASE procs[p].name \in NamesOf(Result)
        <5>1. Result = shown /\ Result' = shown'
          BY <1>1, <1>2 DEF Result, Draws
        <5>2. procs[p].name \in NamesOf(shown')
          BY <3>2, <4>2, <5>1
        <5>3. NamesOf(Result)' = NamesOf(shown')
          BY <5>1 DEF NamesOf
        <5>4. QED
          BY <1>1, <5>2, <5>3 DEF Placed
      <4>3. QED
        BY <1>1, <3>1, <3>4, <4>1, <4>2 DEF Placed
    <3>5. QED
      BY <3>3, <3>4
  <2>7. PlacedInv'
    BY <1>1, <2>1, <2>6 DEF PlacedInv, Pids, Draws
  <2>8. AskedInv'
    <3>1. ASSUME NEW i \in DOMAIN shown', shown'[i] = x, procs[pid].fd = "asked"
          PROVE  shown'[i].name \in asked \/ reused
      <4>1. Wanted(pid)
        BY <1>2, <3>1 DEF Wanted
      <4>2. procs[pid].name \in asked
        BY <1>3, <4>1, WantedAsked
      <4>3. ~reused => p_cmd = procs[pid].name
        BY <1>1, <1>3 DEF ScanInv, CmdInv, TableOK, TableInv
      <4>4. QED
        BY <2>2, <3>1, <4>2, <4>3
    <3>2. \A i \in DOMAIN shown : shown[i].name \in asked \/ reused
      BY <1>2 DEF ScanInv, AskedInv
    <3>3. QED
      BY <1>1, <1>2, <2>3, <3>1, <3>2 DEF AskedInv
  <2>9. QED
    BY <2>4, <2>5, <2>7, <2>8 DEF ScanInv
<1>4. CASE ~(pid \in Pids /\ procs[pid].fd # "none")
  <2>1. spc' = "failure" /\ shown' = shown
    BY <1>4 DEF ReadLink
  <2>2. ScannerType' /\ TableOK' /\ HistoryInv' /\ FetchInv' /\ NodesInv'
    BY <1>1, <1>2, <2>1, QuietStep DEF InHand
  <2>3. UndisturbedInv' /\ FdsInv' /\ PlacedInv' /\ CmdInv'
    BY <1>1, <2>1 DEF ScanInv, UndisturbedInv, FdsInv, PlacedInv, CmdInv, Pids, InHand, Opens
  <2>4. UndisturbedSucceeds'
    <3>1. ended
      BY <1>1, <1>4 DEF ScanInv, UndisturbedInv, InHand
    <3>2. QED
      BY <1>1, <3>1 DEF UndisturbedSucceeds
  <2>5. AskedInv'
    BY <1>1, <2>1 DEF ScanInv, AskedInv, Draws
  <2>6. QED
    BY <2>2, <2>3, <2>4, <2>5 DEF ScanInv
<1>5. QED
  BY <1>3, <1>4

LEMMA ReadNodeKeeps ==
  ASSUME ScanInv, ReadNode, UNCHANGED <<program, system, history>>
  PROVE  ScanInv'
<1>1. /\ spc = "read" /\ There /\ Draws /\ program = "draw_pid_tree"
      /\ UNCHANGED <<names, pid, file, head, p_cmd, shown>>
      /\ procs' = procs /\ ended' = ended /\ steady' = steady /\ asked' = asked /\ reused' = reused
      /\ program' = program /\ events' = events
  BY DEF ReadNode, Draws, system, history
<1>2. fds \in 1 .. MaxFds /\ fds >= 2 /\ file \in Nat /\ p_cmd \in Nat /\ shown \in Seq(Lines) /\ MaxFds \in Nat
  BY <1>1, BoundsAssumption DEF ScanInv, ScannerType, FdsInv
<1>3. /\ pid \in Pids /\ procs[pid].name = file /\ pid \in Nat \ {0} /\ procs[pid].ppid \in Nat
      /\ file \in Nat \ {0}
  BY <1>1 DEF There, ScanInv, TableOK, ProcessType
<1>4. CASE head = "garbage"
  <2>1. spc' = "crashed" /\ fds' = fds /\ nodes' = nodes
    BY <1>4 DEF ReadNode
  <2>2. ScannerType' /\ TableOK' /\ HistoryInv' /\ FetchInv' /\ NodesInv'
    BY <1>1, <1>2, <2>1, QuietStep DEF InHand
  <2>3. UndisturbedInv' /\ FdsInv' /\ PlacedInv' /\ CmdInv' /\ UndisturbedSucceeds'
    BY <1>1, <2>1 DEF ScanInv, UndisturbedInv, FdsInv, PlacedInv, CmdInv, UndisturbedSucceeds,
                      Pids, InHand, Opens
  <2>4. AskedInv'
    BY <1>1, <2>1 DEF ScanInv, AskedInv, Draws
  <2>5. QED
    BY <2>2, <2>3, <2>4 DEF ScanInv
<1>5. CASE head # "garbage"
  <2> DEFINE N == [pid : Nat \ {0}, ppid : Nat, name : Nat \ {0}]
             x == [pid |-> pid, ppid |-> procs[pid].ppid, name |-> file]
             L == Len(nodes)
  <2>1. nodes' = Append(nodes, x) /\ fds' = fds - 1 /\ spc' = "readdir"
    BY <1>5 DEF ReadNode, FdsClosed
  <2>2. x \in N /\ nodes \in Seq(N) /\ x.pid = pid /\ x.ppid = procs[pid].ppid /\ x.name = file
    BY <1>3 DEF ScanInv, ScannerType, NodesType
  <2>3. /\ nodes' \in Seq(N) /\ Len(nodes') = L + 1 /\ L \in Nat
        /\ nodes'[L + 1] = x /\ \A n \in 1 .. L : nodes'[n] = nodes[n]
        /\ DOMAIN nodes = 1 .. L /\ DOMAIN nodes' = 1 .. L + 1
    <3> HIDE DEF x, N
    <3>1. QED
      BY <2>1, <2>2
  <2> HIDE DEF x, L
  <2>4. NodesType'
    BY <2>3 DEF NodesType
  <2> HIDE DEF N
  <2>5. ScannerType'
    <3>1. fds' \in 1 .. MaxFds
      BY <1>2, <2>1
    <3>2. QED
      BY <1>1, <1>2, <2>1, <2>4, <3>1 DEF ScannerType, ScanInv
  <2>6. TableOK' /\ HistoryInv' /\ FetchInv'
    BY <1>1 DEF ScanInv, TableOK, TableInv, HistoryInv, WantedNames, Wanted, FetchInv, Pids, NewName
  <2>7. UndisturbedInv' /\ FdsInv' /\ CmdInv' /\ UndisturbedSucceeds'
    BY <1>1, <1>2, <2>1 DEF ScanInv, UndisturbedInv, FdsInv, CmdInv, UndisturbedSucceeds, Pids, InHand, Opens
  <2>8. \A n \in 1 .. L + 1 : n = L + 1 \/ n \in 1 .. L
    BY <2>3
  <2>9. NamesOf(nodes) \subseteq NamesOf(nodes') /\ file \in NamesOf(nodes')
    <3>1. \A n \in DOMAIN nodes : n \in DOMAIN nodes' /\ nodes'[n] = nodes[n]
      BY <2>3
    <3>2. L + 1 \in DOMAIN nodes' /\ nodes'[L + 1].name = file
      BY <2>2, <2>3
    <3>3. QED
      BY <3>1, <3>2 DEF NamesOf
  <2>10. ASSUME NEW p \in Pids, procs[p].name \in steady \/ (Draws /\ ~reused)
         PROVE  Placed(p)'
    <3>1. Placed(p)
      BY <1>1, <2>10, PlacedMeans DEF InHand
    <3>2. NamesOf(nodes)' = NamesOf(nodes') /\ Draws'
      BY <1>1 DEF NamesOf, Draws
    <3>3. CASE p = pid
      BY <1>1, <1>3, <2>9, <3>2, <3>3 DEF Placed, Result, NamesOf
    <3>4. CASE p # pid
      BY <1>1, <2>9, <3>1, <3>2, <3>4 DEF Placed, Result, NamesOf
    <3>5. QED
      BY <3>3, <3>4
  <2>11. PlacedInv'
    BY <1>1, <2>1, <2>10 DEF PlacedInv, Pids, Draws
  <2>12. \A n \in 1 .. L : nodes[n].pid < pid /\ nodes[n].pid \in Nat
    BY <1>1, <2>3, NodesAre DEF ScanInv, ScannerType, NodesInv, InHand, L
  <2>13. Distinct'
    <3> SUFFICES ASSUME NEW m \in 1 .. L + 1, NEW n \in 1 .. L + 1, nodes'[m].pid = nodes'[n].pid
                 PROVE  m = n
      BY <2>3 DEF Distinct
    <3>1. CASE m \in 1 .. L /\ n \in 1 .. L
      BY <2>3, <3>1 DEF ScanInv, NodesInv, Distinct, L
    <3>2. CASE m = L + 1 /\ n \in 1 .. L
      <4>1. nodes[n].pid = pid
        BY <2>2, <2>3, <3>2
      <4>2. QED
        BY <1>3, <2>12, <3>2, <4>1
    <3>3. CASE m \in 1 .. L /\ n = L + 1
      <4>1. nodes[m].pid = pid
        BY <2>2, <2>3, <3>3
      <4>2. QED
        BY <1>3, <2>12, <3>3, <4>1
    <3>4. QED
      BY <2>8, <3>1, <3>2, <3>3
  <2>14. ASSUME ~reused, procs[pid].ppid # 0
         PROVE  \E m \in 1 .. L : nodes[m].pid = procs[pid].ppid
    <3> DEFINE q == procs[pid].ppid
    <3>1. q \in Pids /\ q < pid /\ q \in Nat
      BY <1>3, <2>14 DEF ScanInv, TableOK, TableInv
    <3>2. Placed(q)
      BY <1>1, <2>14, <3>1, PlacedMeans DEF InHand
    <3>3. procs[q].name \in NamesOf(nodes)
      <4> HIDE DEF q
      <4>1. QED
        BY <1>1, <1>3, <3>1, <3>2 DEF Placed, Result
    <3>4. procs[q].name = q
      BY <2>14, <3>1 DEF ScanInv, TableOK, TableInv
    <3> HIDE DEF q
    <3>5. PICK m \in 1 .. L : nodes[m].name = q
      BY <2>3, <3>3, <3>4 DEF NamesOf
    <3>6. nodes[m].pid = q
      BY <2>14, <3>5 DEF ScanInv, NodesInv, L
    <3>7. QED
      BY <3>6 DEF q
  <2>15. ~reused => Ordered'
    <3> SUFFICES ASSUME ~reused, NEW n \in 1 .. L + 1
                 PROVE  nodes'[n].ppid = 0 \/ \E m \in 1 .. n - 1 : nodes'[m].pid = nodes'[n].ppid
      BY <2>3 DEF Ordered
    <3>1. CASE n \in 1 .. L
      <4>1. nodes[n].ppid = 0 \/ \E m \in 1 .. n - 1 : nodes[m].pid = nodes[n].ppid
        BY <3>1 DEF ScanInv, NodesInv, Ordered, L
      <4>2. \A m \in 1 .. n - 1 : nodes'[m] = nodes[m]
        BY <2>3, <3>1
      <4>3. QED
        BY <2>3, <3>1, <4>1, <4>2
    <3>2. CASE n = L + 1
      <4>1. n - 1 = L /\ nodes'[n].ppid = procs[pid].ppid
        BY <2>2, <2>3, <3>2
      <4>2. QED
        BY <2>3, <2>14, <4>1
    <3>3. QED
      BY <2>8, <3>1, <3>2
  <2>16. ASSUME NEW n \in 1 .. L + 1
         PROVE  /\ nodes'[n].pid <= pid /\ nodes'[n].name \in asked
                /\ ~reused => nodes'[n].pid = nodes'[n].name
    <3>1. CASE n \in 1 .. L
      BY <2>3, <3>1 DEF ScanInv, NodesInv, L
    <3>2. CASE n = L + 1
      <4>1. nodes'[n].pid = pid /\ nodes'[n].name = file
        BY <2>2, <2>3, <3>2
      <4>2. Wanted(pid)
        BY <1>1 DEF Wanted
      <4>3. file \in asked
        BY <1>3, <4>2, WantedAsked
      <4>4. ~reused => file = pid
        BY <1>3 DEF ScanInv, TableOK, TableInv
      <4>5. QED
        BY <1>3, <4>1, <4>3, <4>4
    <3>3. QED
      BY <2>8, <3>1, <3>2
  <2>17. NodesInv'
    <3>1. spc' # "success" /\ spc' \notin InHand
      BY <2>1 DEF InHand
    <3>2. QED
      BY <1>1, <2>3, <2>13, <2>15, <2>16, <3>1 DEF NodesInv
  <2>18. AskedInv'
    <3>1. ASSUME NEW i \in DOMAIN shown
          PROVE  \/ shown[i].name \in asked
                 \/ Size <= Cardinality({n \in DOMAIN nodes' : nodes'[n].ppid = shown[i].pid})
      <4> DEFINE A == {n \in DOMAIN nodes : nodes[n].ppid = shown[i].pid}
                 B == {n \in DOMAIN nodes' : nodes'[n].ppid = shown[i].pid}
      <4>1. shown[i].name \in asked \/ Size <= Cardinality(A)
        BY <1>1 DEF ScanInv, AskedInv
      <4>2. A \subseteq B
        BY <2>3
      <4>3. IsFiniteSet(B)
        <5>1. L + 1 \in Int
          BY <2>3
        <5>2. IsFiniteSet(1 .. L + 1) /\ B \subseteq 1 .. L + 1
          BY <2>3, <5>1, FS_Interval
        <5>3. QED
          BY <5>2, FS_Subset
      <4>4. IsFiniteSet(A) /\ Cardinality(A) <= Cardinality(B)
        BY <4>2, <4>3, FS_Subset
      <4>5. Cardinality(A) \in Nat /\ Cardinality(B) \in Nat /\ Size \in Nat
        BY <4>3, <4>4, FS_CardinalityType, BoundsAssumption
      <4>6. QED
        BY <4>1, <4>4, <4>5
    <3>2. QED
      BY <1>1, <3>1 DEF AskedInv, Draws
  <2>19. QED
    BY <2>5, <2>6, <2>7, <2>11, <2>17, <2>18 DEF ScanInv
<1>6. QED
  BY <1>4, <1>5

LEMMA ReaddirKeeps ==
  ASSUME ScanInv, Readdir, UNCHANGED <<program, system, history>>
  PROVE  ScanInv'
<1>1. /\ spc = "readdir" /\ UNCHANGED <<file, fds, head, nodes, p_cmd>>
      /\ procs' = procs /\ ended' = ended /\ steady' = steady /\ asked' = asked /\ reused' = reused
      /\ program' = program /\ events' = events
  BY DEF Readdir, system, history
<1>2. /\ pid \in Nat /\ names \in SUBSET Nat /\ (\A m \in names : m > pid) /\ NodesType
      /\ shown \in Seq(Lines) /\ TableOK
  BY DEF ScanInv, ScannerType, FetchInv
<1>3. TableOK' /\ HistoryInv'
  <2>1. TableOK'
    BY <1>1 DEF ScanInv, TableOK, TableInv, Pids, NewName
  <2>2. HistoryInv'
    BY <1>1 DEF ScanInv, HistoryInv, WantedNames, Wanted, Pids
  <2>3. QED
    BY <2>1, <2>2
<1>4. NodesType' /\ Distinct' /\ (~reused => Ordered')
  BY <1>1 DEF ScanInv, ScannerType, NodesType, NodesInv, Distinct, Ordered
<1>5. CASE /\ names = {} /\ names' = names /\ pid' = pid /\ spc' = "success"
           /\ \A p \in Pids : ~(p > pid)
           /\ shown' = IF Draws THEN Drawing ELSE shown
  <2>1. Drawing \in Seq(Lines) /\ RightTree(Drawing)
    BY <1>2, DrawnRight DEF ScanInv, NodesInv
  <2>2. ScannerType'
    BY <1>1, <1>4, <1>5, <2>1 DEF ScanInv, ScannerType
  <2>3. FetchInv' /\ UndisturbedInv' /\ FdsInv' /\ CmdInv' /\ UndisturbedSucceeds'
    BY <1>1, <1>5 DEF ScanInv, FetchInv, UndisturbedInv, FdsInv, CmdInv, UndisturbedSucceeds,
                      Pids, NewName, InHand, Opens
  <2>4. steady \subseteq NamesOf(Result)
    <3> SUFFICES ASSUME NEW s \in steady PROVE s \in NamesOf(Result)
      OBVIOUS
    <3>1. PICK p \in Pids : procs[p].name = s
      BY DEF ScanInv, HistoryInv, WantedNames
    <3>2. Placed(p)
      BY <1>1, <3>1, PlacedMeans
    <3>3. QED
      BY <1>1, <1>5, <3>1, <3>2 DEF Placed, InHand
  <2>5. PlacedInv'
    <3>1. NamesOf(Result)' = NamesOf(Result)
      BY <1>1, <1>5 DEF NamesOf, Result, Draws
    <3>2. QED
      BY <1>1, <1>5, <2>4, <3>1 DEF PlacedInv, InHand
  <2>6. NodesInv'
    <3>1. ASSUME Draws PROVE RightTree(shown)'
      <4>1. PICK s : s = Drawing
        OBVIOUS
      <4>2. RightTree(s) /\ shown' = s
        BY <1>5, <2>1, <3>1, <4>1
      <4>3. QED
        BY <1>1, <4>2 DEF RightTree, AboveIn
    <3>2. QED
      BY <1>1, <1>4, <1>5, <3>1 DEF ScanInv, NodesInv, Draws, InHand
  <2>7. AskedInv'
    <3>1. CASE Draws
      <4>1. ASSUME NEW i \in DOMAIN Drawing
            PROVE  \/ Drawing[i].name \in asked
                   \/ Size <= Cardinality({n \in DOMAIN nodes : nodes[n].ppid = Drawing[i].pid})
        <5>1. PICK n \in 1 .. Len(nodes) :
                /\ Drawing[i].pid = nodes[n].pid
                /\ \/ Drawing[i].name = nodes[n].name
                   \/ Size <= Cardinality({m \in DOMAIN nodes : nodes[m].ppid = nodes[n].pid})
          BY <1>2, DrawnNames
        <5>2. nodes[n].name \in asked
          BY DEF ScanInv, NodesInv
        <5>3. QED
          BY <5>1, <5>2
      <4>2. shown' = Drawing
        BY <1>5, <3>1
      <4>3. QED
        BY <1>1, <3>1, <4>1, <4>2 DEF AskedInv, Draws
    <3>2. CASE ~Draws
      BY <1>1, <1>5, <3>2 DEF ScanInv, AskedInv, Draws
    <3>3. QED
      BY <3>1, <3>2
  <2>8. QED
    BY <1>3, <2>2, <2>3, <2>5, <2>6, <2>7 DEF ScanInv
<1>6. CASE /\ pid' \in Nat \ {0} /\ pid' > pid /\ names' \subseteq Nat \ {0}
           /\ pid' \in names \cup Pids /\ names' \subseteq names \cup Pids /\ spc' = "open"
           /\ shown' = shown /\ \A m \in names' : m > pid'
           /\ \A p \in Nat : (p \in Pids \/ p \in names) /\ p > pid
                              /\ (\A m \in names : p <= m => p \in names) =>
                p = pid' \/ (p > pid' /\ \A m \in names' : p <= m => p \in names')
  <2>1. ScannerType'
    BY <1>1, <1>4, <1>6 DEF ScanInv, ScannerType, InHand
  <2>2. FetchInv'
    <3>1. ~reused => \A m \in names \cup Pids : m < NewName
      BY DEF ScanInv, FetchInv, TableOK, TableInv
    <3>2. NewName' = NewName
      BY <1>1 DEF NewName
    <3>3. QED
      BY <1>1, <1>6, <3>1, <3>2 DEF FetchInv
  <2>3. UndisturbedInv'
    BY <1>1, <1>6 DEF ScanInv, UndisturbedInv, Pids, Opens
  <2>4. FdsInv' /\ CmdInv' /\ UndisturbedSucceeds'
    BY <1>1, <1>6 DEF ScanInv, FdsInv, CmdInv, UndisturbedSucceeds
  <2>5. ASSUME NEW p \in Pids, procs[p].name \in steady \/ (Draws /\ ~reused)
        PROVE  Placed(p)'
    <3>1. Placed(p)
      BY <1>1, <2>5, PlacedMeans
    <3>2. CASE p > pid /\ \A m \in names : p <= m => p \in names
      <4>1. p \in Nat
        BY <1>2 DEF TableOK
      <4>2. p = pid' \/ (p > pid' /\ \A m \in names' : p <= m => p \in names')
        BY <1>6, <3>2, <4>1
      <4>3. QED
        BY <1>6, <4>2 DEF Placed, InHand, Opens
    <3>3. CASE procs[p].name \in NamesOf(Result)
      BY <1>1, <1>6, <3>3 DEF Placed, NamesOf, Result, Draws
    <3>4. QED
      BY <1>1, <3>1, <3>2, <3>3 DEF Placed, InHand
  <2>6. PlacedInv'
    BY <1>1, <1>6, <2>5 DEF PlacedInv, Pids, Draws
  <2>7. NodesInv'
    <3>1. \A n \in 1 .. Len(nodes) : nodes[n].pid < pid'
      BY <1>2, <1>6, NodesAre DEF ScanInv, NodesInv
    <3>2. \A n \in 1 .. Len(nodes) : nodes[n].pid <= pid'
      BY <1>2, <1>6, <3>1, NodesAre
    <3>3. QED
      BY <1>1, <1>4, <1>6, <3>1, <3>2 DEF ScanInv, NodesInv
  <2>8. AskedInv'
    BY <1>1, <1>6 DEF ScanInv, AskedInv, Draws
  <2>9. QED
    BY <1>3, <2>1, <2>2, <2>3, <2>4, <2>6, <2>7, <2>8 DEF ScanInv
<1>7. QED
  BY <1>2, <1>5, <1>6, ReaddirDoes

LEMMA ScanInitially == ProcInit => ScanInv
<1> SUFFICES ASSUME ProcInit PROVE ScanInv
  OBVIOUS
<1>1. PICK parent \in {<<0, 1, 1>>, <<0, 1, 2>>} \cup (IF reused THEN {<<0, 3, 1>>} ELSE {}),
           owner \in [1 .. 3 -> IF program = "process_list" THEN {"asked", "other"} ELSE {"other"}],
           fd \in [1 .. 3 -> IF program = "file_open_list" THEN {"none", "asked", "other"}
                                                            ELSE {"none"}] :
        procs = [p \in 1 .. 3 |-> Process(p, parent[p], owner[p], fd[p])]
  BY DEF ProcInit
<1>2. /\ program \in Programs /\ reused \in BOOLEAN /\ events = 0
      /\ spc = "readdir" /\ names = {} /\ pid = 0 /\ file = 0 /\ fds = 1
      /\ head \in {"NULL", "garbage"}
      /\ nodes = <<>> /\ p_cmd = 0 /\ shown = <<>>
      /\ ended = FALSE /\ steady = WantedNames /\ asked = WantedNames
  BY DEF ProcInit
<1>3. Pids = {1, 2, 3}
  BY <1>1 DEF Pids
<1>4. \A p \in Pids : owner[p] \in {"asked", "other"} /\ fd[p] \in {"none", "asked", "other"}
  BY <1>3
<1>5. parent[1] = 0 /\ parent[2] \in {1, 3} /\ parent[3] \in {1, 2} /\ (~reused => parent[2] = 1)
  BY <1>1
<1>6. \A p \in Pids : /\ procs[p].name = p /\ procs[p].ppid = parent[p] /\ procs[p].user = owner[p]
                      /\ procs[p].fd = fd[p] /\ procs[p].zombie = FALSE
                      /\ procs[p] = [name |-> p, ppid |-> parent[p], user |-> owner[p],
                                     fd |-> fd[p], zombie |-> FALSE]
  BY <1>1, <1>3 DEF Process
<1>7. ASSUME NEW p \in Pids PROVE procs[p] \in ProcessType
  <2>1. p \in Nat \ {0} /\ parent[p] \in Nat
    BY <1>3, <1>5
  <2>2. procs[p] = [name |-> p, ppid |-> parent[p], user |-> owner[p], fd |-> fd[p], zombie |-> FALSE]
    BY <1>6
  <2>3. QED
    BY <1>4, <2>1, <2>2 DEF ProcessType
<1>8. TableInv
  <2>1. 1 \in Pids /\ ~procs[1].zombie /\ procs[1].ppid = 0
    BY <1>3, <1>5, <1>6
  <2>2. \A p \in Pids : procs[p].name < NewName /\ (~reused => procs[p].name = p)
    BY <1>2, <1>3, <1>6 DEF NewName
  <2>3. \A p, q \in Pids : procs[p].name = procs[q].name => p = q
    <3>1. \A p \in Pids : procs[p].name = p
      BY <1>6
    <3>2. QED
      BY <3>1
  <2>4. \A p \in Pids \ {1} : /\ procs[p].ppid \in Pids \ {p} /\ ~procs[procs[p].ppid].zombie
                              /\ ~reused => procs[p].ppid < p
    BY <1>3, <1>5, <1>6
  <2>5. QED
    BY <1>6, <2>1, <2>2, <2>3, <2>4 DEF TableInv
<1>9. IsFiniteSet(Pids)
  <2>1. Pids = 1 .. 3
    BY <1>1 DEF Pids
  <2>2. ASSUME NEW a \in Int, NEW b \in Int PROVE IsFiniteSet(a .. b)
    BY FS_Interval
  <2>3. 1 \in Int /\ 3 \in Int
    OBVIOUS
  <2>4. IsFiniteSet(1 .. 3)
    BY <2>2, <2>3
  <2>5. QED
    BY <2>1, <2>4
<1>10. TableOK
  BY <1>3, <1>7, <1>8, <1>9 DEF TableOK
<1>11. WantedNames \subseteq Nat
  BY <1>10 DEF WantedNames, TableOK, ProcessType
<1>12. ScannerType
  <2>1. events \in 0 .. MaxEvents /\ fds \in 1 .. MaxFds
    BY <1>2, BoundsAssumption
  <2>2. NodesType /\ shown \in Seq(Lines)
    BY <1>2 DEF NodesType
  <2>3. QED
    BY <1>2, <1>11, <2>1, <2>2 DEF ScannerType
<1>13. HistoryInv /\ FetchInv /\ UndisturbedInv /\ FdsInv /\ CmdInv /\ UndisturbedSucceeds
  BY <1>2 DEF HistoryInv, FetchInv, UndisturbedInv, FdsInv, CmdInv, UndisturbedSucceeds, NewName,
              InHand, Opens
<1>14. PlacedInv
  BY <1>2, <1>3 DEF PlacedInv, Placed
<1>15. NodesInv /\ AskedInv
  <2>1. Len(nodes) = 0 /\ DOMAIN shown = {}
    BY <1>2
  <2>2. QED
    BY <1>2, <2>1 DEF NodesInv, AskedInv, Distinct, Ordered
<1>16. QED
  BY <1>10, <1>12, <1>13, <1>14, <1>15 DEF ScanInv

\* The invariant of the three programs, for any bounds.
THEOREM ScanInvariant == ProcSpec => []ScanInv
<1>1. ScanInv /\ [ProcNext]_procVars => ScanInv'
  <2> SUFFICES ASSUME ScanInv, [ProcNext]_procVars PROVE ScanInv'
    OBVIOUS
  <2>1. CASE Scan
    BY <2>1, ReaddirKeeps, OpenStatusKeeps, ReadFailsKeeps, ReadUidKeeps, ReadNodeKeeps, ReadNameKeeps,
       OpenFdDirKeeps, ReadFdKeeps, ReadLinkKeeps DEF Scan
  <2>2. CASE Others
    BY <2>2, OthersKeep
  <2>3. CASE UNCHANGED procVars
    <3>1. /\ UNCHANGED <<program, reused, procs, events, spc, names, pid, file, fds, head, nodes,
                         p_cmd, shown, ended, steady, asked>>
      BY <2>3 DEF procVars, system, scanner, history
    <3>2. ScannerType' /\ TableOK' /\ HistoryInv'
      <4>1. ScannerType'
        BY <3>1 DEF ScanInv, ScannerType, NodesType
      <4>2. TableOK'
        BY <3>1 DEF ScanInv, TableOK, TableInv, Pids, NewName
      <4>3. HistoryInv'
        BY <3>1 DEF ScanInv, HistoryInv, WantedNames, Wanted, Pids
      <4>4. QED
        BY <4>1, <4>2, <4>3
    <3>3. FetchInv' /\ UndisturbedInv' /\ FdsInv' /\ CmdInv' /\ UndisturbedSucceeds'
      BY <3>1 DEF ScanInv, FetchInv, UndisturbedInv, FdsInv, CmdInv, UndisturbedSucceeds, Pids, NewName
    <3>4. PlacedInv'
      BY <3>1 DEF ScanInv, PlacedInv, Placed, Pids, NamesOf, Result, Draws
    <3>5. NodesInv'
      BY <3>1 DEF ScanInv, NodesInv, Distinct, Ordered, RightTree, AboveIn, Draws
    <3>6. AskedInv'
      BY <3>1 DEF ScanInv, AskedInv, Draws
    <3>7. QED
      BY <3>2, <3>3, <3>4, <3>5, <3>6 DEF ScanInv
  <2>4. QED
    BY <2>1, <2>2, <2>3 DEF ProcNext
<1>2. QED
  BY <1>1, ScanInitially, PTL DEF ProcSpec

\* Every variable of the three programs keeps its type; the drawn tree is a sequence of
\* lines.
THEOREM ProcTypeCorrect == ProcSpec => []ProcTypeOK
<1>1. ScanInv => ProcTypeOK
  BY DEF ScanInv, ScannerType, NodesType, TableOK, ProcessType, ProcTypeOK, InHand, Lines
<1>2. QED
  BY <1>1, ScanInvariant, PTL

\* A program gives up only if something ended or closed meanwhile or, with
\* file_open_list.c, if it has no descriptors left (file_open_list.c:80).
THEOREM Succeeds == ProcSpec => []UndisturbedSucceeds
<1>1. ScanInv => UndisturbedSucceeds
  BY DEF ScanInv
<1>2. QED
  BY <1>1, ScanInvariant, PTL

\* Everyone who was to be shown during the whole scan is shown, and everyone shown was to
\* be shown at some time, but for the two exceptions (process_list.c:53,
\* file_open_list.c:89, draw_pid_tree.c:129).
THEOREM ShownCorrect == ProcSpec => []ShownRight
<1>1. ScanInv => ShownRight
  BY DEF ScanInv, PlacedInv, AskedInv, ShownRight, Result
<1>2. QED
  BY <1>1, ScanInvariant, PTL

\* A drawn tree has every process at most once and below its parent, and in the first round
\* of pids it has them all (draw_pid_tree.c:47).
THEOREM TreeCorrect == ProcSpec => []TreeDrawn
<1>1. ScanInv => TreeDrawn
  BY DEF ScanInv, NodesInv, RightTree, AboveIn, LineAbove, TreeDrawn
<1>2. QED
  BY <1>1, ScanInvariant, PTL
=============================================================================
