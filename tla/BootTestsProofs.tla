--------------------------- MODULE BootTestsProofs ---------------------------
(***************************************************************************)
(* Proofs about BootTests for any number of boots, failing calls and power *)
(* cuts, and a volume of any size.                                         *)
(*                                                                         *)
(* A directory is the set of the names it holds as long as no name appears *)
(* twice and no entry that was never used comes before one in use; every   *)
(* step of the driver keeps that, and adds or drops the one name its call  *)
(* is about.  The self-tests are then followed name by name.               *)
(***************************************************************************)
EXTENDS BootTests, TLAPS, WellFoundedInduction

-----------------------------------------------------------------------------
(* Natural numbers and recursive definitions, for sets and functions.      *)

\* Every non-empty set of natural numbers has a least element.
LEMMA LeastNat ==
    ASSUME NEW S \in SUBSET Nat, S # {}
    PROVE  \E m \in S : \A k \in S : m <= k
<1> DEFINE R == {p \in Nat \X Nat : p[1] < p[2]}
<1>1. IsWellFoundedOn(R, Nat)
  BY NatLessThanWellFounded DEF OpToRel
<1>2. PICK x \in S : \A y \in S : ~(<<y, x>> \in R)
  <2> HIDE DEF R
  <2> QED BY <1>1, WFMin
<1>3. \A y \in S : ~(y < x)
  BY <1>2
<1>4. x \in Nat /\ \A y \in S : y \in Nat
  OBVIOUS
<1>5. \A y \in S : x <= y
  BY <1>3, <1>4
<1> QED BY <1>5

\* A set that holds 0 and with every number its successor holds them all.
LEMMA Induct ==
    ASSUME NEW S \in SUBSET Nat, 0 \in S, \A n \in S : n + 1 \in S
    PROVE  \A n \in Nat : n \in S
<1> SUFFICES ASSUME Nat \ S # {} PROVE FALSE
  OBVIOUS
<1>1. PICK m \in Nat \ S : \A k \in Nat \ S : m <= k
  BY LeastNat
<1>2. m - 1 \in Nat /\ m - 1 \notin Nat \ S
  BY <1>1
<1> QED BY <1>2

\* The same up to a bound.
LEMMA InductUpTo ==
    ASSUME NEW N \in Nat, NEW S, 0 \in S,
           \A n \in 0 .. N - 1 : n \in S => n + 1 \in S
    PROVE  \A n \in 0 .. N : n \in S
<1> DEFINE U == {n \in Nat : n <= N => n \in S}
<1>1. 0 \in U
  OBVIOUS
<1>2. \A n \in U : n + 1 \in U
  OBVIOUS
<1>3. \A n \in Nat : n \in U
  <2>1. U \in SUBSET Nat
    OBVIOUS
  <2> HIDE DEF U
  <2> QED BY <1>1, <1>2, <2>1, Induct
<1> QED BY <1>3

\* A function may be defined by its value at 0 and each next value from the last one.
Iterates(N, F, x, f) == f[0] = x /\ \A k \in 1 .. N : f[k] = F[k][f[k - 1]]

LEMMA RecursionUpTo ==
    ASSUME NEW N \in Nat, NEW T, NEW F \in [1 .. N -> [T -> T]], NEW x \in T
    PROVE  \E f \in [0 .. N -> T] : Iterates(N, F, x, f)
<1> DEFINE Upto(n, g) == /\ g \in [0 .. n -> T] /\ g[0] = x
                         /\ \A k \in 1 .. n : g[k] = F[k][g[k - 1]]
           S == {n \in 0 .. N : \E g : Upto(n, g)}
<1>1. 0 \in S
  <2> DEFINE g0 == [k \in 0 .. 0 |-> x]
  <2>1. Upto(0, g0)
    OBVIOUS
  <2> HIDE DEF Upto, g0
  <2> QED BY <2>1
<1>2. \A n \in 0 .. N - 1 : n \in S => n + 1 \in S
  <2> SUFFICES ASSUME NEW n \in 0 .. N - 1, n \in S PROVE n + 1 \in S
    OBVIOUS
  <2>1. PICK g : Upto(n, g)
    OBVIOUS
  <2> DEFINE h == [k \in 0 .. n + 1 |-> IF k <= n THEN g[k] ELSE F[n + 1][g[n]]]
  <2>2. F[n + 1][g[n]] \in T
    BY <2>1
  <2>3. h \in [0 .. n + 1 -> T] /\ h[0] = x
    BY <2>1, <2>2
  <2>4. ASSUME NEW k \in 1 .. n + 1 PROVE h[k] = F[k][h[k - 1]]
    <3>1. CASE k <= n
      BY <2>1, <3>1
    <3>2. CASE k = n + 1
      <4>1. h[n + 1] = F[n + 1][g[n]] /\ h[n] = g[n] /\ k - 1 = n
        BY <3>2
      <4> HIDE DEF h
      <4> QED BY <3>2, <4>1
    <3> QED BY <3>1, <3>2
  <2>5. Upto(n + 1, h)
    BY <2>3, <2>4
  <2>6. n + 1 \in 0 .. N
    OBVIOUS
  <2> HIDE DEF h, Upto
  <2> QED BY <2>5, <2>6
<1>3. N \in S
  <2> HIDE DEF S, Upto
  <2>1. \A n \in 0 .. N : n \in S
    BY <1>1, <1>2, InductUpTo
  <2> QED BY <2>1
<1> QED BY <1>3 DEF Iterates

-----------------------------------------------------------------------------
(* Chains: where a walk begins, and what an allocation gives.              *)

IsWalk(f, first, w) ==
    w = [k \in 0 .. MaxCluster |->
           IF k = 0 THEN first
           ELSE IF w[k - 1] \in Cluster THEN f[w[k - 1]] ELSE w[k - 1]]
Follows(f, first, w) ==
    /\ w[0] = first
    /\ \A k \in 1 .. MaxCluster :
         w[k] = IF w[k - 1] \in Cluster THEN f[w[k - 1]] ELSE w[k - 1]

LEMMA Numbers ==
    /\ MaxCluster \in Nat /\ MaxCluster > 2 /\ Cluster \in SUBSET Nat
    /\ FREE \notin Cluster /\ EOC \notin Cluster /\ NoCluster \notin Cluster /\ 1 \notin Cluster
    /\ FREE = 0 /\ NoCluster = 0 /\ EOC # FREE
BY SMTT(40), Fat12Assumption DEF Cluster, FREE, EOC, NoCluster

LEMMA ClusterNat == \A c \in Cluster : c \in Nat /\ 2 <= c /\ c < MaxCluster
BY Fat12Assumption DEF Cluster

\* The walk is defined: it follows the links from its first cluster.
LEMMA WalkFollows ==
    ASSUME NEW f, NEW first
    PROVE  Follows(f, first, Walk(f, first)) /\ IsWalk(f, first, Walk(f, first))
<1> DEFINE T == Cluster \cup {f[c] : c \in Cluster} \cup {first}
           F == [k \in 1 .. MaxCluster |-> [x \in T |-> IF x \in Cluster THEN f[x] ELSE x]]
<1>0. MaxCluster \in Nat
  BY Numbers
<1>1. F \in [1 .. MaxCluster -> [T -> T]] /\ first \in T
  OBVIOUS
<1>2. \A k \in 1 .. MaxCluster, x \in T : F[k][x] = IF x \in Cluster THEN f[x] ELSE x
  OBVIOUS
<1> HIDE DEF F, T
<1>3. PICK g \in [0 .. MaxCluster -> T] : Iterates(MaxCluster, F, first, g)
  BY <1>0, <1>1, RecursionUpTo
<1>4. \A k \in 1 .. MaxCluster : k - 1 \in 0 .. MaxCluster /\ k # 0
  BY <1>0
<1>5. \A k \in 1 .. MaxCluster : g[k] = IF g[k - 1] \in Cluster THEN f[g[k - 1]] ELSE g[k - 1]
  BY <1>2, <1>3, <1>4 DEF Iterates
<1>6. \A k \in 0 .. MaxCluster : k # 0 => k \in 1 .. MaxCluster
  BY <1>0
<1>7. IsWalk(f, first, g)
  BY <1>3, <1>5, <1>6 DEF IsWalk, Iterates
<1>8. Walk(f, first) = CHOOSE w : IsWalk(f, first, w)
  BY DEF Walk, IsWalk
<1>9. IsWalk(f, first, Walk(f, first))
  BY <1>7, <1>8
<1>10. 0 \in 0 .. MaxCluster /\ \A k \in 1 .. MaxCluster : k \in 0 .. MaxCluster
  BY <1>0
<1> DEFINE w == Walk(f, first)
<1> HIDE DEF w
<1>11. IsWalk(f, first, w)
  BY <1>9 DEF w
<1>12. Follows(f, first, w)
  BY <1>11, <1>10, <1>4 DEF IsWalk, Follows
<1> QED BY <1>12, <1>11 DEF w

LEMMA LeastIn ==
    ASSUME NEW S \in SUBSET Nat, S # {}
    PROVE  Min(S) \in S /\ \A x \in S : Min(S) <= x
<1>1. PICK m \in S : \A k \in S : m <= k
  BY LeastNat
<1>2. Min(S) = CHOOSE x \in S : \A y \in S : x <= y
  BY DEF Min
<1> QED BY ZenonT(40), <1>1, <1>2

LEMMA FindsFree ==
    ASSUME NEW f, NEW start \in Nat
    PROVE  LET cl == fat12_find_free_cluster(f, start)
           IN  cl = NoCluster \/ (cl \in Cluster /\ cl >= start /\ f[cl] = FREE)
<1> DEFINE free == {c \in Cluster : c >= start /\ f[c] = FREE}
<1>1. CASE free = {}
  BY <1>1 DEF fat12_find_free_cluster
<1>2. CASE free # {}
  <2>1. free \in SUBSET Nat
    BY ZenonT(40), Numbers
  <2>2. Min(free) \in free
    BY <1>2, <2>1, LeastIn
  <2>3. fat12_find_free_cluster(f, start) = Min(free)
    BY <1>2 DEF fat12_find_free_cluster
  <2> QED BY <2>2, <2>3
<1> QED BY <1>1, <1>2

\* The state of the loop of TakeClusters, before it and after one more turn.
Loops == [fat : Fat, first : Cluster \cup {0}, prev : Cluster \cup {1}, ok : BOOLEAN]
Start_(f) == [fat |-> f, first |-> NoCluster, prev |-> 1, ok |-> TRUE]
Linked(s, cl) == [fat |-> [c \in Cluster |->
                             IF c = cl THEN EOC
                             ELSE IF c = s.prev THEN cl ELSE s.fat[c]],
                  first |-> IF s.first = NoCluster THEN cl ELSE s.first,
                  prev |-> cl, ok |-> TRUE]
Turn(s) ==
    LET cl == fat12_find_free_cluster(s.fat, s.prev + 1)
    IN  IF ~s.ok \/ cl = NoCluster THEN [s EXCEPT !.ok = FALSE] ELSE Linked(s, cl)
IsLoop(f, n, st) == st = [i \in 0 .. n |-> IF i = 0 THEN Start_(f) ELSE Turn(st[i - 1])]

LEMMA TurnType == ASSUME NEW s \in Loops PROVE Turn(s) \in Loops
<1> DEFINE cl == fat12_find_free_cluster(s.fat, s.prev + 1)
<1>0. s.prev \in Cluster \cup {1} /\ s.fat \in Fat
  BY DEF Loops
<1>1. s.prev + 1 \in Nat
  <2>1. s.prev \in Nat
    BY <1>0, ClusterNat
  <2> QED BY <2>1
<1>2. cl = NoCluster \/ cl \in Cluster
  BY <1>1, FindsFree
<1> HIDE DEF cl
<1>3. CASE ~s.ok \/ cl = NoCluster
  <2>1. Turn(s) = [s EXCEPT !.ok = FALSE]
    BY <1>3 DEF Turn, cl
  <2> QED BY ZenonT(40), <2>1 DEF Loops
<1>4. CASE s.ok /\ cl # NoCluster
  <2>1. Turn(s) = Linked(s, cl) /\ cl \in Cluster
    BY <1>2, <1>4 DEF Turn, cl
  <2>2. [c \in Cluster |-> IF c = cl THEN EOC ELSE IF c = s.prev THEN cl ELSE s.fat[c]] \in Fat
    BY <1>0, <2>1 DEF Fat
  <2>3. s.first \in Cluster \cup {0}
    BY DEF Loops
  <2> QED BY <2>1, <2>2, <2>3 DEF Loops, Linked
<1> QED BY <1>3, <1>4 DEF Loops

\* The loop is defined.
LEMMA LoopExists ==
    ASSUME NEW f \in Fat, NEW n \in Nat
    PROVE  \E st \in [0 .. n -> Loops] :
             /\ TakeClusters(f, n) = st[n] /\ st[0] = Start_(f)
             /\ \A i \in 1 .. n : st[i] = Turn(st[i - 1])
<1> DEFINE F == [k \in 1 .. n |-> [s \in Loops |-> Turn(s)]]
<1>1. F \in [1 .. n -> [Loops -> Loops]]
  BY TurnType
<1>2. Start_(f) \in Loops
  BY Numbers DEF Start_, Loops
<1>3. \A k \in 1 .. n, s \in Loops : F[k][s] = Turn(s)
  OBVIOUS
<1> HIDE DEF F
<1>4. PICK g \in [0 .. n -> Loops] : Iterates(n, F, Start_(f), g)
  BY ZenonT(40), <1>1, <1>2, RecursionUpTo
<1>5. \A k \in 1 .. n : k - 1 \in 0 .. n /\ k # 0 /\ k \in 0 .. n
  OBVIOUS
<1>6. g[0] = Start_(f) /\ \A k \in 1 .. n : g[k] = Turn(g[k - 1])
  BY <1>3, <1>4, <1>5 DEF Iterates
<1>7. \A k \in 0 .. n : k # 0 => k \in 1 .. n
  OBVIOUS
<1>8. IsLoop(f, n, g)
  BY <1>4, <1>6, <1>7, Zenon DEF IsLoop
<1> DEFINE st == CHOOSE s : IsLoop(f, n, s)
<1>9. TakeClusters(f, n) = st[n]
  BY DEF TakeClusters, IsLoop, Start_, Turn, Linked
<1>10. IsLoop(f, n, st)
  BY <1>8
<1> HIDE DEF st
<1>11. /\ st[0] = Start_(f) /\ \A k \in 1 .. n : st[k] = Turn(st[k - 1])
       /\ st = [k \in 0 .. n |-> st[k]]
  <2>1. 0 \in 0 .. n
    OBVIOUS
  <2>2. st = [k \in 0 .. n |-> IF k = 0 THEN Start_(f) ELSE Turn(st[k - 1])]
    BY <1>10 DEF IsLoop
  <2>3. \A k \in 0 .. n : st[k] = IF k = 0 THEN Start_(f) ELSE Turn(st[k - 1])
    BY <2>2, Zenon
  <2>4. st = [k \in 0 .. n |-> st[k]]
    BY <2>2, <2>3
  <2> QED BY ZenonT(40), <2>1, <2>3, <2>4, <1>5
<1>12. \A k \in 0 .. n : st[k] \in Loops
  <2> DEFINE S == {k \in 0 .. n : st[k] \in Loops}
  <2>1. 0 \in S
    BY <1>2, <1>11
  <2>2. \A k \in 0 .. n - 1 : k \in S => k + 1 \in S
    <3> SUFFICES ASSUME NEW k \in 0 .. n - 1, st[k] \in Loops PROVE k + 1 \in S
      OBVIOUS
    <3>1. k + 1 \in 1 .. n /\ k + 1 \in 0 .. n /\ (k + 1) - 1 = k
      OBVIOUS
    <3> QED BY ZenonT(40), <1>11, <3>1, TurnType
  <2> HIDE DEF S
  <2>3. \A k \in 0 .. n : k \in S
    BY <2>1, <2>2, InductUpTo
  <2> QED BY <2>3 DEF S
<1>13. st \in [0 .. n -> Loops]
  BY <1>11, <1>12
<1> QED BY ZenonT(40), <1>9, <1>11, <1>13

LEMMA FreeType == ASSUME NEW f \in Fat, NEW c PROVE fat12_free_chain(f, c) \in Fat
BY DEF fat12_free_chain, Fat

LEMMA AllocType ==
    ASSUME NEW f \in Fat, NEW n \in Nat
    PROVE  /\ fat12_alloc_chain(f, n).fat \in Fat
           /\ fat12_alloc_chain(f, n).first \in Cluster \cup {0}
<1>1. PICK st \in [0 .. n -> Loops] : TakeClusters(f, n) = st[n]
  BY LoopExists
<1>2. st[n] \in Loops
  OBVIOUS
<1>3. TakeClusters(f, n).fat \in Fat /\ TakeClusters(f, n).first \in Cluster \cup {0}
  BY <1>1, <1>2 DEF Loops
<1> QED BY <1>3, FreeType DEF fat12_alloc_chain, NoCluster

-----------------------------------------------------------------------------
(* Directories.                                                            *)

Entries == [st : {"end", "deleted", "file", "dir"}, name : Names \cup {"none"},
            first : Cluster \cup {0}, size : Nat]
Dir(r) ==
    /\ r \in [Slots -> Entries]
    /\ \A i \in Used(r), j \in Slots : j <= i => r[j].st # "end"
    /\ \A i, j \in Used(r) : r[i].name = r[j].name => i = j
NamesOf(r) == {r[i].name : i \in Used(r)}

\* A name is found exactly when the directory holds it.
LEMMA Finds ==
    ASSUME NEW r, Dir(r), NEW nm
    PROVE  LET i == find_dir_entry(r, nm)
           IN  /\ On(r, nm) <=> nm \in NamesOf(r)
               /\ On(r, nm) <=> i # 0
               /\ i # 0 => i \in Used(r) /\ r[i].name = nm
               /\ \A j \in Used(r) : r[j].name = nm => i = j
<1> DEFINE hits == {i \in Slots : /\ \A j \in 1 .. i : r[j].st # "end"
                                  /\ InUse(r[i]) /\ r[i].name = nm}
           i == find_dir_entry(r, nm)
<1>0. i = IF hits = {} THEN 0 ELSE Min(hits)
  BY DEF find_dir_entry
<1>1. hits = {k \in Used(r) : r[k].name = nm}
  <2>1. NSlots \in Nat /\ Slots = 1 .. NSlots
    BY Fat12Assumption DEF Slots
  <2>2. \A k \in Slots : \A j \in 1 .. k : j \in Slots /\ j <= k
    BY <2>1
  <2>3. \A k \in Used(r) : k \in Slots /\ \A j \in 1 .. k : r[j].st # "end"
    BY <2>2 DEF Dir, Used
  <2> QED BY <2>3 DEF Used
<1> HIDE DEF hits, i
<1>2. CASE hits = {}
  <2>1. i = 0 /\ \A k \in Used(r) : r[k].name # nm
    BY <1>0, <1>1, <1>2
  <2> QED BY <2>1 DEF On, NamesOf, i
<1>3. CASE hits # {}
  <2>1. hits \in SUBSET Nat /\ 0 \notin hits
    BY <1>1 DEF Used, Slots
  <2>2. i \in hits
    BY ZenonT(40), <1>0, <1>3, <2>1, LeastIn
  <2>3. i \in Used(r) /\ r[i].name = nm /\ i # 0
    BY <1>1, <2>1, <2>2
  <2>4. \A j \in Used(r) : r[j].name = nm => i = j
    BY <2>3 DEF Dir
  <2>5. nm \in NamesOf(r)
    BY <2>3 DEF NamesOf
  <2> QED BY <2>3, <2>4, <2>5 DEF On, i
<1> QED BY <1>2, <1>3

LEMMA FindsSlot ==
    ASSUME NEW r, NEW i, i = find_free_dir_slot(r), i # 0
    PROVE  i \in Slots /\ i \notin Used(r) /\ \A j \in Slots : j < i => j \in Used(r)
<1> DEFINE free == {k \in Slots : ~InUse(r[k])}
<1>1. free # {} /\ i = Min(free)
  BY DEF find_free_dir_slot
<1>2. free \in SUBSET Nat
  BY DEF Slots
<1>3. i \in free /\ \A k \in free : i <= k
  BY <1>1, <1>2, LeastIn
<1>4. ASSUME NEW j \in Slots, j < i PROVE j \in Used(r)
  <2>1. j \in Nat /\ i \in Nat
    BY <1>2, <1>3 DEF Slots
  <2>2. j \notin free
    BY <1>3, <1>4, <2>1
  <2> QED BY <2>2 DEF Used
<1> QED BY <1>3, <1>4 DEF Used

\* Where an entry for a name may be put: in the entry of that name, or in the first free
\* one when there is none.
Place(r, off, nm) ==
    /\ off \in Slots
    /\ \/ off \in Used(r) /\ r[off].name = nm
       \/ /\ off \notin Used(r) /\ nm \notin NamesOf(r)
          /\ \A j \in Slots : j < off => j \in Used(r)

LEMMA DirPut ==
    ASSUME NEW r, Dir(r), NEW off, NEW e \in Entries, Place(r, off, e.name), InUse(e)
    PROVE  LET s == [r EXCEPT ![off] = e]
           IN  /\ Dir(s) /\ NamesOf(s) = NamesOf(r) \cup {e.name}
               /\ off \in Used(s) /\ s[off] = e
<1> DEFINE s == [r EXCEPT ![off] = e]
<1>0. r \in [Slots -> Entries] /\ off \in Slots
  BY DEF Dir, Place
<1>1. s \in [Slots -> Entries] /\ s[off] = e /\ \A j \in Slots : j # off => s[j] = r[j]
  BY <1>0
<1> HIDE DEF s
<1>2. Used(s) = Used(r) \cup {off}
  BY <1>0, <1>1 DEF Used
<1>3. \A i, j \in Used(s) : s[i].name = s[j].name => i = j
  BY <1>0, <1>1, <1>2 DEF Dir, Place, Used, NamesOf
<1>4. \A i \in Used(s), j \in Slots : j <= i => s[j].st # "end"
  <2> SUFFICES ASSUME NEW i \in Used(s), NEW j \in Slots, j <= i PROVE s[j].st # "end"
    OBVIOUS
  <2>0. j \in Nat /\ i \in Nat /\ off \in Nat
    BY <1>0 DEF Slots, Used
  <2>1. \A x : InUse(x) => x.st # "end"
    BY DEF InUse
  <2>2. CASE j = off
    BY <1>1, <2>1, <2>2
  <2>3. CASE j # off /\ j \in Used(r)
    BY <1>1, <2>0, <2>1, <2>3 DEF Used
  <2>4. CASE j # off /\ i \in Used(r)
    BY <1>1, <2>0, <2>4 DEF Dir
  <2>5. CASE j # off /\ j \notin Used(r) /\ i = off
    <3>1. j < off
      BY <2>0, <2>5
    <3>2. off \in Used(r)
      BY <2>0, <2>5, <3>1 DEF Place
    <3> QED BY <2>4, <2>5, <3>2
  <2> QED BY <1>2, <2>2, <2>3, <2>4, <2>5
<1>5. Dir(s)
  BY ZenonT(40), <1>1, <1>3, <1>4 DEF Dir
<1>6. NamesOf(s) = NamesOf(r) \cup {e.name}
  <2>1. \A i \in Used(r) : i \in Slots
    BY DEF Used
  <2>2. off \in Used(r) => r[off].name = e.name
    BY DEF Place
  <2> QED BY ZenonT(40), <1>1, <1>2, <2>1, <2>2 DEF NamesOf
<1> QED BY <1>1, <1>2, <1>5, <1>6 DEF s

LEMMA DirDrop ==
    ASSUME NEW r, Dir(r), NEW off \in Used(r)
    PROVE  LET s == [r EXCEPT ![off].st = "deleted"]
           IN  Dir(s) /\ NamesOf(s) = NamesOf(r) \ {r[off].name}
<1> DEFINE s == [r EXCEPT ![off].st = "deleted"]
<1>0. r \in [Slots -> Entries] /\ off \in Slots
  BY DEF Dir, Used
<1>1. r[off] \in Entries /\ [r[off] EXCEPT !.st = "deleted"] \in Entries
  BY <1>0 DEF Entries
<1>2. s \in [Slots -> Entries] /\ s[off].st = "deleted" /\ \A j \in Slots : j # off => s[j] = r[j]
  BY <1>0, <1>1 DEF Entries
<1> HIDE DEF s
<1>3. Used(s) = Used(r) \ {off}
  BY <1>0, <1>2 DEF Used, InUse
<1>4. \A i \in Used(s), j \in Slots : j <= i => s[j].st # "end"
  BY ZenonT(40), <1>2, <1>3 DEF Dir, Used
<1>5. \A i, j \in Used(s) : s[i].name = s[j].name => i = j
  BY <1>2, <1>3 DEF Dir, Used
<1>6. NamesOf(s) = NamesOf(r) \ {r[off].name}
  <2>1. \A i \in Used(s) : i \in Used(r) /\ s[i] = r[i] /\ r[i].name # r[off].name
    BY <1>2, <1>3 DEF Dir, Used
  <2>2. \A i \in Used(r) : r[i].name # r[off].name => i \in Used(s) /\ s[i] = r[i]
    BY <1>2, <1>3 DEF Used
  <2> QED BY ZenonT(40), <2>1, <2>2 DEF NamesOf
<1> QED BY ZenonT(40), <1>2, <1>4, <1>5, <1>6 DEF Dir, s

\* The first test's file is there as it was written, so it reads back.
Good(r, d) ==
    \E i \in Used(r) : /\ r[i].name = "_SELFTST.TXT" /\ r[i].size = 1 /\ r[i].first \in Cluster
                       /\ d[r[i].first] = <<"hello", 1>>

LEMMA GoodIsThere == ASSUME NEW r, NEW d, Good(r, d) PROVE "_SELFTST.TXT" \in NamesOf(r)
BY DEF Good, NamesOf

LEMMA GoodReads ==
    ASSUME Dir(root), Good(root, data) PROVE Holds("_SELFTST.TXT", "hello")
<1> DEFINE k == find_dir_entry(root, "_SELFTST.TXT")
<1>1. PICK i \in Used(root) :
        /\ root[i].name = "_SELFTST.TXT" /\ root[i].size = 1 /\ root[i].first \in Cluster
        /\ data[root[i].first] = <<"hello", 1>>
  BY DEF Good
<1>2. k = i
  BY <1>1, Finds
<1>3. i # 0
  BY <1>1 DEF Used, Slots
<1>4. Walk(fat, root[i].first)[0] = root[i].first
  BY WalkFollows DEF Follows
<1>5. \A j \in 1 .. 1 : j - 1 = 0
  OBVIOUS
<1>6. fat12_read_file(fat, root[i]) = [j \in 1 .. 1 |-> <<"hello", 1>>]
  <2>1. fat12_read_file(fat, root[i]) =
          [j \in 1 .. 1 |-> LET c == Walk(fat, root[i].first)[j - 1]
                            IN  IF c \in Cluster THEN data[c] ELSE <<"junk", j>>]
    BY <1>1 DEF fat12_read_file, ReadChain
  <2>2. \A j \in 1 .. 1 : (LET c == Walk(fat, root[i].first)[j - 1]
                           IN  IF c \in Cluster THEN data[c] ELSE <<"junk", j>>) = <<"hello", 1>>
    BY <1>1, <1>4, <1>5
  <2> QED BY <2>1, <2>2, ZenonT(40)
<1>7. [j \in 1 .. 1 |-> <<"hello", 1>>] = <<<<"hello", 1>>>>
  OBVIOUS
<1> QED BY <1>2, <1>3, <1>6, <1>7 DEF Holds

-----------------------------------------------------------------------------
(* The invariant.                                                          *)

Early == {"write", "readback", "mkdir", "rmfile", "rmdir"}
Late == {"multi", "rmmulti", "persist", "mark", "unmark", "up"}
Calls == [name : TestNames \cup {"none"}, off : Slots, created : BOOLEAN,
          first : Cluster \cup {0}, size : 0 .. 2, text : {"hello", "wr", "persistent", "none"},
          k : Nat, kind : {"write", "mkdir", "delete", "none"}, root : BOOLEAN]

\* What is in memory and on the disk is a volume of the driver's.
Media ==
    /\ fat \in Fat /\ dfat \in [Copies -> Fat] /\ Dir(root) /\ Dir(droot)
    /\ data = [c \in Cluster |-> data[c]] /\ op \in Calls

Shape ==
    /\ tpc \in Early \cup Late /\ ok \in BOOLEAN /\ ioerr \in BOOLEAN /\ owed \in BOOLEAN
    /\ verdict \in [write : {"none", "ok", "failed"},
                    persist : {"none", "wrote", "survived", "failed", "write failed"}]
    /\ tpc \in Early => verdict.write = "none"
    /\ tpc \in Late => verdict.write # "none"
    /\ verdict.persist # "none" => verdict.write # "none"

\* Which call a step of the script has made.
Made ==
    \/ tpc = "write" /\ op.name = "_SELFTST.TXT" /\ op.size = 1 /\ op.text = "hello"
    \/ tpc = "multi" /\ op.name = "WRTEST.TMP"
    \/ tpc = "mark" /\ op.name = "_WTEST.TXT"

\* What the call has done to the directory when only the flushes are left.
Done ==
    /\ tpc = "write" => Good(root, data)
    /\ tpc = "mkdir" => "_TSTDIR" \in NamesOf(root)
    /\ tpc = "rmfile" => "_SELFTST.TXT" \notin NamesOf(root)
    /\ tpc = "rmdir" => "_TSTDIR" \notin NamesOf(root)

Running ==
    /\ pc \in {"idle", "data", "commit", "body", "fat", "root"}
    /\ pc \in {"data", "commit"} =>
         /\ Made /\ Place(root, op.off, op.name) /\ op.created = (op.off \notin Used(root))
         /\ op.first \in Cluster /\ op.root = TRUE
    /\ pc = "data" => 1 <= op.k /\ op.k <= op.size
    /\ pc = "commit" /\ tpc = "write" => data[op.first] = <<"hello", 1>>
    /\ pc = "body" =>
         /\ tpc = "mkdir" /\ op.name = "_TSTDIR" /\ Place(root, op.off, op.name)
         /\ op.off \notin Used(root) /\ op.first \in Cluster /\ op.root = TRUE
    /\ pc \in {"fat", "root"} => (op.root = TRUE => Done)
    /\ pc = "fat" => op.root = TRUE \/ tpc \in {"write", "multi", "mark"}
    /\ pc = "root" => op.root = TRUE

\* What the write test finds at each of its steps when no call has failed.
Clean ==
    /\ tpc \in {"write", "readback"} \/ (tpc = "mkdir" /\ pc \in {"idle", "body"})
         => ("_TSTDIR" \in NamesOf(root) => "_TSTDIR" \in mounted)
    /\ tpc \in Early => ok = TRUE
    /\ tpc = "readback" => Good(root, data)
    /\ tpc = "mkdir" \/ (tpc = "rmfile" /\ pc = "idle") => "_SELFTST.TXT" \in NamesOf(root)
    /\ tpc = "rmfile" \/ (tpc = "rmdir" /\ pc = "idle") => "_TSTDIR" \in NamesOf(root)

Kept == tpc = "rmdir" => "_SELFTST.TXT" \notin NamesOf(root)
Cleared ==
    verdict.write = "ok" =>
        \A f \in {"_SELFTST.TXT", "_TSTDIR"} : f \notin NamesOf(root) /\ f \notin NamesOf(droot)
Script == (ioerr = FALSE => Clean) /\ Kept /\ FailsOnlyByLeftover /\ Cleared

TestsInv == Media /\ Shape /\ Running /\ Script

LEMMA EmptyDir ==
    LET r == [i \in Slots |-> EmptyEntry] IN Dir(r) /\ NamesOf(r) = {}
<1> DEFINE r == [i \in Slots |-> EmptyEntry]
<1>1. EmptyEntry \in Entries /\ ~InUse(EmptyEntry)
  BY DEF EmptyEntry, Entries, InUse
<1>2. r \in [Slots -> Entries] /\ Used(r) = {}
  BY <1>1 DEF Used
<1> HIDE DEF r
<1>3. Dir(r) /\ NamesOf(r) = {}
  BY <1>2 DEF Dir, NamesOf
<1> QED BY <1>3 DEF r

LEMMA IdleIsCall == IdleOp \in Calls
BY Fat12Assumption DEF IdleOp, Calls, Slots

LEMMA TestsInitInv == TestsInit => TestsInv
<1> SUFFICES ASSUME TestsInit PROVE TestsInv
  OBVIOUS
<1>0. /\ root = [i \in Slots |-> EmptyEntry] /\ droot = root /\ pc = "idle"
      /\ tpc = "write" /\ verdict = NoVerdict /\ ok = TRUE
  BY DEF TestsInit, Init
<1>1. Dir(root) /\ Dir(droot) /\ NamesOf(root) = {}
  BY <1>0, EmptyDir
<1>2. Media
  <2>1. fat \in Fat /\ data = [c \in Cluster |-> data[c]] /\ op \in Calls
    BY IdleIsCall DEF TestsInit, Init, Fat
  <2>2. dfat \in [Copies -> Fat]
    BY <2>1 DEF TestsInit, Init
  <2> QED BY <1>1, <2>1, <2>2 DEF Media
<1>3. Shape
  BY DEF TestsInit, Shape, Early, Late, NoVerdict
<1>4. Running
  BY <1>0 DEF Running
<1>5. Script
  <2>1. Clean
    BY <1>0, <1>1 DEF Clean, Early
  <2>2. Kept /\ FailsOnlyByLeftover /\ Cleared
    BY <1>0, <1>1 DEF Kept, FailsOnlyByLeftover, Cleared, NoVerdict
  <2> QED BY <2>1, <2>2 DEF Script
<1> QED BY <1>2, <1>3, <1>4, <1>5 DEF TestsInv

-----------------------------------------------------------------------------
(* The driver's steps.                                                     *)

\* A write has begun, or has failed at once.
LEMMA WriteBegins ==
    ASSUME Media, NEW nm \in TestNames, NEW n \in {1, 2},
           NEW v \in {"hello", "wr", "persistent"}, fat12_write_file(nm, n, v)
    PROVE  /\ Media' /\ UNCHANGED <<root, droot, data>> /\ pc = "idle"
           /\ \/ pc' = "idle"
              \/ /\ pc' = "data" /\ Place(root, op'.off, nm)
                 /\ op'.created = (op'.off \notin Used(root)) /\ op'.first \in Cluster
                 /\ op'.k = 1 /\ op'.size = n /\ op'.text = v /\ op'.root = TRUE /\ op'.name = nm
<1> DEFINE found == find_dir_entry(root, nm)
           off == IF found = 0 THEN find_free_dir_slot(root) ELSE found
           a == fat12_alloc_chain(fat, n)
<1>0. Dir(root) /\ fat \in Fat /\ op \in Calls /\ n \in Nat /\ n > 0
  BY DEF Media
<1>1. a.fat \in Fat /\ a.first \in Cluster \cup {0}
  BY <1>0, AllocType
<1>2. /\ pc = "idle" /\ off # 0 /\ fat' = a.fat /\ UNCHANGED <<root, dfat, droot, data>>
      /\ IF a.first = NoCluster THEN pc' = pc /\ op' = op
         ELSE pc' = "data" /\ op' = Locals("write", nm, off, found = 0, a.first, n, v)
  BY <1>0 DEF fat12_write_file, Call, NewChain, disk
<1>3. Place(root, off, nm) /\ (found = 0) = (off \notin Used(root))
  <2>1. CASE found = 0
    <3>1. nm \notin NamesOf(root)
      BY <1>0, <2>1, Finds
    <3>2. off \in Slots /\ off \notin Used(root) /\ \A j \in Slots : j < off => j \in Used(root)
      BY <1>2, <2>1, FindsSlot
    <3> QED BY <2>1, <3>1, <3>2 DEF Place
  <2>2. CASE found # 0
    <3>1. off \in Used(root) /\ root[off].name = nm
      BY <1>0, <2>2, Finds
    <3>2. off \in Slots
      BY <3>1 DEF Used
    <3> QED BY <2>2, <3>1, <3>2 DEF Place
  <2> QED BY <2>1, <2>2
<1>4. off \in Slots
  BY <1>3 DEF Place
<1> HIDE DEF found, off, a
<1>5. CASE a.first = NoCluster
  <2>1. pc' = "idle" /\ op' = op
    BY <1>2, <1>5
  <2> QED BY <1>0, <1>1, <1>2, <2>1 DEF Media
<1>6. CASE a.first # NoCluster
  <2>1. a.first \in Cluster
    BY <1>1, <1>6 DEF NoCluster
  <2>2. pc' = "data" /\ op' = Locals("write", nm, off, found = 0, a.first, n, v)
    BY <1>2, <1>6
  <2>3. op' \in Calls
    BY <1>4, <2>1, <2>2 DEF Locals, Calls
  <2>4. /\ op'.off = off /\ op'.created = (found = 0) /\ op'.first = a.first
        /\ op'.k = 1 /\ op'.size = n /\ op'.text = v /\ op'.root = TRUE /\ op'.name = nm
    BY <2>2 DEF Locals
  <2> QED BY <1>1, <1>2, <1>3, <2>1, <2>2, <2>3, <2>4 DEF Media
<1> QED BY <1>5, <1>6

LEMMA DirBegins ==
    ASSUME Media, fat12_create_dir("_TSTDIR")
    PROVE  /\ Media' /\ UNCHANGED <<root, droot, data>> /\ pc = "idle" /\ pc' = "body"
           /\ op'.name = "_TSTDIR" /\ Place(root, op'.off, op'.name)
           /\ op'.off \notin Used(root) /\ op'.first \in Cluster /\ op'.root = TRUE
<1> DEFINE off == find_free_dir_slot(root)
           a == fat12_alloc_chain(fat, 1)
<1>0. Dir(root) /\ fat \in Fat
  BY DEF Media
<1>1. a.fat \in Fat /\ a.first \in Cluster \cup {0}
  BY <1>0, AllocType
<1>2. /\ pc = "idle" /\ off # 0 /\ find_dir_entry(root, "_TSTDIR") = 0
      /\ fat' = a.fat /\ UNCHANGED <<root, dfat, droot, data>> /\ a.first # NoCluster
      /\ pc' = "body" /\ op' = Locals("mkdir", "_TSTDIR", off, TRUE, a.first, 0, "none")
  BY DEF fat12_create_dir, Call, disk
<1>3. Place(root, off, "_TSTDIR") /\ off \notin Used(root) /\ off \in Slots
  <2>1. "_TSTDIR" \notin NamesOf(root)
    BY <1>0, <1>2, Finds
  <2>2. off \in Slots /\ off \notin Used(root) /\ \A j \in Slots : j < off => j \in Used(root)
    BY <1>2, FindsSlot
  <2> QED BY <2>1, <2>2 DEF Place
<1> HIDE DEF off, a
<1>4. a.first \in Cluster
  BY <1>1, <1>2 DEF NoCluster
<1>5. op' \in Calls
  BY <1>2, <1>3, <1>4 DEF Locals, Calls, TestNames
<1>6. op'.off = off /\ op'.first = a.first /\ op'.root = TRUE /\ op'.name = "_TSTDIR"
  BY <1>2 DEF Locals
<1> QED BY <1>0, <1>1, <1>2, <1>3, <1>4, <1>5, <1>6 DEF Media

LEMMA DeleteBegins ==
    ASSUME Media, NEW nm \in TestNames, fat12_delete_file(nm)
    PROVE  /\ Media' /\ UNCHANGED <<droot, data>> /\ pc = "idle" /\ pc' = "fat"
           /\ NamesOf(root') = NamesOf(root) \ {nm} /\ op'.root = TRUE
<1> DEFINE off == find_dir_entry(root, nm)
<1>0. Dir(root) /\ fat \in Fat
  BY DEF Media
<1>1. /\ pc = "idle" /\ off # 0 /\ root' = [root EXCEPT ![off].st = "deleted"] /\ pc' = "fat"
      /\ fat' \in {fat, fat12_free_chain(fat, root[off].first)}
      /\ op' = Locals("delete", nm, off, FALSE, 0, 0, "none")
      /\ UNCHANGED <<dfat, droot, data>>
  BY DEF fat12_delete_file, Call, disk
<1>2. off \in Used(root) /\ root[off].name = nm
  BY <1>0, <1>1, Finds
<1> HIDE DEF off
<1>3. Dir(root') /\ NamesOf(root') = NamesOf(root) \ {nm}
  BY <1>0, <1>1, <1>2, DirDrop
<1>4. op' \in Calls /\ op'.root = TRUE
  BY <1>1, <1>2 DEF Locals, Calls, Used
<1>5. fat' \in Fat
  BY <1>0, <1>1, FreeType
<1> QED BY <1>1, <1>3, <1>4, <1>5 DEF Media

\* A cluster is written: the directory is as it was.
LEMMA ClusterWritten ==
    ASSUME Media, Running, WriteCluster
    PROVE  /\ Media' /\ UNCHANGED <<root, droot>> /\ pc = "data" /\ pc' \in {"data", "commit"}
           /\ \A f \in {"name", "off", "created", "first", "size", "text", "root"} : op'[f] = op[f]
           /\ pc' = "data" => 1 <= op'.k /\ op'.k <= op'.size
           /\ op.size = 1 => pc' = "commit" /\ data'[op.first] = <<op.text, 1>>
<1>0. op \in Calls /\ op.k \in Nat /\ op.size \in Nat /\ 1 <= op.k /\ op.k <= op.size /\ op.first \in Cluster
  BY DEF Media, Running, WriteCluster, Calls
<1>1. /\ pc = "data" /\ UNCHANGED <<fat, root, dfat, droot>>
      /\ data' = [data EXCEPT ![Walk(fat, op.first)[op.k - 1]] = <<op.text, op.k>>]
      /\ IF op.k < op.size THEN op' = [op EXCEPT !.k = op.k + 1] /\ pc' = pc
         ELSE op' = [op EXCEPT !.k = 1] /\ pc' = "commit"
  BY DEF WriteCluster, mem
<1>2. op' \in Calls /\ \A f \in {"name", "off", "created", "first", "size", "text", "root"} : op'[f] = op[f]
  BY <1>0, <1>1 DEF Calls
<1>3. pc' = "data" => 1 <= op'.k /\ op'.k <= op'.size
  BY <1>0, <1>1 DEF Calls
<1>4. data' = [c \in Cluster |-> data'[c]]
  BY <1>1 DEF Media
<1>5. ASSUME op.size = 1 PROVE pc' = "commit" /\ data'[op.first] = <<op.text, 1>>
  <2>1. op.k = 1 /\ op.k - 1 = 0
    BY <1>0, <1>5
  <2>2. Walk(fat, op.first)[0] = op.first
    BY WalkFollows DEF Follows
  <2>3. data' = [data EXCEPT ![op.first] = <<op.text, 1>>]
    BY <1>1, <2>1, <2>2
  <2> QED BY <1>0, <1>1, <1>5, <2>1, <2>3 DEF Media
<1>6. Media'
  BY <1>1, <1>2, <1>4 DEF Media
<1> QED BY <1>1, <1>2, <1>3, <1>5, <1>6

\* The entry is switched over: the directory has the name.
LEMMA EntryWritten ==
    ASSUME Media, Running, CommitWrite
    PROVE  /\ Media' /\ UNCHANGED <<droot, data, op>> /\ pc = "commit" /\ pc' = "fat"
           /\ NamesOf(root') = NamesOf(root) \cup {op.name}
           /\ tpc = "write" => Good(root', data')
<1> DEFINE e == root[op.off]
           w == Written(e)
<1>0. /\ Dir(root) /\ fat \in Fat /\ op \in Calls /\ Made /\ pc = "commit"
      /\ Place(root, op.off, op.name) /\ op.created = (op.off \notin Used(root))
      /\ op.first \in Cluster
  BY DEF Media, Running, CommitWrite
<1>1. /\ pc' = "fat" /\ root' = [root EXCEPT ![op.off] = w]
      /\ fat' \in {fat, fat12_free_chain(fat, e.first)} /\ UNCHANGED <<dfat, droot, data, op>>
  BY DEF CommitWrite, disk
<1>2. e \in Entries /\ op.off \in Slots
  BY <1>0 DEF Dir, Place
<1>3. w = [st |-> IF op.created THEN "file" ELSE e.st,
           name |-> op.name, first |-> op.first, size |-> op.size]
  BY DEF Written
<1>4. w \in Entries /\ w.name = op.name
  <2>1. op.name \in Names
    BY <1>0, BootTestsAssumption DEF Made, TestNames
  <2>2. op.size \in Nat
    BY <1>0 DEF Calls
  <2> QED BY <1>0, <1>2, <1>3, <2>1, <2>2 DEF Entries
<1>5. InUse(w)
  <2>1. CASE op.created = TRUE
    BY <1>3, <2>1 DEF InUse
  <2>2. CASE op.created = FALSE
    <3>1. op.off \in Used(root)
      BY <1>0, <2>2
    <3> QED BY <1>3, <2>2, <3>1 DEF InUse, Used
  <2> QED BY <1>0, <2>1, <2>2 DEF Calls
<1>6. w.first = op.first /\ w.size = op.size
  BY <1>3
<1>7. /\ Dir(root') /\ NamesOf(root') = NamesOf(root) \cup {op.name}
      /\ op.off \in Used(root') /\ root'[op.off] = w
  <2> HIDE DEF e, w
  <2>1. Place(root, op.off, w.name)
    BY <1>0, <1>4
  <2> DEFINE s == [root EXCEPT ![op.off] = w]
  <2>2. Dir(s) /\ NamesOf(s) = NamesOf(root) \cup {w.name} /\ op.off \in Used(s) /\ s[op.off] = w
    <3>1. Dir(root) /\ w \in Entries
      BY <1>0, <1>4
    <3> QED BY ZenonT(40), <1>5, <2>1, <3>1, DirPut
  <2> HIDE DEF s
  <2>3. root' = s
    BY <1>1 DEF s
  <2> QED BY <1>4, <2>2, <2>3
<1> HIDE DEF e, w
<1>8. ASSUME tpc = "write" PROVE Good(root', data')
  <2>1. op.name = "_SELFTST.TXT" /\ op.size = 1 /\ data[op.first] = <<"hello", 1>>
    BY <1>0, <1>8 DEF Made, Running
  <2> QED BY <1>0, <1>1, <1>4, <1>6, <1>7, <2>1 DEF Good
<1>9. fat' \in Fat
  BY <1>0, <1>1, FreeType
<1> QED BY <1>0, <1>1, <1>7, <1>8, <1>9 DEF Media

LEMMA BodyWritten ==
    ASSUME Media, Running, WriteDirBody
    PROVE  /\ Media' /\ UNCHANGED <<droot, op>> /\ pc = "body" /\ pc' = "fat"
           /\ NamesOf(root') = NamesOf(root) \cup {"_TSTDIR"}
<1> DEFINE e == NewEntry("dir", op.name, op.first)
<1>0. /\ Dir(root) /\ fat \in Fat /\ op \in Calls /\ pc = "body" /\ op.name = "_TSTDIR"
      /\ Place(root, op.off, op.name) /\ op.first \in Cluster
  BY DEF Media, Running, WriteDirBody
<1>1. /\ pc' = "fat" /\ root' = [root EXCEPT ![op.off] = e]
      /\ data' = [data EXCEPT ![op.first] = <<"dots", 1>>] /\ UNCHANGED <<fat, dfat, droot, op>>
  BY DEF WriteDirBody
<1>2. e \in Entries /\ e.name = "_TSTDIR" /\ InUse(e)
  BY <1>0, BootTestsAssumption DEF NewEntry, Entries, InUse, TestNames
<1> HIDE DEF e
<1>3. Dir(root') /\ NamesOf(root') = NamesOf(root) \cup {"_TSTDIR"}
  <2>1. Place(root, op.off, e.name)
    BY <1>0, <1>2
  <2> DEFINE s == [root EXCEPT ![op.off] = e]
  <2>2. Dir(s) /\ NamesOf(s) = NamesOf(root) \cup {e.name}
    BY ZenonT(40), <1>0, <1>2, <2>1, DirPut
  <2> HIDE DEF s
  <2>3. root' = s
    BY <1>1 DEF s
  <2> QED BY <1>2, <2>2, <2>3
<1>4. data' = [c \in Cluster |-> data'[c]]
  BY <1>1 DEF Media
<1> QED BY <1>0, <1>1, <1>3, <1>4 DEF Media

-----------------------------------------------------------------------------
(* The script's steps.                                                     *)

\* No call is running.
LEMMA Idle == ASSUME pc' = "idle" PROVE Running'
BY DEF Running

\* A call has returned an error of the disk, or that there is no room.
LEMMA FailReturns ==
    ASSUME Shape, Script, Fails, root' = root, droot' = droot PROVE Shape' /\ Script'
<1> USE DEF Fails, Returned, Goto, Verdict, Says, Ends, Shape, Early, Late
<1>1. Shape'
  OBVIOUS
<1>2. Kept'
  BY DEF Kept
<1>3. FailsOnlyByLeftover'
  BY DEF FailsOnlyByLeftover
<1>4. Cleared'
  BY DEF Cleared, Script
<1>5. ioerr' # FALSE
  OBVIOUS
<1> QED BY <1>1, <1>2, <1>3, <1>4, <1>5 DEF Script

\* A call is refused because of its name.
LEMMA RefusedReturns ==
    ASSUME Shape, Script, Media, Refused, pc = "idle",
           \/ tpc = "mkdir" /\ "_TSTDIR" \in NamesOf(root)
           \/ tpc = "rmfile" /\ "_SELFTST.TXT" \notin NamesOf(root)
           \/ tpc = "rmdir" /\ "_TSTDIR" \notin NamesOf(root)
           \/ tpc \in {"rmmulti", "unmark"}
    PROVE  Shape' /\ Script' /\ Running'
<1>0. root' = root /\ droot' = droot /\ pc' = "idle" /\ ioerr' = ioerr /\ mounted' = mounted /\ data' = data
  BY DEF Refused, Returned, vars, mem, disk
<1> USE DEF Refused, Returned, Goto, Verdict, Says, Ends, Shape, Early, Late
<1>1. Shape'
  BY <1>0
<1>2. Kept'
  BY <1>0 DEF Kept
<1>3. FailsOnlyByLeftover'
  <2> SUFFICES ASSUME verdict'.write = "failed", ~ioerr' PROVE "_TSTDIR" \in mounted
    BY <1>0 DEF FailsOnlyByLeftover
  <2>0. ioerr = FALSE
    <3>1. ioerr \in BOOLEAN /\ ioerr' = ioerr
      BY <1>0 DEF Shape
    <3> HIDE DEF Refused, Returned, Shape
    <3> QED BY ZenonT(40), <3>1
  <2>1. Clean /\ FailsOnlyByLeftover
    BY <2>0 DEF Script
  <2>2. CASE tpc \in {"mkdir", "rmfile", "rmdir"}
    BY <2>1, <2>2 DEF Clean
  <2>3. CASE tpc \in {"rmmulti", "unmark"}
    <3>1. verdict'.write = verdict.write
      BY <2>3
    <3> QED BY <2>0, <2>1, <3>1 DEF FailsOnlyByLeftover
  <2> QED BY <2>2, <2>3
<1>4. Cleared'
  BY <1>0 DEF Cleared, Script
<1>5. ioerr' = FALSE => Clean'
  BY <1>0 DEF Clean
<1>6. Running'
  BY <1>0, Idle
<1> QED BY <1>1, <1>2, <1>3, <1>4, <1>5, <1>6 DEF Script

\* The root directory is flushed, and the call returns success.
LEMMA SuccessReturns ==
    ASSUME TestsInv, flush_root, Succeeds PROVE TestsInv'
<1>0. /\ root' = root /\ droot' = root /\ pc = "root" /\ pc' = "idle" /\ data' = data
      /\ fat' = fat /\ dfat' = dfat /\ op' = IdleOp /\ Done
      /\ ioerr' = ioerr /\ mounted' = mounted /\ Returned(TRUE)
  BY DEF TestsInv, Running, flush_root, Succeeds, Returned, CallReturns, mem
<1>1. Media'
  BY <1>0, IdleIsCall DEF TestsInv, Media
<1>2. Running'
  BY <1>0, Idle
<1>s. Shape /\ Script
  BY DEF TestsInv
<1> USE DEF Returned, Goto, Verdict, Says, Ends, Early, Late
<1>3. Shape'
  BY <1>0, <1>s DEF Shape
<1>4. Kept'
  BY <1>0, <1>s DEF Kept, Done
<1>5. FailsOnlyByLeftover'
  BY <1>0, <1>s DEF FailsOnlyByLeftover, Script, Clean, Shape
<1>6. Cleared'
  BY <1>0, <1>s DEF Cleared, Script, Kept, Done, Shape
<1>7. ASSUME ioerr' = FALSE PROVE Clean'
  <2>1. Clean
    BY <1>0, <1>7, <1>s DEF Script
  <2>2. tpc = "write" => "_SELFTST.TXT" \in NamesOf(root)
    BY <1>0, GoodIsThere DEF Done
  <2> QED BY <1>0, <2>1, <2>2 DEF Clean, Done
<1> QED BY <1>1, <1>2, <1>3, <1>4, <1>5, <1>6, <1>7 DEF TestsInv, Script

\* A step that leaves the script where it is, the files of the first test alone and
\* both directories as they were.
LEMMA ScriptStays ==
    ASSUME Shape, Script, UNCHANGED scriptVars, root' = root, droot' = droot,
           tpc = "readback" => data' = data,
           tpc = "mkdir" /\ pc' \in {"idle", "body"} => pc \in {"idle", "body"},
           pc' = "idle" => pc = "idle"
    PROVE  Shape' /\ Script'
<1>1. /\ tpc' = tpc /\ ok' = ok /\ verdict' = verdict /\ ioerr' = ioerr /\ mounted' = mounted
      /\ owed' = owed
  BY DEF scriptVars
<1>2. Shape'
  BY <1>1 DEF Shape
<1>3. Kept' /\ FailsOnlyByLeftover' /\ Cleared'
  BY <1>1 DEF Script, Kept, FailsOnlyByLeftover, Cleared
<1>4. ioerr' = FALSE => Clean'
  BY <1>1 DEF Script, Clean
<1> QED BY <1>2, <1>3, <1>4 DEF Script

LEMMA WriteKeeps ==
    ASSUME TestsInv, NEW nm \in TestNames, NEW n \in {1, 2},
           NEW v \in {"hello", "wr", "persistent"}, pc = "idle", Write(nm, n, v),
           \/ tpc = "write" /\ nm = "_SELFTST.TXT" /\ n = 1 /\ v = "hello"
           \/ tpc = "multi" /\ nm = "WRTEST.TMP"
           \/ tpc = "mark" /\ nm = "_WTEST.TXT"
    PROVE  TestsInv'
<1>0. Media /\ Shape /\ Script
  BY DEF TestsInv
<1>1. CASE fat12_write_file(nm, n, v) /\ Begun
  <2>0. fat12_write_file(nm, n, v) /\ Begun
    BY <1>1
  <2>1. /\ Media' /\ root' = root /\ droot' = droot /\ data' = data
        /\ \/ pc' = "idle"
           \/ /\ pc' = "data" /\ Place(root, op'.off, nm)
              /\ op'.created = (op'.off \notin Used(root)) /\ op'.first \in Cluster
              /\ op'.k = 1 /\ op'.size = n /\ op'.text = v /\ op'.root = TRUE /\ op'.name = nm
    BY <1>0, <2>0, WriteBegins
  <2>2. CASE pc' = "idle"
    <3>1. Fails
      BY <2>0, <2>2 DEF Begun
    <3> QED BY <1>0, <2>1, <2>2, <3>1, FailReturns, Idle DEF TestsInv
  <2>3. CASE pc' = "data"
    <3>1. UNCHANGED scriptVars
      BY <2>0, <2>3 DEF Begun
    <3>2. tpc' = tpc
      BY <3>1 DEF scriptVars
    <3>3. Shape' /\ Script'
      BY <1>0, <2>1, <2>3, <3>1, ScriptStays
    <3>4. Running'
      BY <2>1, <2>3, <3>2 DEF Running, Made
    <3> QED BY <2>1, <3>3, <3>4 DEF TestsInv
  <2> QED BY <2>1, <2>2, <2>3
<1>2. CASE NoRoom
  <2>1. Fails /\ root' = root /\ droot' = droot /\ pc' = "idle"
    BY <1>2 DEF NoRoom, vars, mem, disk
  <2>2. Media'
    BY <1>0, <1>2 DEF NoRoom, vars, mem, disk, Media
  <2> QED BY <1>0, <2>1, <2>2, FailReturns, Idle DEF TestsInv
<1> QED BY <1>1, <1>2 DEF Write

LEMMA DeleteKeeps ==
    ASSUME TestsInv, NEW nm \in TestNames, pc = "idle", Delete(nm),
           \/ tpc = "rmfile" /\ nm = "_SELFTST.TXT"
           \/ tpc = "rmdir" /\ nm = "_TSTDIR"
           \/ tpc \in {"rmmulti", "unmark"} /\ nm \notin {"_SELFTST.TXT", "_TSTDIR"}
    PROVE  TestsInv'
<1>0. Media /\ Shape /\ Script
  BY DEF TestsInv
<1>1. CASE fat12_delete_file(nm) /\ UNCHANGED scriptVars
  <2>1. /\ Media' /\ droot' = droot /\ data' = data /\ pc' = "fat"
        /\ NamesOf(root') = NamesOf(root) \ {nm} /\ op'.root = TRUE
    BY <1>0, <1>1, DeleteBegins
  <2>2. /\ tpc' = tpc /\ ok' = ok /\ verdict' = verdict /\ ioerr' = ioerr /\ mounted' = mounted
        /\ owed' = owed
    BY <1>1 DEF scriptVars
  <2>3. Shape'
    BY <1>0, <2>2 DEF Shape
  <2>4. Kept' /\ FailsOnlyByLeftover'
    BY <1>0, <2>1, <2>2 DEF Script, Kept, FailsOnlyByLeftover
  <2>5. Cleared'
    BY <1>0, <2>1, <2>2 DEF Script, Cleared
  <2>6. ioerr' = FALSE => Clean'
    BY <1>0, <2>1, <2>2 DEF Script, Clean
  <2>7. Running'
    BY <2>1, <2>2 DEF Running, Done
  <2> QED BY <2>1, <2>3, <2>4, <2>5, <2>6, <2>7 DEF TestsInv, Script
<1>2. CASE ~On(root, nm) /\ Refused
  <2>1. nm \notin NamesOf(root)
    BY <1>0, <1>2, Finds DEF Media
  <2>2. Media'
    BY <1>0, <1>2 DEF Refused, vars, mem, disk, Media
  <2>3. Shape' /\ Script' /\ Running'
    BY <1>0, <1>2, <2>1, RefusedReturns
  <2> QED BY <2>2, <2>3 DEF TestsInv
<1> QED BY <1>1, <1>2 DEF Delete

LEMMA MakeDirKeeps == ASSUME TestsInv, MakeDir PROVE TestsInv'
<1>0. Media /\ Shape /\ Script /\ pc = "idle" /\ tpc = "mkdir"
  BY DEF TestsInv, MakeDir
<1>1. CASE fat12_create_dir("_TSTDIR") /\ UNCHANGED scriptVars
  <2>1. /\ Media' /\ root' = root /\ droot' = droot /\ data' = data /\ pc' = "body"
        /\ op'.name = "_TSTDIR" /\ Place(root, op'.off, op'.name)
        /\ op'.off \notin Used(root) /\ op'.first \in Cluster /\ op'.root = TRUE
    BY <1>0, <1>1, DirBegins
  <2>2. Shape' /\ Script'
    BY <1>0, <1>1, <2>1, ScriptStays
  <2>3. Running'
    BY <1>0, <1>1, <2>1 DEF Running, scriptVars
  <2> QED BY <2>1, <2>2, <2>3 DEF TestsInv
<1>2. CASE On(root, "_TSTDIR") /\ Refused
  <2>1. "_TSTDIR" \in NamesOf(root)
    BY <1>0, <1>2, Finds DEF Media
  <2>2. Media'
    BY <1>0, <1>2 DEF Refused, vars, mem, disk, Media
  <2>3. Shape' /\ Script' /\ Running'
    BY <1>0, <1>2, <2>1, RefusedReturns
  <2> QED BY <2>2, <2>3 DEF TestsInv
<1>3. CASE NoRoom
  <2>1. Fails /\ root' = root /\ droot' = droot /\ pc' = "idle"
    BY <1>0, <1>3 DEF NoRoom, vars, mem, disk
  <2>2. Media'
    BY <1>0, <1>3 DEF NoRoom, vars, mem, disk, Media
  <2> QED BY <1>0, <2>1, <2>2, FailReturns, Idle DEF TestsInv
<1> QED BY <1>1, <1>2, <1>3 DEF MakeDir

LEMMA CallStepKeeps == ASSUME TestsInv, CallStep PROVE TestsInv'
<1>0. Media /\ Shape /\ Script /\ Running
  BY DEF TestsInv
<1>1. CASE WriteCluster /\ UNCHANGED scriptVars
  <2>1. /\ Media' /\ root' = root /\ droot' = droot /\ pc = "data" /\ pc' \in {"data", "commit"}
        /\ \A f \in {"name", "off", "created", "first", "size", "text", "root"} : op'[f] = op[f]
        /\ pc' = "data" => 1 <= op'.k /\ op'.k <= op'.size
        /\ op.size = 1 => pc' = "commit" /\ data'[op.first] = <<op.text, 1>>
    BY <1>0, <1>1, ClusterWritten
  <2>2. Made /\ tpc' = tpc
    BY <1>0, <1>1, <2>1 DEF Running, scriptVars
  <2>3. Shape' /\ Script'
    BY <1>0, <1>1, <2>1, <2>2, ScriptStays DEF Made
  <2>4. /\ op'.name = op.name /\ op'.off = op.off /\ op'.created = op.created
        /\ op'.first = op.first /\ op'.size = op.size /\ op'.text = op.text /\ op'.root = op.root
    BY <2>1
  <2>5. /\ Place(root, op.off, op.name) /\ op.created = (op.off \notin Used(root))
        /\ op.first \in Cluster /\ op.root = TRUE
    BY <1>0, <2>1 DEF Running
  <2>6. Made'
    BY <2>2, <2>4 DEF Made
  <2>7. pc' = "commit" /\ tpc' = "write" => data'[op'.first] = <<"hello", 1>>
    BY <2>1, <2>2, <2>4 DEF Made
  <2>8. Running'
    BY <2>1, <2>4, <2>5, <2>6, <2>7 DEF Running
  <2> QED BY <2>1, <2>3, <2>8 DEF TestsInv
<1>2. CASE WriteClusterFails /\ UNCHANGED scriptVars
  <2>1. /\ pc = "data" /\ pc' = "fat" /\ fat' = fat12_free_chain(fat, op.first)
        /\ op' = [op EXCEPT !.k = 1, !.root = FALSE] /\ UNCHANGED <<root, dfat, droot, data>>
    BY <1>2 DEF WriteClusterFails, disk
  <2>2. op' \in Calls /\ op'.root = FALSE
    BY <1>0, <2>1 DEF Media, Calls
  <2>3. Media'
    BY <1>0, <2>1, <2>2, FreeType DEF Media
  <2>4. Shape' /\ Script'
    BY <1>0, <1>2, <2>1, ScriptStays
  <2>5. tpc' \in {"write", "multi", "mark"}
    BY <1>0, <1>2, <2>1 DEF Running, Made, scriptVars
  <2>6. Running'
    BY <2>1, <2>2, <2>5 DEF Running
  <2> QED BY <2>3, <2>4, <2>6 DEF TestsInv
<1>3. CASE CommitWrite /\ UNCHANGED scriptVars
  <2>1. /\ Media' /\ droot' = droot /\ data' = data /\ op' = op /\ pc = "commit" /\ pc' = "fat"
        /\ NamesOf(root') = NamesOf(root) \cup {op.name}
        /\ tpc = "write" => Good(root', data')
    BY <1>0, <1>3, EntryWritten
  <2>2. Made /\ op.root = TRUE
    BY <1>0, <2>1 DEF Running
  <2>3. /\ tpc' = tpc /\ ok' = ok /\ verdict' = verdict /\ ioerr' = ioerr /\ mounted' = mounted
        /\ owed' = owed
    BY <1>3 DEF scriptVars
  <2>4. Shape'
    BY <1>0, <2>3 DEF Shape
  <2>5. Kept' /\ FailsOnlyByLeftover'
    BY <1>0, <2>2, <2>3 DEF Script, Kept, FailsOnlyByLeftover, Made
  <2>6. Cleared'
    BY <1>0, <2>1, <2>2, <2>3 DEF Script, Cleared, Made, Shape, Early
  <2>7. ioerr' = FALSE => Clean'
    BY <1>0, <2>1, <2>2, <2>3 DEF Script, Clean, Made
  <2>8. Running'
    BY <2>1, <2>2, <2>3 DEF Running, Done, Made
  <2> QED BY <2>1, <2>4, <2>5, <2>6, <2>7, <2>8 DEF TestsInv, Script
<1>4. CASE WriteDirBody /\ UNCHANGED scriptVars
  <2>1. /\ Media' /\ droot' = droot /\ op' = op /\ pc = "body" /\ pc' = "fat"
        /\ NamesOf(root') = NamesOf(root) \cup {"_TSTDIR"}
    BY <1>0, <1>4, BodyWritten
  <2>2. tpc = "mkdir" /\ op.root = TRUE
    BY <1>0, <2>1 DEF Running
  <2>3. /\ tpc' = tpc /\ ok' = ok /\ verdict' = verdict /\ ioerr' = ioerr /\ mounted' = mounted
        /\ owed' = owed
    BY <1>4 DEF scriptVars
  <2>4. Shape'
    BY <1>0, <2>3 DEF Shape
  <2>5. Kept' /\ FailsOnlyByLeftover'
    BY <1>0, <2>2, <2>3 DEF Script, Kept, FailsOnlyByLeftover
  <2>6. Cleared'
    BY <1>0, <2>2, <2>3 DEF Cleared, Shape, Early
  <2>7. ioerr' = FALSE => Clean'
    BY <1>0, <2>1, <2>2, <2>3 DEF Script, Clean
  <2>8. Running'
    BY <2>1, <2>2, <2>3 DEF Running, Done
  <2> QED BY <2>1, <2>4, <2>5, <2>6, <2>7, <2>8 DEF TestsInv, Script
<1>5. CASE fat12_flush_fat /\ Begun
  <2>1. /\ pc = "fat" /\ UNCHANGED <<fat, root, droot, data>> /\ dfat' = [dfat EXCEPT ![op.k] = fat]
        /\ \/ op' = [op EXCEPT !.k = 2] /\ pc' = "fat"
           \/ op.root /\ pc' = "root" /\ op' = op
           \/ ~op.root /\ pc' = "idle" /\ op' = IdleOp
    BY <1>5 DEF fat12_flush_fat, mem, CallReturns
  <2>2. op' \in Calls /\ (pc' # "idle" => op'.root = op.root)
    BY <1>0, <2>1, IdleIsCall DEF Media, Calls
  <2>3. Media'
    BY <1>0, <2>1, <2>2 DEF Media
  <2>4. CASE pc' = "idle"
    <3>1. Fails
      BY <1>5, <2>4 DEF Begun
    <3> QED BY <1>0, <2>1, <2>3, <2>4, <3>1, FailReturns, Idle DEF TestsInv
  <2>5. CASE pc' # "idle"
    <3>1. UNCHANGED scriptVars
      BY <1>5, <2>5 DEF Begun
    <3>2. Shape' /\ Script'
      BY <1>0, <2>1, <2>5, <3>1, ScriptStays
    <3>3. tpc' = tpc
      BY <3>1 DEF scriptVars
    <3>4. op.root = TRUE => Done
      BY <1>0, <2>1 DEF Running
    <3>5. op.root = TRUE => Done'
      BY <2>1, <3>3, <3>4 DEF Done
    <3>6. op.root \in BOOLEAN
      BY <1>0 DEF Media, Calls
    <3>7. pc' \in {"fat", "root"} /\ (pc' = "root" => op.root = TRUE)
          /\ (op.root = TRUE \/ tpc' \in {"write", "multi", "mark"})
      BY <1>0, <2>1, <2>5, <3>3, <3>6 DEF Running
    <3>8. Running'
      BY <2>2, <2>5, <3>5, <3>7 DEF Running
    <3> QED BY <2>3, <3>2, <3>8 DEF TestsInv
  <2> QED BY <2>4, <2>5
<1>6. CASE flush_root /\ Succeeds
  BY <1>6, SuccessReturns
<1>7. CASE (FlushFails \/ WriteDirBodyFails) /\ Fails
  <2>1. /\ UNCHANGED <<root, dfat, droot, data>> /\ pc' = "idle" /\ op' = IdleOp
        /\ fat' \in {fat, fat12_free_chain(fat, op.first)}
    BY <1>7 DEF FlushFails, WriteDirBodyFails, CallReturns, mem, disk
  <2>2. Media'
    BY <1>0, <2>1, IdleIsCall, FreeType DEF Media
  <2> QED BY <1>0, <1>7, <2>1, <2>2, FailReturns, Idle DEF TestsInv
<1> QED BY <1>1, <1>2, <1>3, <1>4, <1>5, <1>6, <1>7 DEF CallStep

\* The machine starts again from the disk.
LEMMA StartsKeeps ==
    ASSUME TestsInv, Starts, fat' = dfat[1], root' = droot, UNCHANGED disk,
           pc' = "idle", op' \in {op, IdleOp}
    PROVE  TestsInv'
<1>0. Media /\ Shape
  BY DEF TestsInv
<1>1. /\ tpc' = "write" /\ ok' = TRUE /\ verdict' = NoVerdict /\ ioerr' = FALSE
      /\ mounted' = {nm \in TestNames : On(droot, nm)} /\ owed' = owed
      /\ dfat' = dfat /\ droot' = droot /\ data' = data
  BY DEF Starts, disk
<1>2. Media'
  BY <1>0, <1>1, IdleIsCall DEF Media, Copies
<1>3. Shape'
  BY <1>0, <1>1 DEF Shape, NoVerdict, Early, Late
<1>4. Kept' /\ FailsOnlyByLeftover' /\ Cleared'
  BY <1>1 DEF Kept, FailsOnlyByLeftover, Cleared, NoVerdict
<1>5. "_TSTDIR" \in NamesOf(droot) => "_TSTDIR" \in mounted'
  BY <1>0, <1>1, Finds DEF Media, TestNames
<1>6. Clean'
  BY <1>1, <1>5 DEF Clean
<1> QED BY <1>2, <1>3, <1>4, <1>6, Idle DEF TestsInv, Script

\* A read, which the disk may fail.
LEMMA ReadKeeps ==
    ASSUME TestsInv, NEW nm, NEW text, ReadsAs(nm, text)
    PROVE  Media' /\ UNCHANGED <<root, droot, data, pc>>
BY DEF ReadsAs, TestsInv, Media, vars, mem, disk

LEMMA ReadBackKeeps == ASSUME TestsInv, ReadBack PROVE TestsInv'
<1>0. Media /\ Shape /\ Script /\ pc = "idle" /\ tpc = "readback"
  BY DEF TestsInv, ReadBack
<1>1. Media' /\ root' = root /\ droot' = droot /\ data' = data /\ pc' = "idle"
  BY <1>0, ReadKeeps DEF ReadBack
<1>2. /\ tpc' = "mkdir" /\ verdict' = verdict /\ mounted' = mounted /\ owed' = owed
      /\ \/ ok' = Holds("_SELFTST.TXT", "hello") /\ ioerr' = ioerr
         \/ ok' = FALSE /\ ioerr' = TRUE
  BY DEF ReadBack, ReadsAs
<1>3. Shape'
  <2>1. Holds("_SELFTST.TXT", "hello") \in BOOLEAN
    BY DEF Holds
  <2> QED BY <1>0, <1>2, <2>1 DEF Shape, Early, Late
<1>4. Kept' /\ FailsOnlyByLeftover' /\ Cleared'
  BY <1>0, <1>1, <1>2 DEF Kept, FailsOnlyByLeftover, Cleared, Shape, Early
<1>5. ASSUME ioerr' = FALSE PROVE Clean'
  <2>1. Clean /\ ok' = Holds("_SELFTST.TXT", "hello")
    BY <1>0, <1>2, <1>5 DEF Script
  <2>2. Good(root, data) /\ Dir(root)
    BY <1>0, <2>1 DEF Clean, Media
  <2>3. Holds("_SELFTST.TXT", "hello") = TRUE
    BY <2>2, GoodReads DEF Holds
  <2>4. "_SELFTST.TXT" \in NamesOf(root)
    BY <2>2, GoodIsThere
  <2> QED BY <1>0, <1>1, <1>2, <2>1, <2>3, <2>4 DEF Clean
<1> QED BY <1>1, <1>3, <1>4, <1>5, Idle DEF TestsInv, Script

LEMMA LookKeeps == ASSUME TestsInv, LookForMarker PROVE TestsInv'
<1>0. Media /\ Shape /\ Script /\ pc = "idle" /\ tpc = "persist"
  BY DEF TestsInv, LookForMarker
<1>1. Media' /\ root' = root /\ droot' = droot /\ pc' = "idle"
  <2>1. CASE UNCHANGED <<vars, ok, ioerr>>
    BY <1>0, <2>1 DEF Media, vars, mem, disk
  <2>2. CASE ReadsAs("_WTEST.TXT", "persistent")
    BY <1>0, <2>2, ReadKeeps
  <2> QED BY <2>1, <2>2 DEF LookForMarker
<1>2. /\ tpc' \in {"mark", "unmark"} /\ verdict' = verdict /\ mounted' = mounted /\ owed' = owed
      /\ ok' \in BOOLEAN /\ ioerr' \in BOOLEAN /\ (ioerr' = FALSE => ioerr = FALSE)
  <2>1. Holds("_WTEST.TXT", "persistent") \in BOOLEAN
    BY DEF Holds
  <2> QED BY <1>0, <2>1 DEF LookForMarker, ReadsAs, Shape
<1>3. Shape'
  BY <1>0, <1>2 DEF Shape, Early, Late
<1>4. Kept' /\ Cleared'
  BY <1>0, <1>1, <1>2 DEF Kept, Cleared, Script
<1>5. FailsOnlyByLeftover'
  BY <1>0, <1>2 DEF FailsOnlyByLeftover, Script, Shape
<1>6. Clean'
  BY <1>2 DEF Clean, Early
<1> QED BY <1>1, <1>3, <1>4, <1>5, <1>6, Idle DEF TestsInv, Script

LEMMA TestsStep == ASSUME TestsInv, [TestsNext]_testVars PROVE TestsInv'
<1>1. CASE UNCHANGED testVars
  <2>1. UNCHANGED <<fat, root, dfat, droot, data, pc, op, tpc, ok, verdict, ioerr, mounted, owed>>
    BY <1>1 DEF testVars, vars, scriptVars, mem, disk
  <2>2. Media' /\ Shape' /\ Running'
    <3>1. Media'
      BY <2>1 DEF TestsInv, Media
    <3>2. Shape'
      BY <2>1 DEF TestsInv, Shape
    <3>3. Made' = Made /\ Done' = Done
      BY <2>1 DEF Made, Done
    <3>4. Running'
      BY <2>1, <3>3 DEF TestsInv, Running
    <3> QED BY <3>1, <3>2, <3>4
  <2>3. Script'
    BY <2>1 DEF TestsInv, Script, Clean, Kept, FailsOnlyByLeftover, Cleared
  <2> QED BY <2>2, <2>3 DEF TestsInv
<1>2. CASE WriteSelftest
  BY <1>2, WriteKeeps DEF WriteSelftest, TestNames
<1>3. CASE ReadBack
  BY <1>3, ReadBackKeeps
<1>4. CASE MakeDir
  BY <1>4, MakeDirKeeps
<1>5. CASE DeleteFile
  BY <1>5, DeleteKeeps DEF DeleteFile, TestNames
<1>6. CASE DeleteDir
  BY <1>6, DeleteKeeps DEF DeleteDir, TestNames
<1>7. CASE MultiCluster
  BY <1>7, WriteKeeps DEF MultiCluster, TestNames
<1>8. CASE DeleteMulti
  BY <1>8, DeleteKeeps DEF DeleteMulti, TestNames
<1>9. CASE LookForMarker
  BY <1>9, LookKeeps
<1>10. CASE WriteMarker
  BY <1>10, WriteKeeps DEF WriteMarker, TestNames
<1>11. CASE DeleteMarker
  BY <1>11, DeleteKeeps DEF DeleteMarker, TestNames
<1>12. CASE CallStep
  BY <1>12, CallStepKeeps
<1>13. CASE PowerFails
  BY <1>13, StartsKeeps DEF PowerFails, PowerLoss, CallReturns
<1>14. CASE ShutDown
  <2>1. /\ Starts /\ fat' = dfat[1] /\ root' = droot /\ UNCHANGED disk /\ pc' = "idle"
        /\ fat' \in Fat /\ op' = op
    BY <1>14 DEF ShutDown, TestsInv, Media, Copies
  <2> QED BY <2>1, StartsKeeps
<1> QED BY <1>1, <1>2, <1>3, <1>4, <1>5, <1>6, <1>7, <1>8, <1>9, <1>10, <1>11, <1>12, <1>13, <1>14
        DEF TestsNext

LEMMA TestsInvariant == TestsSpec => []TestsInv
<1>1. TestsInv /\ [TestsNext]_testVars => TestsInv'
  BY TestsStep
<1> QED BY TestsInitInv, <1>1, PTL DEF TestsSpec

\* While no call has failed in this boot, only a _TSTDIR that an earlier boot left can
\* make the write self-test report FAILED, wherever power was lost before.
THEOREM FailureHasACause == TestsSpec => []FailsOnlyByLeftover
<1>1. TestsInv => FailsOnlyByLeftover
  BY DEF TestsInv, Script
<1> QED BY TestsInvariant, <1>1, PTL

\* A write self-test that reports OK has cleared its two files off the volume, in
\* memory and on the disk.
THEOREM OkIsClean == TestsSpec => []OkLeavesNothing
<1>1. TestsInv => OkLeavesNothing
  <2> SUFFICES ASSUME TestsInv, verdict.write = "ok", NEW nm \in {"_SELFTST.TXT", "_TSTDIR"}
               PROVE  ~On(root, nm) /\ ~On(droot, nm)
    BY DEF OkLeavesNothing
  <2>1. nm \notin NamesOf(root) /\ nm \notin NamesOf(droot)
    BY DEF TestsInv, Script, Cleared
  <2> QED BY <2>1, Finds DEF TestsInv, Media
<1> QED BY TestsInvariant, <1>1, PTL

\* Together: what freestanding_subsystems_up prints of its write test is true of the
\* volume.
THEOREM SelfTestsAreSound == TestsSpec => []TestsSafe
<1>1. TestsInv => VerdictsInOrder
  BY DEF TestsInv, Shape, VerdictsInOrder
<1> QED BY TestsInvariant, <1>1, FailureHasACause, OkIsClean, PTL DEF TestsSafe
===============================================================================
