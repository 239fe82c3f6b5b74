------------------------- MODULE StoredMerkleProofs -------------------------
(***************************************************************************)
(* Proofs about StoredMerkle, for every number of leaves, of levels and of *)
(* levels of the circuit's proofs.                                         *)
(*                                                                         *)
(* The invariant says how each stored node is made of those below it.  An  *)
(* append keeps it because the new leaf has, at each level, the last node  *)
(* above it; a rebuild because the level it computes is the one that is    *)
(* stored.  That a node is the root of the leaves below it, that proofs    *)
(* verify, and how long they are, follows by induction on the levels.      *)
(***************************************************************************)
EXTENDS StoredMerkle, TLAPS, WellFoundedInduction, SequenceTheorems

-----------------------------------------------------------------------------
(* Induction on natural numbers.                                           *)

LEMMA Least ==
  ASSUME NEW T, T \subseteq Nat, T # {}
  PROVE  \E n \in T : \A m \in T : n <= m
<1>1. \E n \in T : \A m \in T : ~ (<<m, n>> \in OpToRel(<, Nat))
  BY NatLessThanWellFounded, WFMin, Zenon
<1>2. PICK n \in T : \A m \in T : ~ (<<m, n>> \in OpToRel(<, Nat))
  BY <1>1
<1>3. \A m \in T : ~ (m < n)
  BY <1>2, Zenon DEF OpToRel
<1> QED
  BY <1>3

LEMMA Induct ==
  ASSUME NEW T, 0 \in T, \A n \in Nat : n \in T => n + 1 \in T
  PROVE  \A n \in Nat : n \in T
<1> SUFFICES ASSUME Nat \ T # {} PROVE FALSE
  OBVIOUS
<1>1. PICK n \in Nat \ T : \A m \in Nat \ T : n <= m
  BY Least
<1>2. n # 0 /\ n - 1 \in Nat
  BY <1>1
<1>3. n - 1 \in T
  BY <1>1, <1>2
<1>4. (n - 1) + 1 = n
  BY <1>2
<1> QED
  BY <1>1, <1>2, <1>3, <1>4

-----------------------------------------------------------------------------
(* The recursive functions of the model are what their definitions say:    *)
(* there is a function that satisfies each recursion.                      *)

(* A chain of values, each made from the one before by a function on V.    *)
IsChain(f, base, g) == f[0] = base /\ \A n \in Nat : f[n + 1] = g[f[n]]

LEMMA ChainExists ==
  ASSUME NEW V, NEW base \in V, NEW g \in [V -> V]
  PROVE  \E f \in [Nat -> V] : IsChain(f, base, g)
<1> DEFINE Chain(n, f) == /\ f \in [0..n -> V]
                          /\ f[0] = base
                          /\ \A i \in 0..(n - 1) : f[i + 1] = g[f[i]]
           Long == { n \in Nat : \E f : Chain(n, f) }
<1>1. 0 \in Long
  <2>1. Chain(0, [i \in 0..0 |-> base])
    OBVIOUS
  <2> QED
    BY <2>1
<1>2. ASSUME NEW n \in Nat, n \in Long PROVE n + 1 \in Long
  <2>1. PICK f : Chain(n, f)
    BY <1>2
  <2> DEFINE h == [i \in 0..(n + 1) |-> IF i = n + 1 THEN g[f[n]] ELSE f[i]]
  <2>2. Chain(n + 1, h)
    BY <2>1
  <2> HIDE DEF Chain
  <2> QED
    BY <2>2
<1>3. \A n \in Nat : n \in Long
  <2> HIDE DEF Long
  <2> QED
    BY <1>1, <1>2, Induct
<1> HIDE DEF Chain
<1>4. PICK F : \A n \in Nat : Chain(n, F[n])
  <2> DEFINE G == [n \in Nat |-> CHOOSE f : Chain(n, f)]
  <2>1. \A n \in Nat : Chain(n, G[n])
    BY <1>3
  <2> HIDE DEF G
  <2> QED
    BY <2>1
(* Chains agree as far as both go.                                         *)
<1>5. ASSUME NEW n \in Nat
      PROVE  F[n + 1][n] = F[n][n]
  <2> DEFINE Agree == { i \in Nat : i <= n => F[n + 1][i] = F[n][i] }
  <2>1. Chain(n, F[n]) /\ Chain(n + 1, F[n + 1])
    BY <1>4
  <2>2. 0 \in Agree
    BY <2>1 DEF Chain
  <2>3. ASSUME NEW i \in Nat, i \in Agree PROVE i + 1 \in Agree
    <3> SUFFICES ASSUME i + 1 <= n PROVE F[n + 1][i + 1] = F[n][i + 1]
      OBVIOUS
    <3>1. i \in 0..(n - 1) /\ i \in 0..((n + 1) - 1) /\ F[n + 1][i] = F[n][i]
      BY <2>3
    <3> QED
      BY <2>1, <3>1 DEF Chain
  <2>4. n \in Agree
    <3> HIDE DEF Agree
    <3> QED
      BY <2>2, <2>3, Induct
  <2> QED
    BY <2>4
<1> DEFINE f == [n \in Nat |-> F[n][n]]
<1>6. f \in [Nat -> V] /\ f[0] = base
  <2>1. \A n \in Nat : F[n][n] \in V
    BY <1>4 DEF Chain
  <2>2. F[0][0] = base
    BY <1>4 DEF Chain
  <2> QED
    BY <2>1, <2>2
<1>7. ASSUME NEW n \in Nat PROVE f[n + 1] = g[f[n]]
  <2>1. Chain(n + 1, F[n + 1]) /\ n \in 0..((n + 1) - 1)
    BY <1>4
  <2>2. F[n + 1][n + 1] = g[F[n + 1][n]]
    BY <2>1 DEF Chain
  <2> QED
    BY <1>5, <2>2
<1> HIDE DEF f
<1> QED
  BY <1>6, <1>7 DEF IsChain

LEMMA Pow2Facts ==
  /\ Pow2[0] = 1
  /\ \A n \in Nat : Pow2[n] \in Nat /\ Pow2[n + 1] = 2 * Pow2[n]
<1> DEFINE g == [v \in Nat |-> 2 * v]
           IsPow2(f) == f = [k \in Nat |-> IF k = 0 THEN 1 ELSE 2 * f[k - 1]]
<1>1. PICK f \in [Nat -> Nat] : IsChain(f, 1, g)
  <2>1. 1 \in Nat /\ g \in [Nat -> Nat]
    OBVIOUS
  <2> HIDE DEF g
  <2> QED
    BY <2>1, ChainExists, Zenon
<1>2. IsPow2(f)
  <2>1. ASSUME NEW k \in Nat PROVE f[k] = IF k = 0 THEN 1 ELSE 2 * f[k - 1]
    <3>1. CASE k = 0
      BY <1>1, <3>1 DEF IsChain
    <3>2. CASE k # 0
      <4>1. k - 1 \in Nat /\ (k - 1) + 1 = k
        BY <3>2
      <4> QED
        BY <1>1, <3>2, <4>1 DEF IsChain
    <3> QED
      BY <3>1, <3>2
  <2> QED
    BY <1>1, <2>1
<1>3. IsPow2(Pow2)
  <2>1. Pow2 = CHOOSE p : IsPow2(p)
    BY DEF Pow2
  <2> HIDE DEF IsPow2
  <2> QED
    BY <1>2, <2>1
<1>4. Pow2[0] = 1 /\ \A n \in Nat : Pow2[n + 1] = 2 * Pow2[n]
  BY <1>3
<1>5. \A n \in Nat : Pow2[n] \in Nat
  <2> DEFINE T == { n \in Nat : Pow2[n] \in Nat }
  <2>1. 0 \in T /\ \A n \in Nat : n \in T => n + 1 \in T
    BY <1>4
  <2> HIDE DEF T
  <2>2. \A n \in Nat : n \in T
    BY <2>1, Induct
  <2> QED
    BY <2>2 DEF T
<1> QED
  BY <1>4, <1>5

LEMMA Pow2Grows ==
  /\ \A n \in Nat : Pow2[n] > n /\ Pow2[n] >= 1
  /\ \A j, k \in Nat : j < k => 2 * Pow2[j] <= Pow2[k]
<1>1. \A n \in Nat : Pow2[n] > n
  <2> DEFINE T == { n \in Nat : Pow2[n] > n }
  <2>1. 0 \in T /\ \A n \in Nat : n \in T => n + 1 \in T
    BY Pow2Facts
  <2> HIDE DEF T
  <2>2. \A n \in Nat : n \in T
    BY <2>1, Induct
  <2> QED
    BY <2>2 DEF T
<1>2. ASSUME NEW j \in Nat PROVE \A k \in Nat : j < k => 2 * Pow2[j] <= Pow2[k]
  <2> DEFINE T == { k \in Nat : j < k => 2 * Pow2[j] <= Pow2[k] }
  <2>1. 0 \in T
    OBVIOUS
  <2>2. ASSUME NEW k \in Nat, k \in T PROVE k + 1 \in T
    <3> SUFFICES ASSUME j < k + 1 PROVE 2 * Pow2[j] <= Pow2[k + 1]
      OBVIOUS
    <3>1. Pow2[k + 1] = 2 * Pow2[k] /\ Pow2[k] \in Nat /\ Pow2[j] \in Nat
      BY Pow2Facts
    <3> QED
      BY <2>2, <3>1
  <2> HIDE DEF T
  <2>3. \A k \in Nat : k \in T
    BY <2>1, <2>2, Induct
  <2> QED
    BY <2>3 DEF T
<1>3. \A n \in Nat : Pow2[n] >= 1
  BY <1>1, Pow2Facts
<1> QED
  BY <1>1, <1>2, <1>3

(* The index at the next level is half the one below: index /= 2.          *)
LEMMA AncestorFacts ==
  ASSUME NEW index \in Nat
  PROVE  /\ Ancestor(index, 0) = index
         /\ \A l \in Nat : /\ Ancestor(index, l) \in Nat
                           /\ Ancestor(index, l + 1) = Ancestor(index, l) \div 2
<1> DEFINE g == [v \in Nat |-> v \div 2]
           IsAbove(f) == f = [l \in Nat |-> IF l = 0 THEN index ELSE f[l - 1] \div 2]
           above == CHOOSE f : IsAbove(f)
<1>1. PICK f \in [Nat -> Nat] : IsChain(f, index, g)
  <2>1. g \in [Nat -> Nat]
    OBVIOUS
  <2> HIDE DEF g
  <2> QED
    BY <2>1, ChainExists, Zenon
<1>2. IsAbove(f)
  <2>1. ASSUME NEW k \in Nat PROVE f[k] = IF k = 0 THEN index ELSE f[k - 1] \div 2
    <3>1. CASE k = 0
      BY <1>1, <3>1 DEF IsChain
    <3>2. CASE k # 0
      <4>1. k - 1 \in Nat /\ (k - 1) + 1 = k
        BY <3>2
      <4> QED
        BY <1>1, <3>2, <4>1 DEF IsChain
    <3> QED
      BY <3>1, <3>2
  <2> QED
    BY <1>1, <2>1
<1>3. IsAbove(above)
  <2> HIDE DEF IsAbove
  <2> QED
    BY <1>2
<1>4. \A l : Ancestor(index, l) = above[l]
  BY DEF Ancestor
<1> HIDE DEF above
<1>5. above[0] = index /\ \A n \in Nat : above[n + 1] = above[n] \div 2
  BY <1>3
<1>6. \A n \in Nat : above[n] \in Nat
  <2> DEFINE T == { n \in Nat : above[n] \in Nat }
  <2>1. 0 \in T /\ \A n \in Nat : n \in T => n + 1 \in T
    BY <1>5
  <2> HIDE DEF T
  <2>2. \A n \in Nat : n \in T
    BY <2>1, Induct
  <2> QED
    BY <2>2 DEF T
<1> QED
  BY <1>4, <1>5, <1>6

(* A node on its way up: hashed with a sibling at the levels it meets one. *)
IsClimb(f, n, leaf, meets, sibling) ==
  f = [k \in 0..n |-> IF k = 0 THEN leaf
                      ELSE IF meets[k] THEN MerkleHash(f[k - 1], sibling[k])
                      ELSE f[k - 1]]

LEMMA ClimbExists ==
  ASSUME NEW n \in Nat, NEW leaf, NEW meets, NEW sibling
  PROVE  \E f : IsClimb(f, n, leaf, meets, sibling)
<1> DEFINE T == { m \in Nat : \E f : IsClimb(f, m, leaf, meets, sibling) }
<1>1. 0 \in T
  <2>1. IsClimb([k \in 0..0 |-> leaf], 0, leaf, meets, sibling)
    BY DEF IsClimb
  <2> QED
    BY <2>1
<1>2. ASSUME NEW m \in Nat, m \in T PROVE m + 1 \in T
  <2>1. PICK f : IsClimb(f, m, leaf, meets, sibling)
    BY <1>2
  <2> DEFINE top == IF meets[m + 1] THEN MerkleHash(f[m], sibling[m + 1]) ELSE f[m]
             h == [k \in 0..(m + 1) |-> IF k = m + 1 THEN top ELSE f[k]]
  <2>2. ASSUME NEW k \in 0..(m + 1)
        PROVE  h[k] = IF k = 0 THEN leaf
                      ELSE IF meets[k] THEN MerkleHash(h[k - 1], sibling[k])
                      ELSE h[k - 1]
    <3>1. CASE k = m + 1
      <4>1. k # 0 /\ k - 1 = m /\ h[k - 1] = f[m] /\ h[k] = top
        BY <3>1
      <4> HIDE DEF h
      <4> QED
        BY <3>1, <4>1
    <3>2. CASE k # m + 1
      <4>1. k \in 0..m /\ h[k] = f[k] /\ (k # 0 => h[k - 1] = f[k - 1])
        BY <3>2
      <4>2. f[k] = IF k = 0 THEN leaf
                   ELSE IF meets[k] THEN MerkleHash(f[k - 1], sibling[k])
                   ELSE f[k - 1]
        BY <2>1, <4>1 DEF IsClimb
      <4> HIDE DEF h
      <4> QED
        BY <4>1, <4>2
    <3> QED
      BY <3>1, <3>2
  <2>3. h = [k \in 0..(m + 1) |-> h[k]]
    OBVIOUS
  <2> HIDE DEF h
  <2>4. IsClimb(h, m + 1, leaf, meets, sibling)
    BY <2>2, <2>3 DEF IsClimb
  <2> QED
    BY <2>4
<1>3. \A m \in Nat : m \in T
  <2> HIDE DEF T
  <2> QED
    BY <1>1, <1>2, Induct
<1> QED
  BY <1>3

(* computeRoot.                                                            *)
Climbs(current, leaf, proof) ==
  current = [k \in 0..Len(proof) |->
               IF k = 0 THEN leaf ELSE MerkleHash(current[k - 1], proof[k])]

LEMMA ComputeRootIs ==
  ASSUME NEW leaf, NEW proof, Len(proof) \in Nat
  PROVE  \E current : Climbs(current, leaf, proof)
                      /\ ComputeRoot(leaf, proof) = current[Len(proof)]
<1> DEFINE n == Len(proof)
           meets == [k \in 0..n |-> TRUE]
           c == CHOOSE current : Climbs(current, leaf, proof)
<1>1. PICK f : IsClimb(f, n, leaf, meets, proof)
  <2> HIDE DEF meets, n
  <2> QED
    BY ClimbExists DEF n
<1>2. Climbs(f, leaf, proof)
  BY <1>1 DEF IsClimb, Climbs
<1>3. Climbs(c, leaf, proof)
  BY <1>2
<1>4. ComputeRoot(leaf, proof) = c[n]
  BY DEF ComputeRoot, Climbs
<1> QED
  BY <1>3, <1>4

LEMMA RootOfNothing ==
  ASSUME NEW leaf
  PROVE  ComputeRoot(leaf, <<>>) = leaf
<1>1. Len(<<>>) = 0
  BY EmptySeq
<1> QED
  BY <1>1, ComputeRootIs DEF Climbs

LEMMA RootOfAppend ==
  ASSUME NEW leaf, NEW S, NEW proof \in Seq(S), NEW x \in S
  PROVE  ComputeRoot(leaf, Append(proof, x)) = MerkleHash(ComputeRoot(leaf, proof), x)
<1> DEFINE n == Len(proof)
           longer == Append(proof, x)
<1>1. /\ n \in Nat /\ Len(longer) = n + 1 /\ longer[n + 1] = x
      /\ \A i \in 1..n : longer[i] = proof[i]
  BY AppendProperties
<1>2. PICK c : Climbs(c, leaf, proof) /\ ComputeRoot(leaf, proof) = c[n]
  BY <1>1, ComputeRootIs
<1>3. PICK d : Climbs(d, leaf, longer) /\ ComputeRoot(leaf, longer) = d[n + 1]
  <2> HIDE DEF longer
  <2>1. Len(longer) \in Nat
    BY <1>1
  <2> QED
    BY <1>1, <2>1, ComputeRootIs
<1> HIDE DEF n, longer
<1>4. /\ \A k \in 0..n : c[k] = IF k = 0 THEN leaf ELSE MerkleHash(c[k - 1], proof[k])
      /\ \A k \in 0..(n + 1) : d[k] = IF k = 0 THEN leaf ELSE MerkleHash(d[k - 1], longer[k])
  BY <1>1, <1>2, <1>3 DEF Climbs, n
<1>5. d[n] = c[n]
  <2> DEFINE T == { k \in Nat : k <= n => d[k] = c[k] }
  <2>1. 0 \in T
    BY <1>1, <1>4
  <2>2. ASSUME NEW k \in Nat, k \in T PROVE k + 1 \in T
    <3> SUFFICES ASSUME k + 1 <= n PROVE d[k + 1] = c[k + 1]
      OBVIOUS
    <3>1. /\ k + 1 \in 1..n /\ k + 1 \in 0..n /\ k + 1 \in 0..(n + 1)
          /\ (k + 1) - 1 = k /\ k + 1 # 0 /\ d[k] = c[k]
      BY <1>1, <2>2
    <3>2. c[k + 1] = MerkleHash(c[k], proof[k + 1]) /\ d[k + 1] = MerkleHash(d[k], longer[k + 1])
      BY <1>4, <3>1
    <3> QED
      BY <1>1, <3>1, <3>2
  <2>3. n \in T
    <3> HIDE DEF T
    <3> QED
      BY <1>1, <2>1, <2>2, Induct
  <2> QED
    BY <2>3
<1>6. d[n + 1] = MerkleHash(d[n], longer[n + 1])
  <2>1. n + 1 \in 0..(n + 1) /\ n + 1 # 0 /\ (n + 1) - 1 = n
    BY <1>1
  <2> QED
    BY <1>4, <2>1
<1> QED
  BY <1>1, <1>2, <1>3, <1>5, <1>6 DEF n, longer

-----------------------------------------------------------------------------
(* The invariant.                                                          *)

(* Each node is made of the one or two nodes below it.                     *)
NodesJoin ==
  \A l \in 1..height : \A i \in 0..(len[l] - 1) :
    ReadLeaf(l, i) = IF 2 * i + 1 < len[l - 1]
                    THEN MerkleHash(ReadLeaf(l - 1, 2 * i), ReadLeaf(l - 1, 2 * i + 1))
                    ELSE ReadLeaf(l - 1, 2 * i)

LeavesAreStored == \A i \in 0..(len[0] - 1) : ReadLeaf(0, i) = txArray[i + 1]

(* No level above the top was ever written.                                *)
NothingAbove == \A l \in Levels : l > height => len[l] = 0

TreeInv == TypeOK /\ LevelsHalve /\ NothingAbove /\ LeavesAreStored /\ NodesJoin

LEMMA TreeFacts ==
  ASSUME TreeInv
  PROVE  /\ MaxHeight \in Nat /\ MaxLeaves \in Nat /\ height \in Nat /\ height <= MaxHeight
         /\ Len(txArray) \in Nat /\ Len(txArray) <= MaxLeaves
         /\ len[0] = Len(txArray)
         /\ \A l \in 0..MaxHeight : len[l] \in Nat /\ len[l] <= MaxLeaves
         /\ \A l \in Nat : l < height => len[l + 1] = (len[l] + 1) \div 2 /\ len[l] > 1
         /\ len[height] <= 1
         /\ \A l \in 0..MaxHeight : l > height => len[l] = 0
<1>1. MaxHeight \in Nat /\ MaxLeaves \in Nat
  BY HeightAssumption
<1>2. height \in Nat /\ height <= MaxHeight
  BY <1>1 DEF TreeInv, TypeOK, Levels
<1>3. Len(txArray) \in Nat /\ Len(txArray) <= MaxLeaves
  BY DEF TreeInv, TypeOK
<1>4. \A l \in 0..MaxHeight : len[l] \in Nat /\ len[l] <= MaxLeaves
  BY <1>1 DEF TreeInv, TypeOK, Levels
<1>5. len[0] = Len(txArray)
  BY DEF TreeInv, LevelsHalve, LenAtHeight
<1>6. ASSUME NEW l \in Nat, l < height
      PROVE  len[l + 1] = (len[l] + 1) \div 2 /\ len[l] > 1
  <2>1. l + 1 \in 1..height /\ (l + 1) - 1 = l /\ l \in 0..height
    BY <1>2, <1>6
  <2> QED
    BY <1>6, <2>1 DEF TreeInv, LevelsHalve, LenAtHeight
<1>7. len[height] <= 1
  <2>1. height \in 0..height /\ ~(height < height) /\ len[height] \in Nat
    BY <1>2, <1>4
  <2> QED
    BY <2>1 DEF TreeInv, LevelsHalve, LenAtHeight
<1>8. \A l \in 0..MaxHeight : l > height => len[l] = 0
  BY DEF TreeInv, NothingAbove, Levels
<1> QED
  BY <1>1, <1>2, <1>3, <1>4, <1>5, <1>6, <1>7, <1>8

LEMMA InitTree ==
  ASSUME Init
  PROVE  TreeInv
<1>1. Len(txArray) = 0 /\ txArray \in Seq(Leaf)
  BY EmptySeq DEF Init
<1>2. MaxHeight \in Nat /\ MaxLeaves \in Nat /\ 0 \in Levels
  BY HeightAssumption DEF Levels
<1>3. TypeOK
  BY <1>1, <1>2 DEF Init, TypeOK
<1>4. \A l \in Levels : len[l] = 0
  BY DEF Init
<1>5. LevelsHalve
  BY <1>1, <1>2, <1>4 DEF Init, LevelsHalve, LenAtHeight
<1>6. NothingAbove /\ LeavesAreStored /\ NodesJoin
  BY <1>2, <1>4 DEF Init, NothingAbove, LeavesAreStored, NodesJoin
<1> QED
  BY <1>3, <1>5, <1>6 DEF TreeInv

-----------------------------------------------------------------------------
(* The slots above a leaf.                                                 *)

LEMMA Halves ==
  ASSUME NEW a \in Nat
  PROVE  /\ a \div 2 \in Nat
         /\ a % 2 = 1 => a = 2 * (a \div 2) + 1
         /\ a % 2 # 1 => a = 2 * (a \div 2)
OBVIOUS

LEMMA AncestorShrinks ==
  ASSUME NEW index \in Nat
  PROVE  \A l \in Nat : Ancestor(index, l) <= index
<1> DEFINE T == { l \in Nat : Ancestor(index, l) <= index }
<1>1. 0 \in T
  BY AncestorFacts
<1>2. ASSUME NEW l \in Nat, l \in T PROVE l + 1 \in T
  <2>1. /\ Ancestor(index, l) \in Nat
        /\ Ancestor(index, l + 1) = Ancestor(index, l) \div 2
        /\ Ancestor(index, l + 1) \in Nat
    BY AncestorFacts
  <2>2. Ancestor(index, l + 1) <= Ancestor(index, l)
    BY <2>1
  <2> QED
    BY <1>2, <2>1, <2>2
<1>3. \A l \in Nat : l \in T
  <2> HIDE DEF T
  <2> QED
    BY <1>1, <1>2, Induct
<1> QED
  BY <1>3

(* With 2^k leaves there is one node at level k.                           *)
LEMMA AncestorAtTop ==
  ASSUME NEW index \in Nat, NEW k \in Nat, index < Pow2[k]
  PROVE  Ancestor(index, k) = 0
<1> DEFINE T == { l \in Nat : l <= k => Ancestor(index, l) < Pow2[k - l] }
<1>1. 0 \in T
  <2>1. k - 0 = k
    OBVIOUS
  <2> QED
    BY <2>1, AncestorFacts
<1>2. ASSUME NEW l \in Nat, l \in T PROVE l + 1 \in T
  <2> SUFFICES ASSUME l + 1 <= k PROVE Ancestor(index, l + 1) < Pow2[k - (l + 1)]
    OBVIOUS
  <2>1. k - (l + 1) \in Nat /\ (k - (l + 1)) + 1 = k - l
    OBVIOUS
  <2>2. Pow2[k - l] = 2 * Pow2[k - (l + 1)] /\ Pow2[k - (l + 1)] \in Nat
    BY <2>1, Pow2Facts
  <2>3. Ancestor(index, l) < Pow2[k - l]
    BY <1>2
  <2>4. /\ Ancestor(index, l) \in Nat
        /\ Ancestor(index, l + 1) = Ancestor(index, l) \div 2
    BY AncestorFacts
  <2> HIDE DEF T
  <2> QED
    BY <2>2, <2>3, <2>4
<1>3. k \in T
  <2> HIDE DEF T
  <2> QED
    BY <1>1, <1>2, Induct
<1>4. Ancestor(index, k) < Pow2[0]
  <2>1. k - k = 0
    OBVIOUS
  <2> QED
    BY <1>3, <2>1
<1> QED
  BY <1>4, Pow2Facts, AncestorFacts

(* The node an append writes at a level is the last there, or the next.    *)
LEMMA SlotIsLast ==
  ASSUME TreeInv
  PROVE  \A l \in 0..MaxHeight :
           LET a == Ancestor(Len(txArray), l) IN len[l] = a \/ len[l] = a + 1
<1> DEFINE n == Len(txArray)
           T == { l \in Nat : l <= MaxHeight =>
                    len[l] = Ancestor(n, l) \/ len[l] = Ancestor(n, l) + 1 }
<1>1. n \in Nat
  BY TreeFacts
<1>2. 0 \in T
  BY <1>1, TreeFacts, AncestorFacts
<1>3. ASSUME NEW l \in Nat, l \in T PROVE l + 1 \in T
  <2> SUFFICES ASSUME l + 1 <= MaxHeight
               PROVE  len[l + 1] = Ancestor(n, l + 1) \/ len[l + 1] = Ancestor(n, l + 1) + 1
    OBVIOUS
  <2>1. l \in 0..MaxHeight /\ l + 1 \in 0..MaxHeight
    BY TreeFacts
  <2>2. len[l] = Ancestor(n, l) \/ len[l] = Ancestor(n, l) + 1
    BY <1>3, <2>1
  <2>3. Ancestor(n, l) \in Nat /\ Ancestor(n, l + 1) = Ancestor(n, l) \div 2
    BY <1>1, AncestorFacts
  <2> HIDE DEF n, T
  <2>4. CASE l < height
    <3>1. len[l + 1] = (len[l] + 1) \div 2
      BY <2>4, TreeFacts
    <3> QED
      BY <2>2, <2>3, <3>1
  <2>5. CASE ~(l < height)
    <3>1. len[l + 1] = 0 /\ len[l] <= 1
      BY <2>1, <2>5, TreeFacts
    <3> QED
      BY <2>2, <2>3, <3>1
  <2> QED
    BY <2>4, <2>5
<1>4. \A l \in Nat : l \in T
  <2> HIDE DEF T
  <2> QED
    BY <1>2, <1>3, Induct
<1>5. \A l \in 0..MaxHeight : l \in Nat /\ l <= MaxHeight
  BY TreeFacts
<1> QED
  BY <1>4, <1>5

-----------------------------------------------------------------------------
(* append.                                                                 *)

(* What append leaves in storage: the nodes above the new leaf, up to the  *)
(* first level where there is but one.                                     *)
AppendWrites(tree, leaf, node, top) ==
  LET n == Len(txArray) IN
  /\ node[0] = leaf
  /\ \A l \in 0..(MaxHeight - 1) : node[l + 1] = NodeAbove(node[l], n, l)
  /\ top \in Levels /\ Ancestor(n, top) = 0
  /\ \A l \in 0..MaxHeight : l < top => Ancestor(n, l) # 0
  /\ tree.store = [ p \in DOMAIN store |->
                      IF p[1] <= top /\ p[2] = Ancestor(n, p[1])
                        THEN node[p[1]] ELSE store[p] ]
  /\ tree.len = [ l \in Levels |-> IF l <= top THEN Ancestor(n, l) + 1 ELSE len[l] ]
  /\ tree.height = top
  /\ tree.root = node[top]

LEMMA AppendedNodes ==
  ASSUME TreeInv, NEW leaf
  PROVE  LET n == Len(txArray)
             node[l \in Levels] ==
               IF l = 0 THEN leaf ELSE NodeAbove(node[l - 1], n, l - 1)
         IN  /\ node[0] = leaf
             /\ \A l \in 0..(MaxHeight - 1) : node[l + 1] = NodeAbove(node[l], n, l)
<1> DEFINE n == Len(txArray)
           Nodes(f) == f = [l \in Levels |->
                             IF l = 0 THEN leaf ELSE NodeAbove(f[l - 1], n, l - 1)]
           meets == [k \in 0..MaxHeight |-> Ancestor(n, k - 1) % 2 = 1]
           sibling == [k \in 0..MaxHeight |-> ReadLeaf(k - 1, Ancestor(n, k - 1) - 1)]
           node == CHOOSE f : Nodes(f)
<1>1. MaxHeight \in Nat
  BY TreeFacts
<1>2. PICK f : IsClimb(f, MaxHeight, leaf, meets, sibling)
  <2> HIDE DEF meets, sibling
  <2> QED
    BY <1>1, ClimbExists
<1>3. Nodes(f)
  BY <1>2 DEF IsClimb, Levels, NodeAbove
<1>4. Nodes(node)
  <2> HIDE DEF Nodes
  <2> QED
    BY <1>3
<1>5. node[0] = leaf
  <2>1. 0 \in Levels
    BY <1>1 DEF Levels
  <2> HIDE DEF node
  <2> QED
    BY <1>4, <2>1
<1>6. ASSUME NEW l \in 0..(MaxHeight - 1) PROVE node[l + 1] = NodeAbove(node[l], n, l)
  <2>1. l + 1 \in Levels /\ l + 1 # 0 /\ (l + 1) - 1 = l
    BY <1>1 DEF Levels
  <2> HIDE DEF node
  <2> QED
    BY <1>4, <2>1
<1> QED
  BY <1>5, <1>6

LEMMA AppendedIs ==
  ASSUME TreeInv, Len(txArray) < MaxLeaves, NEW leaf
  PROVE  \E node, top : AppendWrites(Appended(leaf), leaf, node, top)
<1> DEFINE n == Len(txArray)
           node[l \in Levels] ==
             IF l = 0 THEN leaf ELSE NodeAbove(node[l - 1], n, l - 1)
           newLen == [l \in Levels |->
             IF SlotAt(n, l) = LenAtHeight(l) THEN LenAtHeight(l) + 1 ELSE LenAtHeight(l)]
           ones == { l \in Levels : newLen[l] = 1 }
           top == Min(ones)
<1>1. /\ n \in Nat /\ MaxHeight \in Nat /\ Levels = 0..MaxHeight /\ len[0] = n
      /\ \A l \in Levels : len[l] \in Nat /\ Ancestor(n, l) \in Nat
  <2>1. n \in Nat /\ MaxHeight \in Nat /\ Levels = 0..MaxHeight /\ len[0] = n
    BY TreeFacts DEF Levels
  <2>2. ASSUME NEW l \in Levels PROVE len[l] \in Nat /\ Ancestor(n, l) \in Nat
    <3>1. l \in 0..MaxHeight /\ l \in Nat
      BY <2>1
    <3> HIDE DEF n
    <3> QED
      BY <2>1, <3>1, TreeFacts, AncestorFacts
  <2> QED
    BY <2>1, <2>2
<1>2. /\ node[0] = leaf
      /\ \A l \in 0..(MaxHeight - 1) : node[l + 1] = NodeAbove(node[l], n, l)
  BY AppendedNodes
<1>3. Appended(leaf) =
        [ store  |-> [ p \in DOMAIN store |->
                         IF p[1] <= top /\ p[2] = SlotAt(n, p[1])
                           THEN node[p[1]] ELSE store[p] ],
          len    |-> [ l \in Levels |-> IF l <= top THEN newLen[l] ELSE len[l] ],
          height |-> top,
          root   |-> node[top] ]
  BY <1>1 DEF Appended, LenAtHeight
<1> HIDE DEF node
<1>4. \A l \in Levels : SlotAt(n, l) = Ancestor(n, l) /\ newLen[l] = Ancestor(n, l) + 1
  BY <1>1, SlotIsLast DEF SlotAt, LenAtHeight
<1> HIDE DEF newLen
<1>5. MaxHeight \in ones
  <2>1. n < Pow2[MaxHeight]
    <3>1. Pow2[MaxHeight] \in Nat /\ MaxLeaves \in Nat /\ MaxLeaves <= Pow2[MaxHeight]
      BY <1>1, Pow2Facts, HeightAssumption
    <3> QED
      BY <1>1, <3>1
  <2> QED
    BY <1>1, <1>4, <2>1, AncestorAtTop
<1>6. top \in ones /\ \A l \in ones : top <= l
  <2>1. ones \subseteq Nat /\ ones # {}
    BY <1>1, <1>5
  <2> HIDE DEF ones
  <2>2. PICK m \in ones : \A l \in ones : m <= l
    BY <2>1, Least
  <2> QED
    BY <2>2 DEF Min
<1> HIDE DEF top
<1>7. /\ top \in Levels /\ Ancestor(n, top) = 0
      /\ \A l \in 0..MaxHeight : l < top => Ancestor(n, l) # 0
  <2>1. top \in Levels /\ newLen[top] = 1 /\ top \in Nat
    BY <1>1, <1>6
  <2>2. Ancestor(n, top) = 0
    BY <1>1, <1>4, <2>1
  <2>3. ASSUME NEW l \in 0..MaxHeight, l < top, Ancestor(n, l) = 0 PROVE FALSE
    <3>1. l \in ones
      BY <1>1, <1>4, <2>3
    <3> QED
      BY <1>6, <2>1, <2>3, <3>1
  <2> QED
    BY <2>1, <2>2, <2>3
<1>8. ASSUME NEW p \in DOMAIN store PROVE p[1] \in Levels
  BY <1>8 DEF TreeInv, TypeOK
<1>9. Appended(leaf).store = [ p \in DOMAIN store |->
                                 IF p[1] <= top /\ p[2] = Ancestor(n, p[1])
                                   THEN node[p[1]] ELSE store[p] ]
  BY <1>3, <1>4, <1>8
<1>10. Appended(leaf).len =
         [ l \in Levels |-> IF l <= top THEN Ancestor(n, l) + 1 ELSE len[l] ]
  BY <1>3, <1>4
<1>11. Appended(leaf).height = top /\ Appended(leaf).root = node[top]
  BY <1>3
<1> QED
  BY <1>2, <1>7, <1>9, <1>10, <1>11 DEF AppendWrites

(* The order of two nodes does not matter to their hash.                   *)
LEMMA MerkleHashCommutes ==
  ASSUME NEW a, NEW b
  PROVE  MerkleHash(a, b) = MerkleHash(b, a)
<1>1. {a, b} = {b, a}
  OBVIOUS
<1> QED
  BY <1>1 DEF MerkleHash, MerkleHashNot0, Hash2

(* What the storage is after an append, slot by slot.                      *)
LEMMA AppendEffect ==
  ASSUME TreeInv, Len(txArray) < MaxLeaves, NEW leaf, Write(Appended(leaf)),
         NEW node, NEW top, AppendWrites(Appended(leaf), leaf, node, top)
  PROVE  LET n == Len(txArray) IN
         /\ top \in Nat /\ height <= top /\ top <= MaxHeight /\ height' = top
         /\ \A l \in 0..MaxHeight :
              /\ Ancestor(n, l) \in Nat /\ Ancestor(n, l) < MaxLeaves
              /\ l <= top => len'[l] = Ancestor(n, l) + 1
              /\ l > top => len'[l] = len[l] /\ len[l] = 0
              /\ Ancestor(n, l) <= len[l]
              /\ \A i \in Indices :
                   ReadLeaf(l, i)' = IF l <= top /\ i = Ancestor(n, l)
                                    THEN node[l] ELSE ReadLeaf(l, i)
<1> DEFINE n == Len(txArray)
<1>1. /\ n \in Nat /\ n < MaxLeaves /\ MaxHeight \in Nat /\ MaxLeaves \in Nat
      /\ Levels = 0..MaxHeight
  BY TreeFacts DEF Levels
<1>2. /\ store' = [ p \in DOMAIN store |->
                      IF p[1] <= top /\ p[2] = Ancestor(n, p[1])
                        THEN node[p[1]] ELSE store[p] ]
      /\ len' = [ l \in Levels |-> IF l <= top THEN Ancestor(n, l) + 1 ELSE len[l] ]
      /\ height' = top /\ top \in Levels /\ Ancestor(n, top) = 0
  BY DEF Write, AppendWrites
<1>3. top \in Nat /\ top <= MaxHeight
  BY <1>1, <1>2
<1> HIDE DEF n
<1>4. ASSUME NEW l \in 0..MaxHeight
      PROVE  /\ l \in Nat /\ Ancestor(n, l) \in Nat /\ Ancestor(n, l) < MaxLeaves
             /\ len[l] \in Nat
             /\ len[l] = Ancestor(n, l) \/ len[l] = Ancestor(n, l) + 1
  <2>1. l \in Nat
    BY <1>1
  <2>2. Ancestor(n, l) \in Nat /\ Ancestor(n, l) <= n
    BY <1>1, <2>1, AncestorFacts, AncestorShrinks
  <2>3. len[l] = Ancestor(n, l) \/ len[l] = Ancestor(n, l) + 1
    BY SlotIsLast DEF n
  <2> QED
    BY <1>1, <2>1, <2>2, <2>3, TreeFacts
<1>5. height <= top
  <2> SUFFICES ASSUME top < height PROVE FALSE
    BY <1>3, TreeFacts
  <2>1. top \in 0..MaxHeight /\ len[top] > 1
    BY <1>3, TreeFacts
  <2> QED
    BY <1>2, <1>4, <2>1
<1>6. ASSUME NEW l \in 0..MaxHeight
      PROVE  /\ l <= top => len'[l] = Ancestor(n, l) + 1
             /\ l > top => len'[l] = len[l] /\ len[l] = 0
             /\ Ancestor(n, l) <= len[l]
  <2>1. len'[l] = IF l <= top THEN Ancestor(n, l) + 1 ELSE len[l]
    BY <1>1, <1>2
  <2>2. l > top => len[l] = 0
    BY <1>3, <1>4, <1>5, TreeFacts
  <2> QED
    BY <1>3, <1>4, <2>1, <2>2
<1>7. ASSUME NEW l \in 0..MaxHeight, NEW i \in Indices
      PROVE  ReadLeaf(l, i)' = IF l <= top /\ i = Ancestor(n, l)
                              THEN node[l] ELSE ReadLeaf(l, i)
  <2>1. DOMAIN store = Levels \X Indices
    BY DEF TreeInv, TypeOK
  <2>2. <<l, i>> \in DOMAIN store /\ <<l, i>>[1] = l /\ <<l, i>>[2] = i
    BY <1>1, <2>1
  <2> QED
    BY <1>2, <2>2 DEF ReadLeaf
<1> QED
  BY <1>2, <1>3, <1>4, <1>5, <1>6, <1>7 DEF n

LEMMA AppendKeepsTree ==
  ASSUME TreeInv, NEW leaf \in Leaf, AddNewTx(leaf)
  PROVE  TreeInv'
<1> DEFINE n == Len(txArray)
           A(l) == Ancestor(n, l)
<1>1. /\ n \in Nat /\ n < MaxLeaves /\ MaxHeight \in Nat /\ MaxLeaves \in Nat
      /\ Levels = 0..MaxHeight /\ Indices = 0..(MaxLeaves - 1) /\ len[0] = n
  BY TreeFacts DEF Levels, Indices, AddNewTx
<1>2. /\ txArray' = Append(txArray, leaf) /\ txArray \in Seq(Leaf)
      /\ Write(Appended(leaf))
  BY DEF AddNewTx, TreeInv, TypeOK
<1>3. PICK node, top : AppendWrites(Appended(leaf), leaf, node, top)
  BY <1>1, AppendedIs
<1>4. /\ top \in Nat /\ height <= top /\ top <= MaxHeight /\ height' = top
      /\ \A l \in 0..MaxHeight :
           /\ A(l) \in Nat /\ A(l) < MaxLeaves
           /\ l <= top => len'[l] = A(l) + 1
           /\ l > top => len'[l] = len[l] /\ len[l] = 0
           /\ A(l) <= len[l]
           /\ \A i \in Indices :
                ReadLeaf(l, i)' = IF l <= top /\ i = A(l) THEN node[l] ELSE ReadLeaf(l, i)
  BY <1>1, <1>2, <1>3, AppendEffect
<1>5. /\ node[0] = leaf
      /\ \A l \in 0..(MaxHeight - 1) : node[l + 1] = NodeAbove(node[l], n, l)
      /\ A(top) = 0 /\ \A l \in 0..MaxHeight : l < top => A(l) # 0
  BY <1>3 DEF AppendWrites
<1>6. A(0) = n /\ \A l \in 0..MaxHeight : A(l + 1) = A(l) \div 2
  <2>1. \A l \in 0..MaxHeight : l \in Nat
    BY <1>1
  <2> HIDE DEF n
  <2>2. A(0) = n /\ \A l \in Nat : A(l + 1) = A(l) \div 2
    BY <1>1, AncestorFacts, Zenon
  <2> QED
    BY <2>1, <2>2
<1>7. TypeOK'
  <2>1. store' = [p \in Levels \X Indices |-> store'[p]]
    BY <1>2, <1>3 DEF TreeInv, TypeOK, Write, AppendWrites
  <2>2. len' \in [Levels -> 0..MaxLeaves]
    <3>1. len' = [l \in Levels |-> len'[l]]
      BY <1>2, <1>3 DEF Write, AppendWrites
    <3>2. ASSUME NEW l \in Levels PROVE len'[l] \in 0..MaxLeaves
      <4>1. l \in 0..MaxHeight /\ l \in Nat
        BY <1>1
      <4>2. CASE l <= top
        <5>1. len'[l] = A(l) + 1 /\ A(l) \in Nat /\ A(l) < MaxLeaves
          BY <1>4, <4>1, <4>2
        <5> HIDE DEF A
        <5> QED
          BY <1>1, <5>1
      <4>3. CASE l > top
        <5>1. len'[l] = 0
          BY <1>4, <4>1, <4>3
        <5> QED
          BY <1>1, <5>1
      <4> QED
        BY <1>4, <4>1, <4>2, <4>3
    <3> QED
      BY <3>1, <3>2
  <2>3. txArray' \in Seq(Leaf) /\ Len(txArray') = n + 1
    BY <1>2
  <2> QED
    BY <1>1, <1>4, <2>1, <2>2, <2>3 DEF TypeOK
<1> HIDE DEF n, A
<1>8. LevelsHalve'
  <2>1. len'[0] = Len(txArray')
    <3>1. 0 \in 0..MaxHeight /\ 0 <= top
      BY <1>1, <1>4
    <3>2. len'[0] = n + 1
      BY <1>4, <1>6, <3>1
    <3>3. Len(txArray') = n + 1
      BY <1>2 DEF n
    <3> QED
      BY <3>2, <3>3
  <2>2. ASSUME NEW l \in 1..top PROVE len'[l] = (len'[l - 1] + 1) \div 2
    <3>1. /\ l - 1 \in 0..MaxHeight /\ l \in 0..MaxHeight /\ (l - 1) + 1 = l
          /\ l <= top /\ l - 1 <= top
      BY <1>1, <1>4
    <3>2. A(l) = A(l - 1) \div 2 /\ A(l - 1) \in Nat
      BY <1>4, <1>6, <3>1
    <3>3. len'[l] = A(l) + 1 /\ len'[l - 1] = A(l - 1) + 1
      BY <1>4, <3>1
    <3> QED
      BY <3>2, <3>3
  <2>3. ASSUME NEW l \in 0..top PROVE l < top <=> len'[l] > 1
    <3>1. l \in 0..MaxHeight /\ l <= top
      BY <1>1, <1>4
    <3>2. len'[l] = A(l) + 1 /\ A(l) \in Nat
      BY <1>4, <3>1
    <3>3. l < top \/ l = top
      BY <1>4, <3>1
    <3> QED
      BY <1>4, <1>5, <3>1, <3>2, <3>3
  <2> QED
    BY <1>4, <2>1, <2>2, <2>3 DEF LevelsHalve, LenAtHeight
<1>9. NothingAbove'
  BY <1>1, <1>4 DEF NothingAbove
<1>10. LeavesAreStored'
  <2> SUFFICES ASSUME NEW i \in 0..(len'[0] - 1) PROVE ReadLeaf(0, i)' = txArray'[i + 1]
    BY DEF LeavesAreStored
  <2>1. 0 \in 0..MaxHeight /\ 0 <= top /\ len'[0] = n + 1 /\ i \in Indices
    BY <1>1, <1>4, <1>6
  <2>2. ReadLeaf(0, i)' = IF i = n THEN leaf ELSE ReadLeaf(0, i)
    BY <1>4, <1>5, <1>6, <2>1
  <2>3. CASE i = n
    BY <1>1, <1>2, <2>2, <2>3 DEF n
  <2>4. CASE i # n
    <3>1. i \in 0..(len[0] - 1) /\ i + 1 \in 1..n
      BY <1>1, <2>1, <2>4
    <3>2. ReadLeaf(0, i) = txArray[i + 1]
      BY <3>1 DEF TreeInv, LeavesAreStored
    <3> QED
      BY <1>2, <2>2, <2>4, <3>1, <3>2 DEF n
  <2> QED
    BY <2>3, <2>4
<1>11. NodesJoin'
  <2> SUFFICES ASSUME NEW l \in 1..top, NEW i \in 0..(len'[l] - 1)
               PROVE  ReadLeaf(l, i)' =
                        IF 2 * i + 1 < len'[l - 1]
                          THEN MerkleHash(ReadLeaf(l - 1, 2 * i)', ReadLeaf(l - 1, 2 * i + 1)')
                          ELSE ReadLeaf(l - 1, 2 * i)'
    BY <1>4 DEF NodesJoin
  <2> DEFINE k == l - 1
  <2>1. /\ k \in 0..MaxHeight /\ k \in 0..(MaxHeight - 1) /\ l \in 0..MaxHeight
        /\ k + 1 = l /\ l <= top /\ k <= top
    BY <1>1, <1>4
  <2>2. /\ A(k) \in Nat /\ A(l) \in Nat /\ A(l) = A(k) \div 2 /\ A(k) < MaxLeaves
        /\ A(l) <= len[l] /\ A(k) <= len[k]
        /\ len'[l] = A(l) + 1 /\ len'[k] = A(k) + 1
    BY <1>4, <1>6, <2>1
  <2> HIDE DEF k
  <2>3. i \in Nat /\ i <= A(l) /\ 2 * i <= A(k) /\ i \in Indices /\ 2 * i \in Indices
    <3>1. i \in Nat /\ i <= A(l)
      BY <2>2
    <3>2. 2 * A(l) <= A(k)
      BY <2>2, Halves
    <3> QED
      BY <1>1, <2>2, <3>1, <3>2
  <2>4. /\ ReadLeaf(l, i)' = IF i = A(l) THEN node[l] ELSE ReadLeaf(l, i)
        /\ \A j \in Indices : ReadLeaf(k, j)' = IF j = A(k) THEN node[k] ELSE ReadLeaf(k, j)
    BY <1>4, <2>1, <2>3
  <2>5. node[l] = NodeAbove(node[k], n, k)
    BY <1>5, <2>1
  <2>6. CASE i = A(l) /\ A(k) % 2 = 1
    <3>1. 2 * i = A(k) - 1 /\ 2 * i + 1 = A(k) /\ 2 * i + 1 < len'[k] /\ 2 * i + 1 \in Indices
      <4>1. A(k) = 2 * i + 1
        BY <2>2, <2>6, Halves
      <4> QED
        BY <1>1, <2>2, <2>3, <4>1
    <3>2. node[l] = MerkleHash(node[k], ReadLeaf(k, 2 * i))
      BY <2>5, <2>6, <3>1 DEF NodeAbove, A
    <3>3. ReadLeaf(k, 2 * i)' = ReadLeaf(k, 2 * i) /\ ReadLeaf(k, 2 * i + 1)' = node[k]
      BY <2>2, <2>3, <2>4, <3>1
    <3>4. ReadLeaf(l, i)' = MerkleHash(ReadLeaf(k, 2 * i)', ReadLeaf(k, 2 * i + 1)')
      BY <2>4, <2>6, <3>2, <3>3, MerkleHashCommutes
    <3> QED
      BY <3>1, <3>4 DEF k
  <2>7. CASE i = A(l) /\ A(k) % 2 # 1
    <3>1. 2 * i = A(k) /\ ~(2 * i + 1 < len'[k])
      BY <2>2, <2>7, Halves
    <3>2. node[l] = node[k]
      BY <2>5, <2>7 DEF NodeAbove, A
    <3>3. ReadLeaf(l, i)' = ReadLeaf(k, 2 * i)'
      BY <2>3, <2>4, <2>7, <3>1, <3>2
    <3> QED
      BY <3>1, <3>3 DEF k
  <2>8. CASE i # A(l)
    <3>1. i < A(l) /\ i < len[l] /\ i \in 0..(len[l] - 1) /\ len[l] \in Nat
      <4>1. len[l] \in Nat
        BY <2>1, TreeFacts
      <4> QED
        BY <2>2, <2>3, <2>8, <4>1
    <3>2. l \in 1..height
      BY <2>1, <3>1, TreeFacts
    <3>3. /\ 2 * i + 1 < A(k) /\ 2 * i + 1 < len'[k] /\ 2 * i + 1 \in Indices
          /\ 2 * i # A(k) /\ 2 * i + 1 # A(k) /\ len[k] \in Nat
      <4>1. len[k] \in Nat
        BY <2>1, TreeFacts
      <4>2. 2 * A(l) <= A(k)
        BY <2>2, Halves
      <4>3. 2 * i + 2 <= A(k)
        BY <2>2, <2>3, <3>1, <4>2
      <4> QED
        BY <1>1, <2>2, <2>3, <4>1, <4>3
    <3>4. 2 * i + 1 < len[k]
      BY <2>2, <2>3, <3>3
    <3>5. ReadLeaf(l, i) = MerkleHash(ReadLeaf(k, 2 * i), ReadLeaf(k, 2 * i + 1))
      BY <3>1, <3>2, <3>4 DEF TreeInv, NodesJoin, k
    <3>6. ReadLeaf(l, i)' = MerkleHash(ReadLeaf(k, 2 * i)', ReadLeaf(k, 2 * i + 1)')
      BY <2>3, <2>4, <2>8, <3>3, <3>5
    <3> QED
      BY <3>3, <3>6 DEF k
  <2> QED
    BY <2>6, <2>7, <2>8
<1> QED
  BY <1>7, <1>8, <1>9, <1>10, <1>11 DEF TreeInv

-----------------------------------------------------------------------------
(* The rebuild: initStorage computes each level from the one below, and    *)
(* finds in it what is stored there.                                       *)

StoredLevel(l) == [k \in 1..len[l] |-> ReadLeaf(l, k - 1)]

(* Above the top, the single node is carried up unchanged.                 *)
LevelAt(l) == StoredLevel(IF l <= height THEN l ELSE height)

LEMMA StoredLevelFacts ==
  ASSUME TreeInv, NEW l \in 0..MaxHeight
  PROVE  /\ len[l] \in Nat /\ Len(StoredLevel(l)) = len[l]
         /\ \A k \in 1..len[l] : StoredLevel(l)[k] = ReadLeaf(l, k - 1)
<1>1. len[l] \in Nat
  BY TreeFacts
<1> QED
  BY <1>1 DEF StoredLevel

LEMMA NextStoredLevel ==
  ASSUME TreeInv, NEW l \in Nat, l < height
  PROVE  ComputeNextLevel(StoredLevel(l)) = StoredLevel(l + 1)
<1> DEFINE m == len[l]
           s == StoredLevel(l)
<1>1. /\ l \in 0..MaxHeight /\ l + 1 \in 0..MaxHeight /\ l + 1 \in 1..height
      /\ (l + 1) - 1 = l
  BY TreeFacts
<1>2. m \in Nat /\ Len(s) = m /\ \A k \in 1..m : s[k] = ReadLeaf(l, k - 1)
  BY <1>1, StoredLevelFacts
<1>3. len[l + 1] = (m + 1) \div 2
  BY TreeFacts
<1> HIDE DEF s, m
<1>4. ASSUME NEW k \in 1..((m + 1) \div 2)
      PROVE  (IF 2 * k <= m THEN MerkleHash(s[2 * k - 1], s[2 * k]) ELSE s[m])
               = ReadLeaf(l + 1, k - 1)
  <2>1. k \in Nat /\ k >= 1 /\ 2 * k <= m + 1
    BY <1>2
  <2>2. k - 1 \in 0..(len[l + 1] - 1) /\ 2 * (k - 1) = 2 * k - 2 /\ 2 * (k - 1) + 1 = 2 * k - 1
    BY <1>2, <1>3, <2>1
  <2>3. ReadLeaf(l + 1, k - 1) = IF 2 * k - 1 < m
                                   THEN MerkleHash(ReadLeaf(l, 2 * k - 2), ReadLeaf(l, 2 * k - 1))
                                   ELSE ReadLeaf(l, 2 * k - 2)
    BY <1>1, <2>2 DEF TreeInv, NodesJoin, m
  <2>4. CASE 2 * k <= m
    <3>1. 2 * k - 1 < m /\ 2 * k - 1 \in 1..m /\ 2 * k \in 1..m /\ (2 * k - 1) - 1 = 2 * k - 2
      BY <1>2, <2>1, <2>4
    <3>2. s[2 * k - 1] = ReadLeaf(l, 2 * k - 2) /\ s[2 * k] = ReadLeaf(l, 2 * k - 1)
      BY <1>2, <3>1
    <3> QED
      BY <2>3, <2>4, <3>1, <3>2
  <2>5. CASE ~(2 * k <= m)
    <3>1. ~(2 * k - 1 < m) /\ m \in 1..m /\ m - 1 = 2 * k - 2
      BY <1>2, <2>1, <2>5
    <3>2. s[m] = ReadLeaf(l, 2 * k - 2)
      BY <1>2, <3>1
    <3> QED
      BY <2>3, <2>5, <3>1, <3>2
  <2> QED
    BY <2>4, <2>5
<1> QED
  BY <1>2, <1>3, <1>4 DEF ComputeNextLevel, StoredLevel, s

(* A level of one node, or of none, is its own next level.                 *)
LEMMA NextOfSingle ==
  ASSUME NEW m \in {0, 1}, NEW s, s = [k \in 1..m |-> s[k]], Len(s) = m
  PROVE  ComputeNextLevel(s) = s
<1>1. (m + 1) \div 2 = m
  OBVIOUS
<1>2. \A k \in 1..m : k = m /\ ~(2 * k <= m)
  OBVIOUS
<1>3. ComputeNextLevel(s) = [k \in 1..m |-> s[k]]
  BY <1>1, <1>2 DEF ComputeNextLevel
<1> QED
  BY <1>3

IsRebuilt(level, leaves) ==
  level = [h \in Levels |-> IF h = 0 THEN leaves ELSE ComputeNextLevel(level[h - 1])]

LEMMA LevelsRebuilt ==
  ASSUME TreeInv
  PROVE  /\ LevelAt(0) = txArray
         /\ \A l \in Nat : l < MaxHeight => LevelAt(l + 1) = ComputeNextLevel(LevelAt(l))
<1>1. LevelAt(0) = txArray
  <2>1. 0 \in 0..MaxHeight /\ 0 <= height
    BY TreeFacts
  <2>2. len[0] = Len(txArray) /\ Len(txArray) \in Nat
    BY TreeFacts
  <2>3. txArray = [k \in 1..Len(txArray) |-> txArray[k]]
    BY DEF TreeInv, TypeOK
  <2>4. ASSUME NEW k \in 1..Len(txArray) PROVE ReadLeaf(0, k - 1) = txArray[k]
    <3>1. k - 1 \in 0..(len[0] - 1) /\ (k - 1) + 1 = k
      BY <2>2
    <3> QED
      BY <3>1 DEF TreeInv, LeavesAreStored
  <2> QED
    BY <2>1, <2>2, <2>3, <2>4 DEF LevelAt, StoredLevel
<1>2. ASSUME NEW l \in Nat, l < MaxHeight
      PROVE  LevelAt(l + 1) = ComputeNextLevel(LevelAt(l))
  <2>1. CASE l < height
    <3>1. l <= height /\ l + 1 <= height
      BY <2>1, TreeFacts
    <3> QED
      BY <2>1, <3>1, NextStoredLevel DEF LevelAt
  <2>2. CASE ~(l < height)
    <3>1. LevelAt(l) = StoredLevel(height) /\ LevelAt(l + 1) = StoredLevel(height)
      <4>1. (l <= height => l = height) /\ ~(l + 1 <= height)
        BY <2>2, TreeFacts
      <4> QED
        BY <4>1 DEF LevelAt
    <3>2. height \in 0..MaxHeight /\ len[height] \in {0, 1}
      <4>1. height \in 0..MaxHeight /\ len[height] <= 1
        BY TreeFacts
      <4>2. len[height] \in Nat
        BY <4>1, TreeFacts
      <4> QED
        BY <4>1, <4>2
    <3> DEFINE s == StoredLevel(height)
    <3>3. s = [k \in 1..len[height] |-> s[k]] /\ Len(s) = len[height]
      BY <3>2, StoredLevelFacts DEF StoredLevel
    <3> HIDE DEF s
    <3>4. ComputeNextLevel(s) = s
      BY <3>2, <3>3, NextOfSingle
    <3> QED
      BY <3>1, <3>4 DEF s
  <2> QED
    BY <2>1, <2>2
<1> QED
  BY <1>1, <1>2

LEMMA RebuildChangesNothing ==
  ASSUME TreeInv, RecalculateMerkleRoot
  PROVE  UNCHANGED vars
<1> DEFINE level == CHOOSE g : IsRebuilt(g, txArray)
           found == [h \in Levels |-> LevelAt(h)]
           singles == { h \in Levels : Len(level[h]) <= 1 }
           top == Min(singles)
<1>1. /\ MaxHeight \in Nat /\ Levels = 0..MaxHeight /\ height \in Nat
      /\ height \in Levels
  BY TreeFacts DEF Levels
<1>2. IsRebuilt(found, txArray)
  <2>1. ASSUME NEW h \in Levels
        PROVE  LevelAt(h) = IF h = 0 THEN txArray ELSE ComputeNextLevel(found[h - 1])
    <3>1. CASE h = 0
      BY <3>1, LevelsRebuilt
    <3>2. CASE h # 0
      <4>1. h - 1 \in Nat /\ h - 1 < MaxHeight /\ (h - 1) + 1 = h /\ h - 1 \in Levels
        BY <1>1, <3>2
      <4>2. LevelAt(h) = ComputeNextLevel(LevelAt(h - 1))
        BY <4>1, LevelsRebuilt
      <4> QED
        BY <3>2, <4>1, <4>2
    <3> QED
      BY <3>1, <3>2
  <2> QED
    BY <2>1 DEF IsRebuilt
<1>3. IsRebuilt(level, txArray)
  BY <1>2
<1>4. Built(txArray) =
        [ store  |-> [ p \in DOMAIN store |->
                         IF p[1] <= top /\ p[2] < Len(level[p[1]])
                           THEN level[p[1]][p[2] + 1] ELSE store[p] ],
          len    |-> [ h \in Levels |-> IF h <= top THEN Len(level[h]) ELSE len[h] ],
          height |-> top ]
  BY DEF Built, IsRebuilt, WrittenLen
<1> HIDE DEF level
<1>5. \A h \in Levels : level[h] = LevelAt(h)
  <2> DEFINE T == { h \in Nat : h <= MaxHeight => level[h] = LevelAt(h) }
  <2>1. 0 \in T
    BY <1>1, <1>3, LevelsRebuilt DEF IsRebuilt
  <2>2. ASSUME NEW h \in Nat, h \in T PROVE h + 1 \in T
    <3> SUFFICES ASSUME h + 1 <= MaxHeight PROVE level[h + 1] = LevelAt(h + 1)
      OBVIOUS
    <3>1. /\ h < MaxHeight /\ h + 1 \in Levels /\ h + 1 # 0 /\ (h + 1) - 1 = h
          /\ level[h] = LevelAt(h)
      BY <1>1, <2>2
    <3>2. level[h + 1] = ComputeNextLevel(level[h])
      BY <1>3, <3>1 DEF IsRebuilt
    <3> QED
      BY <3>1, <3>2, LevelsRebuilt
  <2>3. \A h \in Nat : h \in T
    <3> HIDE DEF T
    <3> QED
      BY <2>1, <2>2, Induct
  <2> QED
    BY <1>1, <2>3
<1>6. ASSUME NEW h \in Levels, h <= height
      PROVE  /\ h \in 0..MaxHeight /\ len[h] \in Nat /\ Len(level[h]) = len[h]
             /\ \A k \in 1..len[h] : level[h][k] = ReadLeaf(h, k - 1)
  <2>1. h \in 0..MaxHeight /\ level[h] = StoredLevel(h)
    BY <1>1, <1>5, <1>6 DEF LevelAt
  <2> QED
    BY <2>1, StoredLevelFacts
<1>7. top = height
  <2>1. height \in singles
    <3>1. Len(level[height]) = len[height] /\ len[height] <= 1
      BY <1>1, <1>6, TreeFacts
    <3> QED
      BY <1>1, <3>1
  <2>2. ASSUME NEW h \in singles PROVE height <= h
    <3> SUFFICES ASSUME h < height PROVE FALSE
      BY <1>1
    <3>1. h \in Levels /\ h \in Nat /\ h <= height /\ Len(level[h]) <= 1
      BY <1>1
    <3>2. Len(level[h]) = len[h] /\ len[h] \in Nat /\ len[h] > 1
      BY <1>6, <3>1, TreeFacts
    <3> QED
      BY <3>1, <3>2
  <2>3. \A h \in singles : h \in Nat
    BY <1>1
  <2> HIDE DEF singles
  <2> DEFINE IsMin(m) == \A h \in singles : m <= h
  <2>4. top = CHOOSE m \in singles : IsMin(m)
    BY DEF Min
  <2>5. top \in singles /\ IsMin(top)
    <3>1. IsMin(height)
      BY <2>2
    <3> HIDE DEF IsMin, top
    <3> QED
      BY <2>1, <2>4, <3>1
  <2> HIDE DEF top
  <2>6. top <= height /\ height <= top /\ top \in Nat
    BY <2>1, <2>2, <2>3, <2>5
  <2> QED
    BY <1>1, <2>6
<1> HIDE DEF top
<1>8. store' = store
  <2>1. store = [p \in Levels \X Indices |-> store[p]]
    BY DEF TreeInv, TypeOK
  <2>2. ASSUME NEW p \in Levels \X Indices, p[1] <= height, p[2] < Len(level[p[1]])
        PROVE  level[p[1]][p[2] + 1] = store[p]
    <3>1. p[1] \in Levels /\ p[2] \in Nat /\ p = <<p[1], p[2]>>
      BY HeightAssumption DEF Indices
    <3>2. Len(level[p[1]]) = len[p[1]] /\ len[p[1]] \in Nat
      BY <1>6, <2>2, <3>1
    <3>3. p[2] + 1 \in 1..len[p[1]] /\ (p[2] + 1) - 1 = p[2]
      BY <2>2, <3>1, <3>2
    <3>4. level[p[1]][p[2] + 1] = ReadLeaf(p[1], p[2])
      BY <1>6, <2>2, <3>1, <3>3
    <3> QED
      BY <3>1, <3>4 DEF ReadLeaf
  <2>3. store' = [ p \in Levels \X Indices |->
                     IF p[1] <= height /\ p[2] < Len(level[p[1]])
                       THEN level[p[1]][p[2] + 1] ELSE store[p] ]
    BY <1>4, <1>7, <2>1 DEF RecalculateMerkleRoot, Write
  <2> QED
    BY <2>1, <2>2, <2>3
<1>9. len' = len
  <2>1. len = [h \in Levels |-> len[h]]
    BY DEF TreeInv, TypeOK
  <2>2. len' = [ h \in Levels |-> IF h <= height THEN Len(level[h]) ELSE len[h] ]
    BY <1>4, <1>7 DEF RecalculateMerkleRoot, Write
  <2> QED
    BY <1>6, <2>1, <2>2
<1>10. height' = height
  BY <1>4, <1>7 DEF RecalculateMerkleRoot, Write
<1> QED
  BY <1>8, <1>9, <1>10 DEF RecalculateMerkleRoot, vars

LEMMA NextTree ==
  ASSUME TreeInv, [Next]_vars
  PROVE  TreeInv'
<1>1. CASE \E leaf \in Leaf : AddNewTx(leaf)
  BY <1>1, AppendKeepsTree
<1>2. CASE UNCHANGED vars
  BY <1>2 DEF vars, TreeInv, TypeOK, LevelsHalve, LenAtHeight, NothingAbove,
              LeavesAreStored, NodesJoin, ReadLeaf
<1>3. CASE RecalculateMerkleRoot
  BY <1>2, <1>3, RebuildChangesNothing
<1> QED
  BY <1>1, <1>2, <1>3 DEF Next

-----------------------------------------------------------------------------
(* Every tree the contract can store is one whose nodes join as the        *)
(* invariant says, whatever order appends and rebuilds come in             *)
(* (StoredMerkle.append and initStorage).                                  *)
THEOREM TreeInvariance == Spec => []TreeInv
<1> QED
  BY InitTree, NextTree, PTL DEF Spec

(* The heights, lengths and slots an append or a rebuild writes are within *)
(* the levels a tree of MaxLeaves leaves can have: StoredMerkle.append     *)
(* finds a level with one node before it runs out of levels.               *)
THEOREM TreeTypeCorrect == Spec => []TypeOK
<1>1. TreeInv => TypeOK
  BY DEF TreeInv
<1> QED
  BY <1>1, TreeInvariance, PTL

(* Every level has half the nodes of the one below, rounded up, and the    *)
(* height is the first with a single node (StoredMerkle.append's lengths   *)
(* and initStorage's are the same).                                        *)
THEOREM LevelsAreHalved == Spec => []LevelsHalve
<1>1. TreeInv => LevelsHalve
  BY DEF TreeInv
<1> QED
  BY <1>1, TreeInvariance, PTL

-----------------------------------------------------------------------------
(* The reference root: its recursion is on ever shorter lists.             *)

LEMMA SplitIs ==
  ASSUME NEW n \in Nat, NEW k \in Nat, Pow2[k] < n, n <= 2 * Pow2[k]
  PROVE  SplitOf(n) = Pow2[k]
<1> DEFINE Fits(p) == p < n /\ n <= 2 * p
           splits == { Pow2[j] : j \in 0..n }
<1>1. Pow2[k] > k /\ Pow2[k] \in Nat /\ k \in 0..n
  BY Pow2Grows, Pow2Facts
<1>2. Pow2[k] \in splits /\ Fits(Pow2[k])
  BY <1>1
<1>3. ASSUME NEW p \in splits, Fits(p) PROVE p = Pow2[k]
  <2>1. PICK j \in 0..n : p = Pow2[j]
    BY <1>3
  <2>2. j \in Nat /\ Pow2[j] \in Nat
    BY <2>1, Pow2Facts
  <2>3. ~(j < k) /\ ~(k < j)
    <3>1. j < k => 2 * Pow2[j] <= Pow2[k]
      BY <2>2, Pow2Grows
    <3>2. k < j => 2 * Pow2[k] <= Pow2[j]
      BY <2>2, Pow2Grows
    <3> QED
      BY <1>1, <1>3, <2>1, <2>2, <3>1, <3>2
  <2> QED
    BY <2>1, <2>2, <2>3
<1>4. SplitOf(n) = CHOOSE p \in splits : Fits(p)
  BY DEF SplitOf
<1> HIDE DEF splits, Fits
<1> QED
  BY <1>2, <1>3, <1>4

LEMMA SplitExists ==
  ASSUME NEW n \in Nat, n >= 2
  PROVE  SplitOf(n) \in Nat /\ SplitOf(n) >= 1 /\ SplitOf(n) < n
<1> DEFINE T == { k \in Nat : n <= 2 * Pow2[k] }
<1>1. n \in T
  BY Pow2Grows, Pow2Facts
<1>2. PICK k \in T : \A j \in T : k <= j
  <2>1. T \subseteq Nat /\ T # {}
    BY <1>1
  <2> HIDE DEF T
  <2> QED
    BY <2>1, Least
<1>3. Pow2[k] < n
  <2>1. CASE k = 0
    BY <2>1, Pow2Facts
  <2>2. CASE k # 0
    <3>1. k - 1 \in Nat /\ (k - 1) + 1 = k /\ k - 1 \notin T
      BY <1>2, <2>2
    <3>2. Pow2[k] = 2 * Pow2[k - 1] /\ Pow2[k - 1] \in Nat
      BY <3>1, Pow2Facts
    <3> QED
      BY <3>1, <3>2
  <2> QED
    BY <2>1, <2>2
<1>4. SplitOf(n) = Pow2[k]
  BY <1>3, SplitIs
<1> QED
  BY <1>3, <1>4, Pow2Facts, Pow2Grows

Logs == Seq(Leaf) \ {<<>>}

LEMMA LogsAreNotEmpty ==
  ASSUME NEW t \in Seq(Leaf), Len(t) >= 1
  PROVE  t \in Logs
<1>1. Len(<<>>) = 0
  BY EmptySeq
<1>2. t # <<>>
  BY <1>1
<1> QED
  BY <1>2 DEF Logs

(* The two halves a list is split into are shorter lists.                  *)
LEMMA HalvesOfLog ==
  ASSUME NEW s \in Logs
  PROVE  /\ Len(s) \in Nat /\ Len(s) >= 1
         /\ Len(s) # 1 =>
              LET p == SplitOf(Len(s))
                  a == SubSeq(s, 1, p)
                  b == SubSeq(s, p + 1, Len(s))
              IN  a \in Logs /\ Len(a) < Len(s) /\ b \in Logs /\ Len(b) < Len(s)
<1>1. Len(s) \in Nat /\ Len(s) >= 1
  BY EmptySeq DEF Logs
<1>2. ASSUME Len(s) # 1
      PROVE  LET p == SplitOf(Len(s))
                 a == SubSeq(s, 1, p)
                 b == SubSeq(s, p + 1, Len(s))
             IN  a \in Logs /\ Len(a) < Len(s) /\ b \in Logs /\ Len(b) < Len(s)
  <2> DEFINE n == Len(s)
             p == SplitOf(n)
  <2>1. n \in Nat /\ n >= 2 /\ s \in Seq(Leaf)
    <3>1. s \in Seq(Leaf)
      BY DEF Logs
    <3>2. n \in Nat /\ n >= 1 /\ n # 1
      BY <1>1, <1>2, Zenon
    <3> HIDE DEF n
    <3> QED
      BY <3>1, <3>2
  <2>2. p \in Nat /\ p >= 1 /\ p < n
    <3> HIDE DEF n
    <3> QED
      BY <2>1, SplitExists
  <2> HIDE DEF p
  <2>3. SubSeq(s, 1, p) \in Seq(Leaf) /\ Len(SubSeq(s, 1, p)) = p
    BY <2>1, <2>2, SubSeqProperties
  <2>4. SubSeq(s, p + 1, n) \in Seq(Leaf) /\ Len(SubSeq(s, p + 1, n)) = n - p
    BY <2>1, <2>2, SubSeqProperties
  <2>5. SubSeq(s, 1, p) \in Logs
    BY <2>2, <2>3, LogsAreNotEmpty
  <2>6. SubSeq(s, p + 1, n) \in Logs
    <3>1. n - p >= 1
      BY <2>1, <2>2
    <3> HIDE DEF n
    <3> QED
      BY <2>4, <3>1, LogsAreNotEmpty
  <2>7. p < n /\ n - p < n
    BY <2>1, <2>2
  <2> HIDE DEF n
  <2> QED
    BY <2>3, <2>4, <2>5, <2>6, <2>7 DEF n, p
<1> QED
  BY <1>1, <1>2

RootOf(f, s) ==
  LET p == SplitOf(Len(s))
  IN  IF Len(s) = 1 THEN s[1]
      ELSE MerkleHash(f[SubSeq(s, 1, p)], f[SubSeq(s, p + 1, Len(s))])

(* f is the reference root of the lists of at most n leaves.               *)
RootsUpTo(n, f) == \A s \in Logs : Len(s) <= n => f[s] = RootOf(f, s)

LEMMA RootIsLocal ==
  ASSUME NEW f, NEW g, NEW s \in Logs,
         \A t \in Logs : Len(t) < Len(s) => f[t] = g[t]
  PROVE  RootOf(f, s) = RootOf(g, s)
BY HalvesOfLog DEF RootOf

LEMMA ReferenceIs ==
  \A s \in Logs : ReferenceRoot[s] = RootOf(ReferenceRoot, s)
<1> DEFINE T == { n \in Nat : \E f : RootsUpTo(n, f) }
<1>1. 0 \in T
  <2>1. RootsUpTo(0, <<>>)
    BY HalvesOfLog DEF RootsUpTo
  <2> QED
    BY <2>1
<1>2. ASSUME NEW n \in Nat, n \in T PROVE n + 1 \in T
  <2>1. PICK f : RootsUpTo(n, f)
    BY <1>2
  <2> DEFINE h == [s \in Logs |-> IF Len(s) = n + 1 THEN RootOf(f, s) ELSE f[s]]
  <2>2. ASSUME NEW s \in Logs, Len(s) <= n + 1 PROVE h[s] = RootOf(h, s)
    <3>1. Len(s) \in Nat
      BY HalvesOfLog
    <3>2. ASSUME NEW t \in Logs, Len(t) < Len(s) PROVE h[t] = f[t]
      <4>1. Len(t) \in Nat
        BY HalvesOfLog
      <4> QED
        BY <2>2, <3>1, <3>2, <4>1
    <3>3. h[s] = RootOf(f, s)
      <4>1. CASE Len(s) = n + 1
        BY <4>1
      <4>2. CASE Len(s) # n + 1
        <5>1. Len(s) <= n /\ h[s] = f[s]
          BY <2>2, <3>1, <4>2
        <5> HIDE DEF h
        <5> QED
          BY <2>1, <5>1 DEF RootsUpTo
      <4> QED
        BY <4>1, <4>2
    <3> HIDE DEF h
    <3>4. RootOf(h, s) = RootOf(f, s)
      BY <3>2, RootIsLocal
    <3> QED
      BY <3>3, <3>4
  <2> HIDE DEF h
  <2>3. RootsUpTo(n + 1, h)
    BY <2>2 DEF RootsUpTo
  <2> QED
    BY <2>3
<1>3. \A n \in Nat : \E f : RootsUpTo(n, f)
  <2>1. \A n \in Nat : n \in T
    <3> HIDE DEF T
    <3> QED
      BY <1>1, <1>2, Induct
  <2> QED
    BY <2>1
(* Two such functions agree on the lists both are defined by.              *)
<1>4. ASSUME NEW f, NEW g
      PROVE  \A n \in Nat : RootsUpTo(n, f) /\ RootsUpTo(n, g) =>
               \A s \in Logs : Len(s) <= n => f[s] = g[s]
  <2> DEFINE Agree == { n \in Nat : RootsUpTo(n, f) /\ RootsUpTo(n, g) =>
                          \A s \in Logs : Len(s) <= n => f[s] = g[s] }
  <2>1. 0 \in Agree
    BY HalvesOfLog
  <2>2. ASSUME NEW n \in Nat, n \in Agree PROVE n + 1 \in Agree
    <3> SUFFICES ASSUME RootsUpTo(n + 1, f), RootsUpTo(n + 1, g),
                        NEW s \in Logs, Len(s) <= n + 1
                 PROVE  f[s] = g[s]
      OBVIOUS
    <3>1. \A t \in Logs : Len(t) \in Nat
      BY HalvesOfLog
    <3>2. RootsUpTo(n, f) /\ RootsUpTo(n, g)
      BY <3>1 DEF RootsUpTo
    <3>3. \A t \in Logs : Len(t) <= n => f[t] = g[t]
      BY <2>2, <3>2
    <3>4. \A t \in Logs : Len(t) < Len(s) => f[t] = g[t]
      BY <3>1, <3>3
    <3>5. f[s] = RootOf(f, s) /\ g[s] = RootOf(g, s)
      BY DEF RootsUpTo
    <3> QED
      BY <3>4, <3>5, RootIsLocal
  <2>3. \A n \in Nat : n \in Agree
    <3> HIDE DEF Agree
    <3> QED
      BY <2>1, <2>2, Induct
  <2> QED
    BY <2>3
<1> DEFINE F == [n \in Nat |-> CHOOSE f : RootsUpTo(n, f)]
           R == [s \in Logs |-> F[Len(s)][s]]
<1>5. \A n \in Nat : RootsUpTo(n, F[n])
  BY <1>3
<1> HIDE DEF F
<1>6. ASSUME NEW s \in Logs PROVE R[s] = RootOf(R, s)
  <2> DEFINE n == Len(s)
  <2>1. n \in Nat
    BY HalvesOfLog
  <2>2. F[n][s] = RootOf(F[n], s)
    BY <1>5, <2>1 DEF RootsUpTo
  <2>3. ASSUME NEW t \in Logs, Len(t) < Len(s) PROVE R[t] = F[n][t]
    <3>1. Len(t) \in Nat
      BY HalvesOfLog
    <3>2. RootsUpTo(Len(t), F[Len(t)])
      BY <1>5, <3>1
    <3>3. RootsUpTo(Len(t), F[n])
      <4>1. RootsUpTo(n, F[n])
        BY <1>5, <2>1
      <4>2. \A u \in Logs : Len(u) \in Nat
        BY HalvesOfLog
      <4> QED
        BY <2>1, <2>3, <3>1, <4>1, <4>2 DEF RootsUpTo
    <3>4. F[Len(t)][t] = F[n][t]
      BY <1>4, <3>1, <3>2, <3>3
    <3> QED
      BY <3>4
  <2>4. R[s] = F[n][s]
    OBVIOUS
  <2> HIDE DEF R, n
  <2>5. RootOf(R, s) = RootOf(F[n], s)
    BY <2>3, RootIsLocal
  <2> QED
    BY <2>2, <2>4, <2>5
<1> DEFINE IsRoot(f) == f = [s \in Logs |-> RootOf(f, s)]
<1>7. IsRoot(R)
  <2>1. R = [s \in Logs |-> R[s]]
    OBVIOUS
  <2> HIDE DEF R
  <2> QED
    BY <1>6, <2>1
<1>8. ReferenceRoot = CHOOSE f : IsRoot(f)
  BY DEF ReferenceRoot, RootOf, Logs
<1>9. IsRoot(ReferenceRoot)
  <2> HIDE DEF IsRoot, R
  <2> QED
    BY <1>7, <1>8
<1> QED
  BY <1>9

-----------------------------------------------------------------------------
(* What lies under a node.                                                 *)

(* A node exists exactly when some leaf is below it.                       *)
LEMMA NodesOverLeaves ==
  ASSUME TreeInv
  PROVE  \A l \in 0..height : \A i \in Nat : i < len[l] <=> i * Pow2[l] < Len(txArray)
<1> DEFINE n == Len(txArray)
           Over(l) == \A i \in Nat : i < len[l] <=> i * Pow2[l] < n
           T == { l \in Nat : l <= height => Over(l) }
<1>1. /\ height \in Nat /\ height <= MaxHeight /\ MaxHeight \in Nat
      /\ n \in Nat /\ len[0] = n
  BY TreeFacts
<1>2. 0 \in T
  <2> HIDE DEF n
  <2>1. Over(0)
    BY <1>1, Pow2Facts
  <2> QED
    BY <2>1
<1>3. ASSUME NEW l \in Nat, l \in T PROVE l + 1 \in T
  <2> SUFFICES ASSUME l + 1 <= height PROVE Over(l + 1)
    OBVIOUS
  <2>1. l < height /\ l \in 0..MaxHeight /\ Over(l)
    BY <1>1, <1>3
  <2>2. len[l] \in Nat /\ len[l + 1] = (len[l] + 1) \div 2
    BY <2>1, TreeFacts
  <2>3. Pow2[l] \in Nat /\ Pow2[l + 1] = 2 * Pow2[l]
    BY Pow2Facts
  <2> HIDE DEF n, T
  <2> SUFFICES ASSUME NEW i \in Nat PROVE i < len[l + 1] <=> i * Pow2[l + 1] < n
    OBVIOUS
  <2>4. i < len[l + 1] <=> 2 * i < len[l]
    BY <2>2
  <2>5. 2 * i < len[l] <=> (2 * i) * Pow2[l] < n
    <3>1. 2 * i \in Nat
      OBVIOUS
    <3> QED
      BY <2>1, <3>1
  <2>6. (2 * i) * Pow2[l] = i * Pow2[l + 1]
    BY <2>3
  <2> QED
    BY <2>4, <2>5, <2>6
<1>4. \A l \in Nat : l \in T
  <2> HIDE DEF T
  <2> QED
    BY <1>2, <1>3, Induct
<1> QED
  BY <1>1, <1>4

LEMMA MinOfTwo ==
  ASSUME NEW a \in Nat, NEW b \in Nat
  PROVE  Min({a, b}) = IF a <= b THEN a ELSE b
<1> DEFINE IsMin(x) == \A y \in {a, b} : x <= y
           m == IF a <= b THEN a ELSE b
<1>1. m \in {a, b} /\ IsMin(m)
  OBVIOUS
<1>2. \A x \in {a, b} : IsMin(x) => x = m
  OBVIOUS
<1>3. Min({a, b}) = CHOOSE x \in {a, b} : IsMin(x)
  BY DEF Min
<1> HIDE DEF IsMin, m
<1>4. Min({a, b}) = m
  BY <1>1, <1>2, <1>3
<1> QED
  BY <1>4 DEF m

LEMMA SubSeqLog ==
  ASSUME NEW s \in Seq(Leaf), NEW a \in Nat, NEW b \in Nat, a < b, b <= Len(s)
  PROVE  /\ SubSeq(s, a + 1, b) \in Logs
         /\ Len(SubSeq(s, a + 1, b)) = b - a
         /\ \A c, d \in Nat : c < d /\ d <= b - a =>
              SubSeq(SubSeq(s, a + 1, b), c + 1, d) = SubSeq(s, a + c + 1, a + d)
<1> DEFINE t == SubSeq(s, a + 1, b)
<1>1. Len(s) \in Nat /\ \A k \in 1..Len(s) : s[k] \in Leaf
  BY ElementOfSeq, LenProperties
<1>2. \A k \in (a + 1)..b : s[k] \in Leaf
  BY <1>1
<1>3. t \in Seq(Leaf) /\ Len(t) = b - a
  <2>1. a + 1 \in Int /\ b \in Int /\ a + 1 <= b /\ b - (a + 1) + 1 = b - a
    OBVIOUS
  <2> QED
    BY <1>2, <2>1, SubSeqProperties
<1>4. t \in Logs
  <2> HIDE DEF t
  <2> QED
    BY <1>3, LogsAreNotEmpty
<1>5. ASSUME NEW c \in Nat, NEW d \in Nat, c < d, d <= b - a
      PROVE  SubSeq(t, c + 1, d) = SubSeq(s, a + c + 1, a + d)
  <2>1. /\ a + 1 \in 1..Len(s) /\ b \in 1..Len(s)
        /\ c + 1 \in 1..(b - (a + 1) + 1) /\ d \in 1..(b - (a + 1) + 1)
        /\ (a + 1) + (c + 1) - 1 = a + c + 1 /\ (a + 1) + d - 1 = a + d
    BY <1>1, <1>5
  <2> QED
    BY <2>1, SubSeqOfSubSeq
<1> QED
  BY <1>3, <1>4, <1>5

LEMMA OneElement ==
  ASSUME NEW s \in Seq(Leaf), NEW m \in 1..Len(s)
  PROVE  SubSeq(s, m, m)[1] = s[m]
<1>1. m \in Int /\ \A k \in m..m : s[k] \in Leaf
  BY ElementOfSeq
<1>2. \A i \in 1..(m - m + 1) : SubSeq(s, m, m)[i] = s[m + i - 1]
  BY <1>1, SubSeqProperties
<1>3. 1 \in 1..(m - m + 1) /\ m + 1 - 1 = m
  BY <1>1
<1> QED
  BY <1>2, <1>3

LEMMA RootOfLeaf ==
  ASSUME NEW s \in Seq(Leaf), NEW a \in Nat, a < Len(s)
  PROVE  ReferenceRoot[SubSeq(s, a + 1, a + 1)] = s[a + 1]
<1> DEFINE t == SubSeq(s, a + 1, a + 1)
<1>1. Len(s) \in Nat /\ a + 1 <= Len(s) /\ a < a + 1 /\ a + 1 \in 1..Len(s)
  BY LenProperties
<1>2. t \in Logs /\ Len(t) = (a + 1) - a
  BY <1>1, SubSeqLog
<1>3. (a + 1) - a = 1
  OBVIOUS
<1>4. t[1] = s[a + 1]
  BY <1>1, OneElement
<1> HIDE DEF t
<1>5. ReferenceRoot[t] = t[1]
  BY <1>2, <1>3, ReferenceIs DEF RootOf
<1> QED
  BY <1>4, <1>5 DEF t

(* A list of more than 2^k leaves and at most twice as many is split after *)
(* the first 2^k.                                                          *)
LEMMA RootJoins ==
  ASSUME NEW s \in Seq(Leaf), NEW a \in Nat, NEW b \in Nat, NEW k \in Nat,
         b <= Len(s), a + Pow2[k] < b, b <= a + 2 * Pow2[k]
  PROVE  ReferenceRoot[SubSeq(s, a + 1, b)] =
           MerkleHash(ReferenceRoot[SubSeq(s, a + 1, a + Pow2[k])],
                      ReferenceRoot[SubSeq(s, a + Pow2[k] + 1, b)])
<1> DEFINE t == SubSeq(s, a + 1, b)
           p == Pow2[k]
           m == b - a
<1>1. p \in Nat /\ p >= 1
  BY Pow2Facts, Pow2Grows
<1>2. m \in Nat /\ p < m /\ m <= 2 * p /\ m # 1 /\ a < b /\ a + m = b
  BY <1>1
<1>3. /\ t \in Logs /\ Len(t) = m
      /\ \A c, d \in Nat : c < d /\ d <= m =>
           SubSeq(t, c + 1, d) = SubSeq(s, a + c + 1, a + d)
  BY <1>2, SubSeqLog
<1>4. SplitOf(m) = p
  <2> HIDE DEF m
  <2> QED
    BY <1>1, <1>2, SplitIs
<1> HIDE DEF t, p, m
<1>5. ReferenceRoot[t] =
        MerkleHash(ReferenceRoot[SubSeq(t, 1, p)], ReferenceRoot[SubSeq(t, p + 1, m)])
  BY <1>2, <1>3, <1>4, ReferenceIs DEF RootOf
<1>6. SubSeq(t, 1, p) = SubSeq(s, a + 1, a + p)
  <2>1. 0 \in Nat /\ 0 < p /\ p <= m /\ 0 + 1 = 1 /\ a + 0 + 1 = a + 1
    BY <1>1, <1>2
  <2>2. SubSeq(t, 0 + 1, p) = SubSeq(s, a + 0 + 1, a + p)
    BY <1>1, <1>3, <2>1
  <2> QED
    BY <2>1, <2>2
<1>7. SubSeq(t, p + 1, m) = SubSeq(s, a + p + 1, b)
  <2>1. p \in Nat /\ m \in Nat /\ p < m /\ m <= m
    BY <1>1, <1>2
  <2>2. SubSeq(t, p + 1, m) = SubSeq(s, a + p + 1, a + m)
    BY <1>3, <2>1, Zenon
  <2> QED
    BY <1>2, <2>2
<1> QED
  BY <1>5, <1>6, <1>7 DEF t, p

LEMMA Products ==
  ASSUME NEW i \in Nat, NEW p \in Nat
  PROVE  /\ i * p \in Nat /\ (2 * i) * p \in Nat
         /\ (i + 1) * p = i * p + p
         /\ i * (2 * p) = (2 * i) * p
         /\ (2 * i + 1) * p = (2 * i) * p + p
OBVIOUS

EndAt(b) == IF b <= Len(txArray) THEN b ELSE Len(txArray)

LEMMA LeavesUnderIs ==
  ASSUME TreeInv, NEW l \in Nat, NEW i \in Nat
  PROVE  LeavesUnder(l, i) =
           SubSeq(txArray, i * Pow2[l] + 1, EndAt(i * Pow2[l] + Pow2[l]))
<1> DEFINE p == Pow2[l]
           a == i * p
<1>1. Len(txArray) \in Nat /\ p \in Nat
  BY TreeFacts, Pow2Facts
<1>2. a \in Nat /\ (i + 1) * p = a + p
  <2> HIDE DEF p
  <2> QED
    BY <1>1, Products
<1> HIDE DEF a, p
<1>3. Min({a + p, Len(txArray)}) = EndAt(a + p)
  <2>1. a + p \in Nat
    BY <1>1, <1>2
  <2> QED
    BY <1>1, <2>1, MinOfTwo DEF EndAt
<1> QED
  BY <1>2, <1>3 DEF LeavesUnder, a, p

LEMMA NodesAreRoots ==
  ASSUME TreeInv
  PROVE  NodesAreSubtreeRoots
<1> DEFINE n == Len(txArray)
           Sub(l) == \A i \in Nat : i < len[l] =>
                        ReadLeaf(l, i) = ReferenceRoot[LeavesUnder(l, i)]
           T == { l \in Nat : l <= height => Sub(l) }
<1>1. /\ height \in Nat /\ height <= MaxHeight /\ MaxHeight \in Nat
      /\ n \in Nat /\ len[0] = n /\ txArray \in Seq(Leaf)
  BY TreeFacts DEF TreeInv, TypeOK
<1> HIDE DEF n
<1>2. 0 \in T
  <2> SUFFICES ASSUME NEW i \in Nat, i < len[0]
               PROVE  ReadLeaf(0, i) = ReferenceRoot[LeavesUnder(0, i)]
    OBVIOUS
  <2>1. Pow2[0] = 1 /\ i = i * 1 /\ i + 1 \in Nat /\ i < n /\ i + 1 <= n
    BY <1>1, Pow2Facts
  <2>2. LeavesUnder(0, i) = SubSeq(txArray, i + 1, i + 1)
    <3>1. LeavesUnder(0, i) = SubSeq(txArray, i * Pow2[0] + 1, EndAt(i * Pow2[0] + Pow2[0]))
      BY LeavesUnderIs
    <3>2. i * Pow2[0] = i /\ EndAt(i + 1) = i + 1
      BY <2>1 DEF EndAt, n
    <3> QED
      BY <2>1, <3>1, <3>2
  <2>3. ReferenceRoot[LeavesUnder(0, i)] = txArray[i + 1]
    BY <1>1, <2>1, <2>2, RootOfLeaf DEF n
  <2>4. i \in 0..(len[0] - 1)
    BY <1>1
  <2> QED
    BY <2>3, <2>4 DEF TreeInv, LeavesAreStored
<1>3. ASSUME NEW l \in Nat, l \in T PROVE l + 1 \in T
  <2> SUFFICES ASSUME l + 1 <= height, NEW i \in Nat, i < len[l + 1]
               PROVE  ReadLeaf(l + 1, i) = ReferenceRoot[LeavesUnder(l + 1, i)]
    OBVIOUS
  <2>1. /\ l < height /\ l \in 0..height /\ l \in 0..MaxHeight /\ Sub(l)
        /\ l + 1 \in 1..height /\ (l + 1) - 1 = l /\ l + 1 \in 0..MaxHeight
    BY <1>1, <1>3
  <2> HIDE DEF T
  <2>2. /\ len[l] \in Nat /\ len[l + 1] = (len[l] + 1) \div 2
        /\ len[l + 1] \in Nat
    BY <2>1, TreeFacts
  <2>3. 2 * i \in Nat /\ 2 * i < len[l] /\ i \in 0..(len[l + 1] - 1)
    BY <2>2
  <2> DEFINE p == Pow2[l]
             q == (2 * i) * p
  <2>4. /\ p \in Nat /\ p >= 1 /\ Pow2[l + 1] = 2 * p
    BY Pow2Facts, Pow2Grows
  <2>5. /\ q \in Nat /\ i * (2 * p) = q /\ (2 * i + 1) * p = q + p
    <3> HIDE DEF p
    <3> QED
      BY <2>4, Products
  <2>6. q < n /\ (2 * i + 1 < len[l] <=> q + p < n)
    <3>1. \A j \in Nat : j < len[l] <=> j * p < n
      BY <2>1, NodesOverLeaves DEF n
    <3>2. 2 * i + 1 \in Nat
      BY <2>3
    <3> HIDE DEF p, q
    <3>3. 2 * i < len[l] <=> (2 * i) * p < n
      BY <2>3, <3>1
    <3>4. 2 * i + 1 < len[l] <=> (2 * i + 1) * p < n
      BY <3>1, <3>2
    <3> QED
      BY <2>3, <2>5, <3>3, <3>4 DEF q
  <2>7. LeavesUnder(l, 2 * i) = SubSeq(txArray, q + 1, EndAt(q + p))
    BY <2>3, LeavesUnderIs
  <2>8. LeavesUnder(l, 2 * i + 1) = SubSeq(txArray, q + p + 1, EndAt(q + 2 * p))
    <3>1. 2 * i + 1 \in Nat
      BY <2>3
    <3> HIDE DEF q, p
    <3>2. LeavesUnder(l, 2 * i + 1) =
            SubSeq(txArray, (2 * i + 1) * p + 1, EndAt((2 * i + 1) * p + p))
      BY <3>1, LeavesUnderIs DEF p
    <3>3. (q + p) + p = q + 2 * p
      BY <2>4, <2>5
    <3> QED
      BY <2>5, <3>2, <3>3
  <2>9. LeavesUnder(l + 1, i) = SubSeq(txArray, q + 1, EndAt(q + 2 * p))
    <3>1. LeavesUnder(l + 1, i) =
            SubSeq(txArray, i * Pow2[l + 1] + 1, EndAt(i * Pow2[l + 1] + Pow2[l + 1]))
      BY LeavesUnderIs
    <3> HIDE DEF q, p
    <3> QED
      BY <2>4, <2>5, <3>1
  <2> HIDE DEF q, p
  <2>10. ReadLeaf(l + 1, i) = IF q + p < n
                                THEN MerkleHash(ReadLeaf(l, 2 * i), ReadLeaf(l, 2 * i + 1))
                                ELSE ReadLeaf(l, 2 * i)
    BY <2>1, <2>3, <2>6 DEF TreeInv, NodesJoin
  <2>11. ReadLeaf(l, 2 * i) = ReferenceRoot[LeavesUnder(l, 2 * i)]
    BY <2>1, <2>3
  <2>12. CASE q + p < n
    <3>1. 2 * i + 1 \in Nat /\ 2 * i + 1 < len[l]
      BY <2>3, <2>6, <2>12
    <3>2. ReadLeaf(l, 2 * i + 1) = ReferenceRoot[LeavesUnder(l, 2 * i + 1)]
      BY <2>1, <3>1
    <3> DEFINE b == EndAt(q + 2 * p)
    <3>3. /\ b \in Nat /\ b <= n /\ q + p < b /\ b <= q + 2 * p
          /\ EndAt(q + p) = q + p
      BY <1>1, <2>4, <2>5, <2>12 DEF EndAt, n
    <3> HIDE DEF b
    <3>4. ReferenceRoot[SubSeq(txArray, q + 1, b)] =
            MerkleHash(ReferenceRoot[SubSeq(txArray, q + 1, q + p)],
                       ReferenceRoot[SubSeq(txArray, q + p + 1, b)])
      BY <1>1, <2>5, <3>3, RootJoins DEF n, p
    <3> QED
      BY <2>7, <2>8, <2>9, <2>10, <2>11, <2>12, <3>2, <3>3, <3>4 DEF b
  <2>13. CASE ~(q + p < n)
    <3>1. EndAt(q + p) = n /\ EndAt(q + 2 * p) = n
      BY <1>1, <2>4, <2>5, <2>13 DEF EndAt, n
    <3> QED
      BY <2>7, <2>9, <2>10, <2>11, <2>13, <3>1
  <2> QED
    BY <2>12, <2>13
<1>4. \A l \in Nat : l \in T
  <2> HIDE DEF T
  <2> QED
    BY <1>2, <1>3, Induct
<1>5. \A l \in 0..height : l \in Nat /\ l <= height /\ len[l] \in Nat
  BY <1>1, TreeFacts
<1> QED
  BY <1>4, <1>5 DEF NodesAreSubtreeRoots, LenAtHeight

(* Every node in storage, at every level, is the root of the leaves below  *)
(* it by the recursive definition of a Merkle root: the node-by-node       *)
(* updates of StoredMerkle.append and the levels of initStorage yield one  *)
(* and the same tree.                                                      *)
THEOREM EveryNodeIsARoot == Spec => []NodesAreSubtreeRoots
<1> QED
  BY NodesAreRoots, TreeInvariance, PTL

-----------------------------------------------------------------------------
(* The roots Chamber knows.                                                *)

RootIsOfLog == Len(txArray) >= 1 => GetRoot = ReferenceRoot[txArray]

(* Chamber.merkleRoots holds the root the log had after each append.       *)
RootsKnown ==
  merkleRoots = { ReferenceRoot[SubSeq(txArray, 1, k)] : k \in 1..Len(txArray) }

LEMMA RootIs ==
  ASSUME TreeInv
  PROVE  RootIsOfLog
<1> SUFFICES ASSUME Len(txArray) >= 1 PROVE GetRoot = ReferenceRoot[txArray]
  BY DEF RootIsOfLog
<1> DEFINE n == Len(txArray)
           p == Pow2[height]
<1>1. /\ n \in Nat /\ n >= 1 /\ height \in Nat /\ height \in 0..height
      /\ height \in 0..MaxHeight /\ len[height] \in Nat /\ len[height] <= 1
      /\ txArray \in Seq(Leaf) /\ p \in Nat
  <2>1. height \in Nat /\ height \in 0..MaxHeight
    BY TreeFacts
  <2> QED
    BY <2>1, TreeFacts, Pow2Facts DEF TreeInv, TypeOK
<1>2. \A i \in Nat : i < len[height] <=> i * p < n
  BY <1>1, NodesOverLeaves
<1> HIDE DEF p, n
<1>3. 0 < len[height]
  <2>1. 0 * p = 0 /\ 0 < n
    BY <1>1
  <2> QED
    BY <1>2, <2>1
<1>4. n <= p
  <2>1. 1 * p = p /\ ~(1 < len[height]) /\ 1 \in Nat
    BY <1>1
  <2>2. ~(1 * p < n)
    BY <1>2, <2>1
  <2> QED
    BY <1>1, <2>1, <2>2
<1>5. LeavesUnder(height, 0) = txArray
  <2>1. LeavesUnder(height, 0) = SubSeq(txArray, 0 * p + 1, EndAt(0 * p + p))
    BY <1>1, LeavesUnderIs DEF p
  <2>2. 0 * p + 1 = 1 /\ 0 * p + p = p
    BY <1>1
  <2>3. EndAt(p) = n
    BY <1>1, <1>4 DEF EndAt, n
  <2>4. SubSeq(txArray, 1, n) = txArray
    BY <1>1, SubSeqFull DEF n
  <2> QED
    BY <2>1, <2>2, <2>3, <2>4
<1>6. ReadLeaf(height, 0) = ReferenceRoot[LeavesUnder(height, 0)]
  <2>1. 0 \in 0..(LenAtHeight(height) - 1)
    BY <1>1, <1>3 DEF LenAtHeight
  <2> QED
    BY <1>1, <2>1, NodesAreRoots DEF NodesAreSubtreeRoots
<1> QED
  BY <1>5, <1>6 DEF GetRoot

(* The root an append records is the root of the tree it leaves.           *)
LEMMA AppendRecordsRoot ==
  ASSUME TreeInv, NEW leaf \in Leaf, AddNewTx(leaf)
  PROVE  merkleRoots' = merkleRoots \cup {GetRoot'}
<1>1. Len(txArray) < MaxLeaves /\ Write(Appended(leaf))
  BY DEF AddNewTx
<1>2. PICK node, top : AppendWrites(Appended(leaf), leaf, node, top)
  BY <1>1, AppendedIs
<1>3. top \in Nat /\ top <= MaxHeight /\ height' = top
  BY <1>1, <1>2, AppendEffect
<1>4. \A l \in 0..MaxHeight : \A i \in Indices :
        ReadLeaf(l, i)' = IF l <= top /\ i = Ancestor(Len(txArray), l)
                            THEN node[l] ELSE ReadLeaf(l, i)
  BY <1>1, <1>2, AppendEffect
<1>5. Ancestor(Len(txArray), top) = 0 /\ Appended(leaf).root = node[top]
  BY <1>2 DEF AppendWrites
<1>6. top \in 0..MaxHeight /\ 0 \in Indices
  <2>1. MaxHeight \in Nat /\ MaxLeaves \in Nat /\ MaxLeaves >= 1
    BY HeightAssumption
  <2> QED
    BY <1>3, <2>1 DEF Indices
<1>7. ReadLeaf(top, 0)' = node[top]
  BY <1>3, <1>4, <1>5, <1>6
<1>8. GetRoot' = node[top]
  BY <1>3, <1>7 DEF GetRoot, ReadLeaf
<1>9. merkleRoots' = merkleRoots \cup {Appended(leaf).root}
  BY DEF AddNewTx
<1> QED
  BY <1>5, <1>8, <1>9

(* An append leaves every prefix of the log as it was.                     *)
LEMMA PrefixesKept ==
  ASSUME NEW s \in Seq(Leaf), NEW leaf \in Leaf
  PROVE  /\ Len(Append(s, leaf)) = Len(s) + 1 /\ Len(s) \in Nat
         /\ \A k \in 0..Len(s) : SubSeq(Append(s, leaf), 1, k) = SubSeq(s, 1, k)
         /\ SubSeq(Append(s, leaf), 1, Len(s) + 1) = Append(s, leaf)
         /\ SubSeq(s, 1, Len(s)) = s
<1> DEFINE t == Append(s, leaf)
<1>1. /\ t \in Seq(Leaf) /\ Len(t) = Len(s) + 1 /\ Len(s) \in Nat
      /\ \A i \in 1..Len(s) : t[i] = s[i]
  BY AppendProperties
<1>2. ASSUME NEW k \in 0..Len(s) PROVE SubSeq(t, 1, k) = SubSeq(s, 1, k)
  <2>1. k \in Nat /\ k \in 0..Len(t)
    BY <1>1
  <2>2. SubSeq(t, 1, k) = Restrict(t, 1..k) /\ SubSeq(s, 1, k) = Restrict(s, 1..k)
    BY <1>1, <2>1, SubSeqRestrict
  <2>3. \A i \in 1..k : t[i] = s[i]
    BY <1>1, <2>1
  <2> HIDE DEF t
  <2>4. Restrict(t, 1..k) = Restrict(s, 1..k)
    BY <2>3 DEF Restrict
  <2> QED
    BY <2>2, <2>4
<1>3. SubSeq(t, 1, Len(t)) = t /\ SubSeq(s, 1, Len(s)) = s
  BY <1>1, SubSeqFull
<1> QED
  BY <1>1, <1>2, <1>3

LEMMA NextRoots ==
  ASSUME TreeInv, RootIsOfLog', RootsKnown, [Next]_vars
  PROVE  RootsKnown'
<1>1. CASE \E leaf \in Leaf : AddNewTx(leaf)
  <2>1. PICK leaf \in Leaf : AddNewTx(leaf)
    BY <1>1
  <2>2. txArray' = Append(txArray, leaf) /\ txArray \in Seq(Leaf)
    BY <2>1 DEF AddNewTx, TreeInv, TypeOK
  <2> DEFINE n == Len(txArray)
             old(k) == SubSeq(txArray, 1, k)
             new(k) == SubSeq(txArray', 1, k)
  <2>3. /\ n \in Nat /\ Len(txArray') = n + 1
        /\ \A k \in 0..n : new(k) = old(k)
        /\ new(n + 1) = txArray'
    BY <2>2, PrefixesKept
  <2>4. GetRoot' = ReferenceRoot[txArray']
    BY <2>3 DEF RootIsOfLog
  <2>5. merkleRoots' = merkleRoots \cup {ReferenceRoot[txArray']}
    BY <2>1, <2>4, AppendRecordsRoot
  <2>6. merkleRoots = { ReferenceRoot[old(k)] : k \in 1..n }
    BY DEF RootsKnown
  <2> SUFFICES merkleRoots' = { ReferenceRoot[new(k)] : k \in 1..(n + 1) }
    BY <2>3 DEF RootsKnown
  <2>7. \A k \in 1..n : new(k) = old(k)
    BY <2>3
  <2>8. \A k : k \in 1..(n + 1) <=> k \in 1..n \/ k = n + 1
    BY <2>3
  <2>9. new(n + 1) = txArray'
    BY <2>3
  <2> HIDE DEF n, old, new
  <2> QED
    BY <2>5, <2>6, <2>7, <2>8, <2>9
<1>2. CASE UNCHANGED vars
  BY <1>2 DEF vars, RootsKnown
<1>3. CASE RecalculateMerkleRoot
  BY <1>2, <1>3, RebuildChangesNothing
<1> QED
  BY <1>1, <1>2, <1>3 DEF Next

LEMMA InitRoots ==
  ASSUME Init
  PROVE  RootsKnown
<1>1. Len(txArray) = 0
  BY EmptySeq DEF Init
<1>2. merkleRoots = {}
  BY DEF Init
<1> QED
  BY <1>1, <1>2 DEF RootsKnown

(* The roots Chamber accepts are those the log of transactions had after   *)
(* each of its appends, and no other (Chamber._addNewTx).                  *)
THEOREM RootsAreKnown == Spec => []RootsKnown
<1> QED
  BY InitRoots, NextRoots, RootIs, TreeInvariance, PTL DEF Spec

-----------------------------------------------------------------------------
(* The stored tree implements the append-only log.                         *)

Prefixes == { SubSeq(txArray, 1, k) : k \in 1..Len(txArray) }

KnownPrefixes == { p \in Prefixes : ReferenceRoot[p] \in merkleRoots }

LEMMA AllPrefixesKnown ==
  ASSUME RootsKnown
  PROVE  KnownPrefixes = Prefixes
<1>1. ASSUME NEW p \in Prefixes PROVE ReferenceRoot[p] \in merkleRoots
  <2>1. PICK k \in 1..Len(txArray) : p = SubSeq(txArray, 1, k)
    BY <1>1 DEF Prefixes
  <2> QED
    BY <2>1 DEF RootsKnown
<1> QED
  BY <1>1 DEF KnownPrefixes

(* The abstract log after an append.                                       *)
LEMMA AppendExtends ==
  ASSUME TreeInv, NEW leaf \in Leaf, AddNewTx(leaf)
  PROVE  /\ Len(txArray) < Len(txArray')
         /\ txArray = SubSeq(txArray', 1, Len(txArray))
         /\ Prefixes' = Prefixes \cup Log!PrefixesAfter(txArray', Len(txArray))
<1> DEFINE n == Len(txArray)
           old(k) == SubSeq(txArray, 1, k)
           new(k) == SubSeq(txArray', 1, k)
<1>1. txArray' = Append(txArray, leaf) /\ txArray \in Seq(Leaf)
  BY DEF AddNewTx, TreeInv, TypeOK
<1>2. /\ n \in Nat /\ Len(txArray') = n + 1 /\ old(n) = txArray
      /\ \A k \in 0..n : new(k) = old(k)
  BY <1>1, PrefixesKept
<1>3. Prefixes = { old(k) : k \in 1..n } /\ Prefixes' = { new(k) : k \in 1..(n + 1) }
  BY <1>2 DEF Prefixes
<1>4. Log!PrefixesAfter(txArray', n) = { new(k) : k \in (n + 1)..(n + 1) }
  BY <1>2 DEF Log!PrefixesAfter
<1>5. /\ \A k \in 1..n : new(k) = old(k)
      /\ \A k : k \in 1..(n + 1) <=> k \in 1..n \/ k \in (n + 1)..(n + 1)
  BY <1>2
<1>6. n < n + 1 /\ n \in 0..n
  BY <1>2
<1>7. new(n) = txArray
  BY <1>2, <1>6
<1> HIDE DEF old, new
<1>8. Prefixes' = Prefixes \cup Log!PrefixesAfter(txArray', n)
  <2> HIDE DEF n
  <2> QED
    BY <1>3, <1>4, <1>5
<1> QED
  BY <1>2, <1>6, <1>7, <1>8 DEF new

LEMMA StepExtends ==
  ASSUME TreeInv, RootsKnown, RootsKnown', [Next]_vars
  PROVE  [Log!Extend]_<<txArray, KnownPrefixes>>
<1>1. KnownPrefixes = Prefixes
  BY AllPrefixesKnown
<1>2. KnownPrefixes' = Prefixes'
  <2>1. ASSUME NEW p \in Prefixes' PROVE ReferenceRoot[p] \in merkleRoots'
    <3>1. PICK k \in 1..Len(txArray') : p = SubSeq(txArray', 1, k)
      BY <2>1 DEF Prefixes
    <3> QED
      BY <3>1 DEF RootsKnown
  <2> QED
    BY <2>1 DEF KnownPrefixes
<1>3. CASE \E leaf \in Leaf : AddNewTx(leaf)
  <2>1. PICK leaf \in Leaf : AddNewTx(leaf)
    BY <1>3
  <2>2. Log!Extend
    BY <2>1, <1>1, <1>2, AppendExtends DEF Log!Extend, KnownPrefixes, Prefixes
  <2> QED
    BY <2>2
<1>4. CASE UNCHANGED vars
  BY <1>4 DEF vars, KnownPrefixes, Prefixes
<1>5. CASE RecalculateMerkleRoot
  BY <1>4, <1>5, RebuildChangesNothing
<1> QED
  BY <1>3, <1>4, <1>5 DEF Next

(* The Merkle tree in storage implements the append-only log that the pool *)
(* and the circuit rely on: an append extends the log and records the root *)
(* of the whole of it, no root is ever forgotten, and a rebuild is a       *)
(* stutter (Chamber._addNewTx, recalculateMerkleRoot).                     *)
THEOREM TreeImplementsLog == Spec => ImplementsAccumulator
<1>1. Init => Log!Init
  BY InitRoots, EmptySeq DEF Init, Log!Init
<1>2. TreeInv /\ RootsKnown /\ RootsKnown' /\ [Next]_vars
        => [Log!Extend]_<<txArray, KnownPrefixes>>
  BY StepExtends
<1> QED
  BY <1>1, <1>2, TreeInvariance, RootsAreKnown, PTL
     DEF Spec, ImplementsAccumulator, Log!Spec, KnownPrefixes, Prefixes

-----------------------------------------------------------------------------
(* Proofs of inclusion.                                                    *)

(* computeProof: the siblings met up to each level.                        *)
IsPath(f, n, meets, sibling) ==
  f = [l \in 0..n |-> IF l = 0 THEN <<>>
                      ELSE IF meets[l] THEN Append(f[l - 1], sibling[l])
                      ELSE f[l - 1]]

LEMMA PathExists ==
  ASSUME NEW n \in Nat, NEW meets, NEW sibling
  PROVE  \E f : IsPath(f, n, meets, sibling)
<1> DEFINE T == { m \in Nat : \E f : IsPath(f, m, meets, sibling) }
<1>1. 0 \in T
  <2>1. IsPath([l \in 0..0 |-> <<>>], 0, meets, sibling)
    BY DEF IsPath
  <2> QED
    BY <2>1
<1>2. ASSUME NEW m \in Nat, m \in T PROVE m + 1 \in T
  <2>1. PICK f : IsPath(f, m, meets, sibling)
    BY <1>2
  <2> DEFINE top == IF meets[m + 1] THEN Append(f[m], sibling[m + 1]) ELSE f[m]
             h == [l \in 0..(m + 1) |-> IF l = m + 1 THEN top ELSE f[l]]
  <2>2. ASSUME NEW l \in 0..(m + 1)
        PROVE  h[l] = IF l = 0 THEN <<>>
                      ELSE IF meets[l] THEN Append(h[l - 1], sibling[l])
                      ELSE h[l - 1]
    <3>1. CASE l = m + 1
      <4>1. l # 0 /\ l - 1 = m /\ h[l - 1] = f[m] /\ h[l] = top
        BY <3>1
      <4> HIDE DEF h
      <4> QED
        BY <3>1, <4>1
    <3>2. CASE l # m + 1
      <4>1. l \in 0..m /\ h[l] = f[l] /\ (l # 0 => h[l - 1] = f[l - 1])
        BY <3>2
      <4>2. f[l] = IF l = 0 THEN <<>>
                   ELSE IF meets[l] THEN Append(f[l - 1], sibling[l])
                   ELSE f[l - 1]
        BY <2>1, <4>1 DEF IsPath
      <4> HIDE DEF h
      <4> QED
        BY <4>1, <4>2
    <3> QED
      BY <3>1, <3>2
  <2>3. h = [l \in 0..(m + 1) |-> h[l]]
    OBVIOUS
  <2> HIDE DEF h
  <2>4. IsPath(h, m + 1, meets, sibling)
    BY <2>2, <2>3 DEF IsPath
  <2> QED
    BY <2>4
<1>3. \A m \in Nat : m \in T
  <2> HIDE DEF T
  <2> QED
    BY <1>1, <1>2, Induct
<1> QED
  BY <1>3

LEMMA ComputeProofIs ==
  ASSUME TreeInv, NEW index
  PROVE  \E path :
           /\ ComputeProof(index) = path[height]
           /\ path[0] = <<>>
           /\ \A l \in 0..(height - 1) :
                path[l + 1] = IF HasSibling(index, l)
                                THEN Append(path[l], Sibling(index, l))
                                ELSE path[l]
<1> DEFINE meets == [l \in 0..height |-> HasSibling(index, l - 1)]
           sibling == [l \in 0..height |-> Sibling(index, l - 1)]
           Path(f) == f = [l \in 0..height |->
                             IF l = 0 THEN <<>>
                             ELSE IF HasSibling(index, l - 1)
                                    THEN Append(f[l - 1], Sibling(index, l - 1))
                                    ELSE f[l - 1]]
           path == CHOOSE f : Path(f)
<1>1. height \in Nat
  BY TreeFacts
<1>2. PICK f : IsPath(f, height, meets, sibling)
  <2> HIDE DEF meets, sibling
  <2> QED
    BY <1>1, PathExists
<1>3. Path(f)
  BY <1>2 DEF IsPath
<1>4. Path(path)
  <2> HIDE DEF Path
  <2> QED
    BY <1>3
<1>5. ComputeProof(index) = path[height]
  BY DEF ComputeProof
<1> HIDE DEF path
<1>6. path[0] = <<>>
  <2>1. 0 \in 0..height
    BY <1>1
  <2> QED
    BY <1>4, <2>1
<1>7. ASSUME NEW l \in 0..(height - 1)
      PROVE  path[l + 1] = IF HasSibling(index, l)
                             THEN Append(path[l], Sibling(index, l))
                             ELSE path[l]
  <2>1. l + 1 \in 0..height /\ l + 1 # 0 /\ (l + 1) - 1 = l
    BY <1>1
  <2> QED
    BY <1>4, <2>1
<1> QED
  BY <1>5, <1>6, <1>7

(* The node above a leaf, paired as computeProof pairs it.                 *)
LEMMA NodeFromSibling ==
  ASSUME TreeInv, NEW index \in Nat, NEW l \in Nat, l < height,
         Ancestor(index, l) < len[l]
  PROVE  /\ Ancestor(index, l + 1) < len[l + 1]
         /\ ReadLeaf(l + 1, Ancestor(index, l + 1)) =
              IF HasSibling(index, l)
                THEN MerkleHash(ReadLeaf(l, Ancestor(index, l)), Sibling(index, l))
                ELSE ReadLeaf(l, Ancestor(index, l))
<1> DEFINE a == Ancestor(index, l)
           i == Ancestor(index, l + 1)
           m == len[l]
<1>1. a \in Nat /\ i \in Nat /\ i = a \div 2
  <2>1. l + 1 \in Nat
    OBVIOUS
  <2> QED
    BY <2>1, AncestorFacts, Zenon
<1>2. /\ m \in Nat /\ len[l + 1] = (m + 1) \div 2 /\ a < m
      /\ l + 1 \in 1..height /\ (l + 1) - 1 = l
  <2>1. l \in 0..MaxHeight /\ height \in Nat
    BY TreeFacts
  <2> QED
    BY <2>1, TreeFacts
<1>3. /\ HasSibling(index, l) <=> a % 2 = 1 \/ a + 1 < m
      /\ Sibling(index, l) = IF a % 2 = 1 THEN ReadLeaf(l, a - 1) ELSE ReadLeaf(l, a + 1)
  BY DEF HasSibling, Sibling, LenAtHeight
<1> HIDE DEF a, i, m
<1>4. i < len[l + 1] /\ len[l + 1] \in Nat /\ i \in 0..(len[l + 1] - 1)
  BY <1>1, <1>2
<1>5. ReadLeaf(l + 1, i) = IF 2 * i + 1 < m
                             THEN MerkleHash(ReadLeaf(l, 2 * i), ReadLeaf(l, 2 * i + 1))
                             ELSE ReadLeaf(l, 2 * i)
  BY <1>2, <1>4 DEF TreeInv, NodesJoin, m
<1>6. CASE a % 2 = 1
  <2>1. a = 2 * i + 1
    BY <1>1, <1>6, Halves
  <2>2. a - 1 = 2 * i /\ 2 * i + 1 < m
    BY <1>1, <1>2, <2>1
  <2>3. ReadLeaf(l + 1, i) = MerkleHash(ReadLeaf(l, a - 1), ReadLeaf(l, a))
    BY <1>5, <2>1, <2>2
  <2> QED
    BY <1>3, <1>4, <1>6, <2>3, MerkleHashCommutes DEF a, i
<1>7. CASE a % 2 # 1
  <2>1. a = 2 * i
    BY <1>1, <1>7, Halves
  <2> QED
    BY <1>3, <1>4, <1>5, <1>7, <2>1 DEF a, i
<1> QED
  BY <1>6, <1>7

(* A proof has at most one sibling per level, and leads to the root.       *)
LEMMA ProofLeadsToRoot ==
  ASSUME TreeInv, NEW index \in Nat, index < Len(txArray)
  PROVE  /\ \E S : ComputeProof(index) \in Seq(S)
         /\ Len(ComputeProof(index)) \in Nat /\ Len(ComputeProof(index)) <= height
         /\ ComputeRoot(txArray[index + 1], ComputeProof(index)) = GetRoot
<1> DEFINE leaf == txArray[index + 1]
           A(l) == Ancestor(index, l)
           S == { Sibling(index, l) : l \in 0..height }
<1>1. /\ height \in Nat /\ height <= MaxHeight /\ len[0] = Len(txArray)
      /\ Len(txArray) \in Nat
  BY TreeFacts
<1>2. PICK path : /\ ComputeProof(index) = path[height]
                  /\ path[0] = <<>>
                  /\ \A l \in 0..(height - 1) :
                       path[l + 1] = IF HasSibling(index, l)
                                       THEN Append(path[l], Sibling(index, l))
                                       ELSE path[l]
  BY ComputeProofIs
<1> DEFINE Good(l) == /\ path[l] \in Seq(S) /\ Len(path[l]) \in Nat /\ Len(path[l]) <= l
                      /\ A(l) < len[l]
                      /\ ComputeRoot(leaf, path[l]) = ReadLeaf(l, A(l))
           T == { l \in Nat : l <= height => Good(l) }
<1>3. 0 \in T
  <2>1. path[0] \in Seq(S) /\ Len(path[0]) = 0
    BY <1>2, EmptySeq
  <2>2. A(0) = index
    BY AncestorFacts
  <2>3. ReadLeaf(0, index) = leaf
    <3>1. index \in 0..(len[0] - 1)
      BY <1>1
    <3> QED
      BY <3>1 DEF TreeInv, LeavesAreStored
  <2>4. ComputeRoot(leaf, path[0]) = leaf
    BY <1>2, RootOfNothing
  <2> HIDE DEF A, S, leaf
  <2> QED
    BY <1>1, <2>1, <2>2, <2>3, <2>4
<1>4. ASSUME NEW l \in Nat, l \in T PROVE l + 1 \in T
  <2> SUFFICES ASSUME l + 1 <= height PROVE Good(l + 1)
    OBVIOUS
  <2>1. l \in 0..(height - 1) /\ l < height /\ l \in 0..height
    BY <1>1
  <2>2. Good(l)
    BY <1>4, <2>1
  <2>3. /\ A(l + 1) < len[l + 1]
        /\ ReadLeaf(l + 1, A(l + 1)) =
             IF HasSibling(index, l)
               THEN MerkleHash(ReadLeaf(l, A(l)), Sibling(index, l))
               ELSE ReadLeaf(l, A(l))
    BY <2>1, <2>2, NodeFromSibling
  <2>4. path[l + 1] = IF HasSibling(index, l) THEN Append(path[l], Sibling(index, l))
                                              ELSE path[l]
    BY <1>2, <2>1
  <2>5. Sibling(index, l) \in S
    BY <2>1
  <2> DEFINE x == Sibling(index, l)
             p == path[l]
  <2>6. /\ p \in Seq(S) /\ Len(p) \in Nat /\ Len(p) <= l
        /\ ComputeRoot(leaf, p) = ReadLeaf(l, A(l)) /\ x \in S
    BY <2>2, <2>5
  <2> HIDE DEF x, p, A, S, leaf, T
  <2>7. /\ Append(p, x) \in Seq(S) /\ Len(Append(p, x)) = Len(p) + 1
        /\ ComputeRoot(leaf, Append(p, x)) = MerkleHash(ComputeRoot(leaf, p), x)
    BY <2>6, AppendProperties, RootOfAppend
  <2>8. CASE HasSibling(index, l)
    <3>1. path[l + 1] = Append(p, x)
      BY <2>4, <2>8 DEF p, x
    <3>2. Len(p) + 1 \in Nat /\ Len(p) + 1 <= l + 1
      BY <2>6
    <3> QED
      BY <2>3, <2>6, <2>7, <2>8, <3>1, <3>2 DEF x
  <2>9. CASE ~HasSibling(index, l)
    <3>1. path[l + 1] = p
      BY <2>4, <2>9 DEF p
    <3>2. Len(p) <= l + 1
      BY <2>6
    <3> QED
      BY <2>3, <2>6, <2>9, <3>1, <3>2
  <2> QED
    BY <2>8, <2>9
<1>5. Good(height)
  <2>1. height \in T
    <3> HIDE DEF T
    <3> QED
      BY <1>1, <1>3, <1>4, Induct
  <2> QED
    BY <1>1, <2>1
<1>6. A(height) = 0
  <2>1. len[height] \in Nat /\ len[height] <= 1
    <3>1. height \in 0..MaxHeight
      BY <1>1, TreeFacts
    <3> QED
      BY <3>1, TreeFacts
  <2>2. A(height) \in Nat /\ A(height) < len[height]
    BY <1>1, <1>5, AncestorFacts
  <2> QED
    BY <2>1, <2>2
<1> QED
  BY <1>2, <1>5, <1>6 DEF GetRoot

LEMMA TreeProofsVerify ==
  ASSUME TreeInv, RootsKnown
  PROVE  ProofsVerify
<1> SUFFICES ASSUME NEW i \in 1..Len(txArray)
             PROVE  /\ VerifyProof(GetRoot, txArray[i], ComputeProof(i - 1))
                    /\ GetRoot \in merkleRoots
  BY DEF ProofsVerify
<1>1. Len(txArray) \in Nat /\ txArray \in Seq(Leaf)
  BY DEF TreeInv, TypeOK
<1>2. i - 1 \in Nat /\ i - 1 < Len(txArray) /\ (i - 1) + 1 = i /\ Len(txArray) >= 1
  BY <1>1
<1>3. ComputeRoot(txArray[i], ComputeProof(i - 1)) = GetRoot
  BY <1>2, ProofLeadsToRoot
<1>4. GetRoot = ReferenceRoot[SubSeq(txArray, 1, Len(txArray))]
  <2>1. SubSeq(txArray, 1, Len(txArray)) = txArray
    BY <1>1, SubSeqFull
  <2> QED
    BY <1>2, <2>1, RootIs DEF RootIsOfLog
<1>5. Len(txArray) \in 1..Len(txArray)
  BY <1>1, <1>2
<1> QED
  BY <1>3, <1>4, <1>5 DEF VerifyProof, RootsKnown

(* A zero sibling leaves the node as it is, and so does any number of them. *)
LEMMA ZeroIsSkipped ==
  ASSUME NEW node
  PROVE  MerkleHash(node, Zero) = node
BY DEF MerkleHash, MerkleHashNot0

LEMMA PaddingIsSkipped ==
  ASSUME NEW leaf, NEW S, NEW proof \in Seq(S)
  PROVE  \A m \in Nat :
           LET padded == proof \o [k \in 1..m |-> Zero]
           IN  /\ Len(padded) = Len(proof) + m
               /\ ComputeRoot(leaf, padded) = ComputeRoot(leaf, proof)
<1> DEFINE Z == S \cup {Zero}
           zeros(m) == [k \in 1..m |-> Zero]
           padded(m) == proof \o zeros(m)
           Good(m) == /\ padded(m) \in Seq(Z) /\ Len(padded(m)) = Len(proof) + m
                      /\ ComputeRoot(leaf, padded(m)) = ComputeRoot(leaf, proof)
           T == { m \in Nat : Good(m) }
<1>1. proof \in Seq(Z) /\ Len(proof) \in Nat
  <2>1. S \subseteq Z
    OBVIOUS
  <2> QED
    BY <2>1, SeqMonotonic, LenProperties
<1>2. ASSUME NEW m \in Nat
      PROVE  /\ zeros(m) \in Seq(Z) /\ Len(zeros(m)) = m
             /\ \A k \in 1..m : zeros(m)[k] = Zero
  OBVIOUS
<1>3. ASSUME NEW m \in Nat
      PROVE  /\ padded(m) \in Seq(Z) /\ Len(padded(m)) = Len(proof) + m
             /\ \A k \in 1..(Len(proof) + m) :
                  padded(m)[k] = IF k <= Len(proof) THEN proof[k] ELSE Zero
  <2> HIDE DEF zeros, Z
  <2>1. /\ padded(m) \in Seq(Z) /\ Len(padded(m)) = Len(proof) + m
        /\ \A k \in 1..(Len(proof) + m) :
             padded(m)[k] = IF k <= Len(proof) THEN proof[k] ELSE zeros(m)[k - Len(proof)]
    <3> DEFINE z == zeros(m)
    <3>1. z \in Seq(Z) /\ Len(z) = m
      BY <1>2
    <3> HIDE DEF z
    <3>2. /\ proof \o z \in Seq(Z) /\ Len(proof \o z) = Len(proof) + Len(z)
          /\ \A k \in 1..(Len(proof) + Len(z)) :
               (proof \o z)[k] = IF k <= Len(proof) THEN proof[k] ELSE z[k - Len(proof)]
      BY <1>1, <3>1, ConcatProperties
    <3> QED
      BY <3>1, <3>2 DEF z
  <2>2. ASSUME NEW k \in 1..(Len(proof) + m), ~(k <= Len(proof))
        PROVE  zeros(m)[k - Len(proof)] = Zero
    <3>1. k - Len(proof) \in 1..m
      BY <1>1, <2>2
    <3> QED
      BY <1>2, <3>1
  <2> HIDE DEF padded
  <2> QED
    BY <2>1, <2>2
<1> HIDE DEF padded, Z
<1>4. 0 \in T
  <2>1. padded(0) = proof
    <3>1. padded(0) \in Seq(Z) /\ Len(padded(0)) = Len(proof)
      BY <1>1, <1>3
    <3>2. \A k \in 1..Len(proof) : padded(0)[k] = proof[k]
      <4>1. \A k \in 1..(Len(proof) + 0) :
              padded(0)[k] = IF k <= Len(proof) THEN proof[k] ELSE Zero
        BY <1>3
      <4>2. Len(proof) + 0 = Len(proof) /\ \A k \in 1..Len(proof) : k <= Len(proof)
        BY <1>1
      <4> QED
        BY <4>1, <4>2
    <3> QED
      BY <1>1, <3>1, <3>2, SeqEqual
  <2> QED
    BY <1>1, <2>1
<1>5. ASSUME NEW m \in Nat, m \in T PROVE m + 1 \in T
  <2> DEFINE p == padded(m)
             q == padded(m + 1)
  <2>1. /\ p \in Seq(Z) /\ Len(p) = Len(proof) + m
        /\ ComputeRoot(leaf, p) = ComputeRoot(leaf, proof)
        /\ \A k \in 1..(Len(proof) + m) : p[k] = IF k <= Len(proof) THEN proof[k] ELSE Zero
    BY <1>3, <1>5
  <2>2. /\ q \in Seq(Z) /\ Len(q) = Len(proof) + (m + 1)
        /\ \A k \in 1..(Len(proof) + (m + 1)) :
             q[k] = IF k <= Len(proof) THEN proof[k] ELSE Zero
    <3>1. m + 1 \in Nat
      OBVIOUS
    <3> QED
      BY <1>3, <3>1, Zenon
  <2>3. Zero \in Z
    BY DEF Z
  <2>4. /\ Append(p, Zero) \in Seq(Z) /\ Len(Append(p, Zero)) = Len(p) + 1
        /\ \A k \in 1..Len(p) : Append(p, Zero)[k] = p[k]
        /\ Append(p, Zero)[Len(p) + 1] = Zero
    BY <2>1, <2>3, AppendProperties
  <2> HIDE DEF p, q
  <2>5. q = Append(p, Zero)
    <3> DEFINE r == Append(p, Zero)
    <3>1. Len(q) = Len(r)
      BY <1>1, <2>1, <2>2, <2>4
    <3>2. ASSUME NEW k \in 1..Len(q) PROVE q[k] = r[k]
      <4>1. k \in 1..(Len(proof) + (m + 1))
        BY <2>2
      <4>2. CASE k \in 1..(Len(proof) + m)
        <5>1. k \in 1..Len(p)
          BY <2>1, <4>2
        <5>2. r[k] = p[k]
          BY <2>4, <5>1
        <5>3. p[k] = q[k]
          BY <2>1, <2>2, <4>1, <4>2
        <5> QED
          BY <5>2, <5>3
      <4>3. CASE k = Len(proof) + m + 1
        <5>1. ~(k <= Len(proof)) /\ k = Len(p) + 1
          BY <1>1, <2>1, <4>3
        <5>2. q[k] = Zero
          BY <2>2, <4>1, <5>1
        <5>3. r[k] = Zero
          BY <2>4, <5>1
        <5> QED
          BY <5>2, <5>3
      <4>4. k \in 1..(Len(proof) + m) \/ k = Len(proof) + m + 1
        <5> DEFINE n == Len(proof)
        <5>1. n \in Nat /\ k \in 1..(n + (m + 1))
          BY <1>1, <4>1
        <5> HIDE DEF n
        <5>2. k \in 1..(n + m) \/ k = n + m + 1
          BY <5>1
        <5> QED
          BY <5>2 DEF n
      <4> QED
        BY <4>2, <4>3, <4>4
    <3> HIDE DEF r
    <3>3. r \in Seq(Z)
      BY <2>4 DEF r
    <3>4. q = r
      BY <2>2, <3>1, <3>2, <3>3, SeqEqual
    <3> QED
      BY <3>4 DEF r
  <2>6. ComputeRoot(leaf, q) = MerkleHash(ComputeRoot(leaf, p), Zero)
    BY <2>1, <2>3, <2>5, RootOfAppend
  <2>7. ComputeRoot(leaf, q) = ComputeRoot(leaf, proof)
    BY <2>1, <2>6, ZeroIsSkipped
  <2> QED
    BY <2>2, <2>7 DEF q
<1>6. \A m \in Nat : m \in T
  <2> HIDE DEF T
  <2> QED
    BY <1>4, <1>5, Induct
<1>7. \A m \in Nat : Good(m)
  BY <1>6
<1> QED
  BY <1>7 DEF padded

(* With at most 2^k leaves the tree is at most k levels high.              *)
LEMMA HeightIsBounded ==
  ASSUME TreeInv, NEW k \in Nat, Len(txArray) <= Pow2[k]
  PROVE  height <= k
<1> SUFFICES ASSUME k < height PROVE FALSE
  BY TreeFacts
<1>1. k \in 0..height /\ len[k] > 1 /\ 1 \in Nat
  BY TreeFacts
<1>2. k \in 0..MaxHeight
  BY TreeFacts
<1>3. len[k] \in Nat /\ 1 < len[k]
  BY <1>1, <1>2, TreeFacts
<1>4. 1 * Pow2[k] < Len(txArray)
  BY <1>1, <1>3, NodesOverLeaves
<1>5. Pow2[k] \in Nat /\ Len(txArray) \in Nat
  BY Pow2Facts, TreeFacts
<1> QED
  BY <1>4, <1>5

LEMMA TreeProofsPass ==
  ASSUME TreeInv
  PROVE  PaddedProofsPassCircuit
<1> SUFFICES ASSUME Len(txArray) <= Pow2[CircuitDepth], NEW i \in 1..Len(txArray)
             PROVE  CheckMerkleRoot(txArray[i], PadProof(ComputeProof(i - 1)), GetRoot)
  BY DEF PaddedProofsPassCircuit
<1> DEFINE proof == ComputeProof(i - 1)
           m == CircuitDepth - Len(proof)
<1>1. i - 1 \in Nat /\ i - 1 < Len(txArray) /\ (i - 1) + 1 = i
  BY TreeFacts
<1>2. /\ \E S : proof \in Seq(S)
      /\ Len(proof) \in Nat /\ Len(proof) <= height
      /\ ComputeRoot(txArray[i], proof) = GetRoot
  BY <1>1, ProofLeadsToRoot
<1>3. PICK S : proof \in Seq(S)
  BY <1>2
<1>4. height <= CircuitDepth /\ CircuitDepth \in Nat /\ height \in Nat
  BY HeightIsBounded, DepthAssumption, TreeFacts
<1> HIDE DEF proof
<1>5. m \in Nat /\ Len(proof) + m = CircuitDepth
  BY <1>2, <1>4
<1> HIDE DEF m
<1>6. /\ Len(proof \o [k \in 1..m |-> Zero]) = Len(proof) + m
      /\ ComputeRoot(txArray[i], proof \o [k \in 1..m |-> Zero]) = ComputeRoot(txArray[i], proof)
  BY <1>3, <1>5, PaddingIsSkipped
<1>7. PadProof(proof) = proof \o [k \in 1..m |-> Zero]
  BY DEF PadProof, m
<1> QED
  BY <1>2, <1>5, <1>6, <1>7 DEF CheckMerkleRoot, proof

(* A proof computed from the tree leads from its leaf to the current root, *)
(* which Chamber accepts, for every leaf, of every tree, in every state    *)
(* (StoredMerkle.computeProof and verifyProof, Chamber.merkleRoots).       *)
THEOREM EveryProofVerifies == Spec => []ProofsVerify
<1> QED
  BY TreeProofsVerify, TreeInvariance, RootsAreKnown, PTL

(* Up to 2^CircuitDepth leaves, every proof fits the circuit's depth, and  *)
(* its padding does not change the root it leads to (the SDK's padding,    *)
(* the circuit's CheckMerkleRoot).                                         *)
THEOREM PaddedProofsPass == Spec => []PaddedProofsPassCircuit
<1> QED
  BY TreeProofsPass, TreeInvariance, PTL
=============================================================================
