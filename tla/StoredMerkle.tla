---------------------------- MODULE StoredMerkle ----------------------------
(***************************************************************************)
(* contracts/src/StoredMerkle.sol: the Merkle tree Chamber inherits, with  *)
(* every level of the tree kept in contract storage, and the three places  *)
(* that must agree with it: Chamber._addNewTx, which records the roots;    *)
(* the SDK, which pads the proofs; the circuit, which checks them over a   *)
(* fixed number of levels.                                                 *)
(*                                                                         *)
(* Hashing is symbolic: hash2 of a sorted pair is a term over the set of   *)
(* its two arguments, so two hashes are equal only if their inputs are.    *)
(***************************************************************************)
EXTENDS Naturals, Sequences, FiniteSetsExt

CONSTANTS
  Leaf,          \* transaction hashes
  Zero,          \* 0: an unwritten slot, and the padding of a proof
  MaxLeaves,     \* bound on the number of leaves
  MaxHeight,     \* levels of storage the model holds
  CircuitDepth   \* levels the circuit's Merkle proof has (20 in the code)

(* The number of leaves of a full tree of k levels above them.             *)
Pow2[k \in Nat] == IF k = 0 THEN 1 ELSE 2 * Pow2[k - 1]

ASSUME LeafAssumption   == Zero \notin Leaf
ASSUME HeightAssumption ==
  MaxLeaves \in Nat \ {0} /\ MaxHeight \in Nat /\ MaxLeaves <= Pow2[MaxHeight]
ASSUME DepthAssumption  == CircuitDepth \in Nat

VARIABLES
  store,         \* _store at _leafKey(level, index)
  len,           \* _store at _leafKey(level, _LENGTH_KEY)
  height,        \* _store at _HEIGHT_KEY
  txArray,       \* Chamber.txArray
  merkleRoots    \* Chamber.merkleRoots, as the set of its true keys

vars == <<store, len, height, txArray, merkleRoots>>

Levels  == 0..MaxHeight
Indices == 0..(MaxLeaves - 1)

-----------------------------------------------------------------------------
(* Hashing.                                                                *)

Hash2(a, b) == <<"hash2", {a, b}>>

(* Mutant: a zero sibling is hashed like any other. *)
HashZeroToo(left, right) == Hash2(left, right)

MerkleHashNot0(left, right) == IF left = Zero THEN right ELSE Hash2(left, right)

(* Zero sorts below every other value; the order of the others is absorbed *)
(* by Hash2, which is symmetric.                                           *)
MerkleHash(a, b) == IF b = Zero THEN MerkleHashNot0(b, a) ELSE MerkleHashNot0(a, b)

ComputeRoot(leaf, proof) ==
  LET current[k \in 0..Len(proof)] ==
        IF k = 0 THEN leaf ELSE MerkleHash(current[k - 1], proof[k])
  IN  current[Len(proof)]

VerifyProof(root, leaf, proof) == ComputeRoot(leaf, proof) = root

-----------------------------------------------------------------------------
(* Reading the tree.                                                       *)

LenAtHeight(h) == len[h]

ReadLeaf(h, index) == store[<<h, index>>]

GetRoot == ReadLeaf(height, 0)

(* The index, at a level, of the ancestor of leaf "index". *)
Ancestor(index, level) ==
  LET above[l \in Nat] == IF l = 0 THEN index ELSE above[l - 1] \div 2
  IN  above[level]

HasSibling(index, level) ==
  \/ Ancestor(index, level) % 2 = 1
  \/ Ancestor(index, level) + 1 < LenAtHeight(level)

(* Mutant: the right-hand neighbour is always taken as the sibling. *)
RightSibling(index, level) == ReadLeaf(level, Ancestor(index, level) + 1)

Sibling(index, level) ==
  IF Ancestor(index, level) % 2 = 1
    THEN ReadLeaf(level, Ancestor(index, level) - 1)
    ELSE ReadLeaf(level, Ancestor(index, level) + 1)

(* The siblings from the leaf to the top; a level without one is skipped.  *)
ComputeProof(index) ==
  LET path[l \in 0..height] ==
        IF l = 0 THEN <<>>
        ELSE IF HasSibling(index, l - 1)
               THEN Append(path[l - 1], Sibling(index, l - 1))
               ELSE path[l - 1]
  IN  path[height]

(* The SDK fills a proof with zeros up to the circuit's depth; Array(n)    *)
(* throws on a negative n, so a longer proof cannot be padded at all.      *)
PadProof(proof) == proof \o [k \in 1..(CircuitDepth - Len(proof)) |-> Zero]

(* The circuit's CheckMerkleRoot: the same over exactly CircuitDepth levels. *)
CheckMerkleRoot(leaf, proof, root) ==
  Len(proof) = CircuitDepth /\ ComputeRoot(leaf, proof) = root

-----------------------------------------------------------------------------
(* Writing the tree.  A tree is the record of the three storage areas.     *)

Tree == [store |-> store, len |-> len, height |-> height]

(* Mutant: an odd trailing node is dropped instead of carried up. *)
DropTrailing(nodes) ==
  [k \in 1..(Len(nodes) \div 2) |-> MerkleHash(nodes[2*k - 1], nodes[2*k])]

ComputeNextLevel(nodes) ==
  [k \in 1..((Len(nodes) + 1) \div 2) |->
     IF 2*k <= Len(nodes) THEN MerkleHash(nodes[2*k - 1], nodes[2*k])
                          ELSE nodes[Len(nodes)]]

(* Mutant: writing a level adds to its length instead of setting it. *)
AccumulatedLen(h, nodes) == LenAtHeight(h) + Len(nodes)

(* _writeLeavesAtHeight: the length a level has once "nodes" are written.  *)
WrittenLen(h, nodes) == Len(nodes)

(* initStorage: levels are written bottom-up until one has a single node;  *)
(* what other levels and higher indices held stays in storage.             *)
Built(leaves) ==
  LET level[h \in Levels] ==
        IF h = 0 THEN leaves ELSE ComputeNextLevel(level[h - 1])
      top == Min({ h \in Levels : Len(level[h]) <= 1 })
  IN  [ store  |-> [ p \in DOMAIN store |->
                       IF p[1] <= top /\ p[2] < Len(level[p[1]])
                         THEN level[p[1]][p[2] + 1] ELSE store[p] ],
        len    |-> [ h \in Levels |-> IF h <= top THEN WrittenLen(h, level[h])
                                            ELSE len[h] ],
        height |-> top ]

(* The slot the node at "level" on the way up from leaf "index" goes to: an *)
(* existing node is updated, otherwise one is appended.                    *)
SlotAt(index, level) ==
  IF LenAtHeight(level) > Ancestor(index, level) THEN Ancestor(index, level)
                                                 ELSE LenAtHeight(level)

(* Mutant: an even node is paired as well, with the slot on its right. *)
PairAlways(node, index, level) ==
  MerkleHash(node, ReadLeaf(level, IF Ancestor(index, level) % 2 = 1
                                     THEN Ancestor(index, level) - 1
                                     ELSE 0))

(* An odd node is paired with the one on its left, an even one is carried. *)
NodeAbove(node, index, level) ==
  IF Ancestor(index, level) % 2 = 1
    THEN MerkleHash(node, ReadLeaf(level, Ancestor(index, level) - 1))
    ELSE node

(* append: the path from the new leaf up to the first level of length 1.   *)
Appended(leaf) ==
  LET index == LenAtHeight(0)
      node[l \in Levels] ==
        IF l = 0 THEN leaf ELSE NodeAbove(node[l - 1], index, l - 1)
      newLen[l \in Levels] ==
        IF SlotAt(index, l) = LenAtHeight(l) THEN LenAtHeight(l) + 1 ELSE LenAtHeight(l)
      top == Min({ l \in Levels : newLen[l] = 1 })
  IN  [ store  |-> [ p \in DOMAIN store |->
                       IF p[1] <= top /\ p[2] = SlotAt(index, p[1])
                         THEN node[p[1]] ELSE store[p] ],
        len    |-> [ l \in Levels |-> IF l <= top THEN newLen[l] ELSE len[l] ],
        height |-> top,
        root   |-> node[top] ]

Write(tree) ==
  /\ store'  = tree.store
  /\ len'    = tree.len
  /\ height' = tree.height

-----------------------------------------------------------------------------
(* The contract.                                                           *)

Init ==
  /\ store = [p \in Levels \X Indices |-> Zero]
  /\ len = [l \in Levels |-> 0]
  /\ height = 0
  /\ txArray = <<>>
  /\ merkleRoots = {}

(* Mutant: the root recorded is the one before the append. *)
RecordStaleRoot(leaf) ==
  /\ Len(txArray) < MaxLeaves
  /\ txArray' = Append(txArray, leaf)
  /\ Write(Appended(leaf))
  /\ merkleRoots' = merkleRoots \cup {GetRoot}

(* Chamber._addNewTx *)
AddNewTx(leaf) ==
  /\ Len(txArray) < MaxLeaves
  /\ txArray' = Append(txArray, leaf)
  /\ LET tree == Appended(leaf) IN
       /\ Write(tree)
       /\ merkleRoots' = merkleRoots \cup {tree.root}

(* Chamber.recalculateMerkleRoot: initStorage(txArray) *)
RecalculateMerkleRoot ==
  /\ Write(Built(txArray))
  /\ UNCHANGED <<txArray, merkleRoots>>

Next ==
  \/ \E leaf \in Leaf : AddNewTx(leaf)
  \/ RecalculateMerkleRoot

Spec == Init /\ [][Next]_vars

-----------------------------------------------------------------------------
(* The reference: the root of a list of leaves, by splitting it at the     *)
(* largest power of two below its length.                                  *)
SplitOf(n) == CHOOSE p \in { Pow2[k] : k \in 0..n } : p < n /\ n <= 2 * p

ReferenceRoot[leaves \in Seq(Leaf) \ {<<>>}] ==
  LET n == Len(leaves)
      p == SplitOf(n)
  IN  IF n = 1 THEN leaves[1]
      ELSE MerkleHash(ReferenceRoot[SubSeq(leaves, 1, p)],
                      ReferenceRoot[SubSeq(leaves, p + 1, n)])

(* The leaves under the node "index" of a level. *)
LeavesUnder(level, index) ==
  SubSeq(txArray, index * Pow2[level] + 1,
         Min({ (index + 1) * Pow2[level], Len(txArray) }))

-----------------------------------------------------------------------------
(* Properties.                                                             *)

(* The storage areas keep their shape: the height and the lengths an       *)
(* append or a rebuild leaves are within the levels a tree of at most      *)
(* MaxLeaves leaves can have.                                              *)
TypeOK ==
  /\ store = [p \in Levels \X Indices |-> store[p]]
  /\ len \in [Levels -> 0..MaxLeaves]
  /\ height \in Levels
  /\ txArray \in Seq(Leaf) /\ Len(txArray) <= MaxLeaves

(* Every stored node, at every level, is the root of the leaves below it:  *)
(* the node-by-node updates of append and the rebuild of initStorage       *)
(* produce one and the same tree, whatever order they come in.             *)
NodesAreSubtreeRoots ==
  \A l \in 0..height : \A i \in 0..(LenAtHeight(l) - 1) :
    ReadLeaf(l, i) = ReferenceRoot[LeavesUnder(l, i)]

(* Each level has half the nodes of the level below, rounded up, and the   *)
(* height is the first level with a single node: a stale length left by an *)
(* earlier tree would put the root, and every proof, at the wrong level.   *)
LevelsHalve ==
  /\ LenAtHeight(0) = Len(txArray)
  /\ \A l \in 1..height : LenAtHeight(l) = (LenAtHeight(l - 1) + 1) \div 2
  /\ \A l \in 0..height : l < height <=> LenAtHeight(l) > 1

(* computeProof(i) proves the i-th transaction against the current root,   *)
(* and that root is one Chamber accepts.                                   *)
ProofsVerify ==
  \A i \in 1..Len(txArray) :
    /\ VerifyProof(GetRoot, txArray[i], ComputeProof(i - 1))
    /\ GetRoot \in merkleRoots

(* While the tree has at most 2^CircuitDepth leaves, every proof can be    *)
(* padded to the circuit's fixed depth and the padded proof passes the     *)
(* circuit's check against a root Chamber accepts.                         *)
PaddedProofsPassCircuit ==
  Len(txArray) <= Pow2[CircuitDepth] =>
    \A i \in 1..Len(txArray) :
      CheckMerkleRoot(txArray[i], PadProof(ComputeProof(i - 1)), GetRoot)

(* The stored tree implements the append-only log: every append records    *)
(* the root of the whole log, no root is ever forgotten, and a rebuild is  *)
(* invisible.                                                              *)
Log == INSTANCE Accumulator WITH
         log   <- txArray,
         roots <- { p \in { SubSeq(txArray, 1, k) : k \in 1..Len(txArray) } :
                      ReferenceRoot[p] \in merkleRoots }

ImplementsAccumulator == Log!Spec
=============================================================================
