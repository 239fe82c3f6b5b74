--------------------------- MODULE MCStoredMerkle ---------------------------
(***************************************************************************)
(* An instance of StoredMerkle for TLC, and one of the hash its nodes are  *)
(* made of, over a small field and with some keys.                         *)
(***************************************************************************)
EXTENDS StoredMerkle, Poseidon2

SomeKeys2 == [k \in 1..20 |-> (k * k + 5) % 13]
SomeKeys3 == [k \in 1..26 |-> (k * k + 7 * k) % 13]

(* hash2 and hash3 are the reference's, and permute: facts about constants *)
(* only, which are looked at once, before the tree has a leaf.             *)
NodesHashAsReference == Init => HashesAreReference
NodeHashesPermute    == Init => PermutesStates
=============================================================================
