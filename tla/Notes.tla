------------------------------- MODULE Notes -------------------------------
(***************************************************************************)
(* The hashes a MIST transaction is made of, as injective terms:           *)
(*                                                                         *)
(*   secret    = hash2(key, owner)                                         *)
(*   tx        = hash3(secret, asset, amount)            a leaf of the tree *)
(*   nullifier = hash3(hash2(key + 1, owner), asset, amount)               *)
(*                                                                         *)
(* The Solidity contracts, the Go circuit and the SDK each compute them.   *)
(* A key is a field element: "base" names the hash or secret it comes from *)
(* and "plus" what was added to it, so keys of different bases never meet. *)
(***************************************************************************)
EXTENDS Naturals, Sequences

KeyPlusOne(key) == [key EXCEPT !.plus = @ + 1]

Secret(key, owner) == [key |-> key, owner |-> owner]

HashWithAsset(secret, asset, amount) ==
  [secret |-> secret, asset |-> asset, amount |-> amount]

(* Mutant: the key is not incremented. *)
NullifierIsTx(tx) == HashWithAsset(tx.secret, tx.asset, tx.amount)

NullifierOf(tx) ==
  HashWithAsset(Secret(KeyPlusOne(tx.secret.key), tx.secret.owner),
                tx.asset, tx.amount)

(* A root stands for the list of the transactions it commits to.           *)
Leaves(root) == { root[i] : i \in 1..Len(root) }
=============================================================================
