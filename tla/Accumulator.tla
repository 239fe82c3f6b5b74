---------------------------- MODULE Accumulator ----------------------------
(***************************************************************************)
(* What the on-chain transaction tree promises to everything built on it:  *)
(* an append-only log of transaction hashes, and the set of the roots it   *)
(* ever had.  A root is the list of leaves it commits to, so "a leaf is    *)
(* proved under a known root" is "the leaf is in a recorded prefix".       *)
(*                                                                         *)
(* StoredMerkle implements it with the nodes of a Merkle tree in contract  *)
(* storage, Chamber with its deposits and spends.                          *)
(***************************************************************************)
EXTENDS Naturals, Sequences

VARIABLES
  log,     \* every transaction hash, in the order of appending
  roots    \* every root ever returned by an append

(* The prefixes of s longer than n: the roots of the appends after the n-th. *)
PrefixesAfter(s, n) == { SubSeq(s, 1, k) : k \in (n + 1)..Len(s) }

Init ==
  /\ log = <<>>
  /\ roots = {}

(* One transaction appends one or more leaves; each append records a root. *)
Extend ==
  /\ Len(log) < Len(log')
  /\ log = SubSeq(log', 1, Len(log))
  /\ roots' = roots \cup PrefixesAfter(log', Len(log))

Spec == Init /\ [][Extend]_<<log, roots>>
=============================================================================
