----------------------------- MODULE MCChamber -----------------------------
(* Instances of Chamber for TLC.                                           *)
EXTENDS Chamber

CONSTANTS alice, bob, tok

(* Alice starts with two units of each token, the others with none.        *)
MCInitialBalance ==
  [a \in Asset |-> [u \in Address |-> IF u = alice THEN 2 ELSE 0]]

MCApproval == [a \in Asset |-> [u \in Address |-> {2}]]

MCKey == [base : KeyBase, plus : {0}]

(* The key goes with every owner, so that two transactions can differ in   *)
(* the owner, in the amount, or not at all.                                *)
MCSecrets == [key : MCKey, owner : Address \cup Identity]
=============================================================================
