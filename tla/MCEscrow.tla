------------------------------ MODULE MCEscrow ------------------------------
(* Instances of Escrow for TLC: Alice swaps one unit of x against one of   *)
(* y from Bob.                                                             *)
EXTENDS Escrow

CONSTANTS alice, bob, idAlice, idBob, escrow, x, y, ka, kb, blind

Plain(base, owner) == Secret([base |-> base, plus |-> 0], owner)

(* The requests of the parties, and what Alice expects: one y.             *)
RequestA == Plain(ka, idAlice)
RequestB == Plain(kb, idBob)
ExpectedY == HashWithAsset(RequestA, y, 1)
ExpectedX == HashWithAsset(RequestA, x, 1)
MCExpected == {ExpectedX, ExpectedY}

(* Her escrow for Bob on those terms, and one on the terms of one x.       *)
EscrowAB == Secret(EscrowKey(blind, ExpectedY, RequestB), escrow)
OtherAB  == Secret(EscrowKey(blind, ExpectedX, RequestB), escrow)

MCSecrets == {RequestA, RequestB, EscrowAB, OtherAB}
MCKey     == { s.key : s \in MCSecrets }
MCKeyBase == { k.base : k \in MCKey }

(* Alice starts with two x, Bob with one y.                                *)
MCInitialBalance ==
  [a \in Asset |-> [u \in Address |->
     IF <<u, a>> = <<alice, x>> THEN 2 ELSE IF <<u, a>> = <<bob, y>> THEN 1 ELSE 0]]

(* Each approves what they may deposit.                                    *)
MCApproval ==
  [a \in Asset |-> [u \in Address |->
     IF MCInitialBalance[a][u] > 0 THEN {MCInitialBalance[a][u]} ELSE {}]]
=============================================================================
