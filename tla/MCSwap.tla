------------------------------- MODULE MCSwap -------------------------------
(* Instances of Swap for TLC: the swap of MCEscrow, by tool calls, while   *)
(* Bob also pays another request of Alice's in the token he swaps.         *)
EXTENDS Swap

CONSTANTS alice, bob, idAlice, idBob, escrow, x, y, ka, kb, kc, blind, fund, claim, pay

Plain(base, owner) == Secret([base |-> base, plus |-> 0], owner)

RequestA == HashWithAsset(Plain(ka, idAlice), y, 1)
RequestB == HashWithAsset(Plain(kb, idBob), x, 1)
RequestC == HashWithAsset(Plain(kc, idAlice), y, 1)

ToolArgs(tool, agent, creator) ==
  [tool |-> tool, agent |-> agent, creator |-> creator,
   recipient |-> RequestB, blinding |-> blind]

MCArgs ==
  [c \in ToolCall |->
     CASE c = fund  -> ToolArgs("escrowFund", alice, RequestA)
       [] c = claim -> ToolArgs("escrowClaim", bob, RequestA)
       [] c = pay   -> ToolArgs("payRequest", bob, RequestC)]

MCSecrets ==
  { RequestA.secret, RequestB.secret, RequestC.secret,
    Secret(EscrowKey(blind, RequestA, RequestB.secret), escrow) }
MCKey     == { s.key : s \in MCSecrets }
MCKeyBase == { k.base : k \in MCKey }

(* Alice starts with two x, Bob with three y: more than they have to pay.  *)
MCInitialBalance ==
  [a \in Asset |-> [u \in Address |->
     IF <<u, a>> = <<alice, x>> THEN 2 ELSE IF <<u, a>> = <<bob, y>> THEN 3 ELSE 0]]

ASSUME SeparateAssumption == RequestsAreSeparate

MCApproval == [a \in Asset |-> [u \in Address |-> {1}]]
=============================================================================
