----------------------------- MODULE MCWorkflow -----------------------------
(***************************************************************************)
(* Instances of Workflow for TLC: Jill's and Bob's graphs of one swap.     *)
(***************************************************************************)
EXTENDS Workflow

CONSTANTS
  Jill, Bob, eth, usd,
  jillRequest, bobRequest, blinding, fund, claim, pay, check, show, otherRequest

NodeOf(step, org, asset, creator, recipient, after) ==
  [step |-> step, org |-> org, asset |-> asset, creator |-> creator,
   recipient |-> recipient, blinding |-> blinding, after |-> after]

(* Jill asks for eth and funds an escrow of usd for Bob, who claims it.    *)
(* Meanwhile Jill pays Bob's request, too.                                 *)
SwapArgs ==
  [n \in Node |->
     CASE n = blinding    -> NodeOf("generate-blinding", Jill, usd, n, n, {})
       [] n = jillRequest -> NodeOf("request-payment", Jill, eth, n, n, {})
       [] n = bobRequest  -> NodeOf("request-payment", Bob, usd, n, n, {})
       [] n = fund  -> NodeOf("escrow-fund", Jill, usd, jillRequest, bobRequest, {})
       [] n = claim -> NodeOf("escrow-claim", Bob, eth, jillRequest, bobRequest, {})
       [] n = pay   -> NodeOf("pay-request", Jill, usd, bobRequest, bobRequest, {})
       [] n = check -> NodeOf("check-request-status", Bob, usd, bobRequest, bobRequest, {pay})
       [] n = show  -> NodeOf("show-balance", Bob, usd, n, n, {claim})]

(* Bob asks for two payments, and Jill makes the first.                    *)
RequestArgs ==
  [n \in Node |->
     CASE n = bobRequest   -> NodeOf("request-payment", Bob, usd, n, n, {})
       [] n = otherRequest -> NodeOf("request-payment", Bob, eth, n, n, {})
       [] n = pay          -> NodeOf("pay-request", Jill, usd, bobRequest, n, {})
       [] n = blinding     -> NodeOf("generate-blinding", Jill, usd, n, n, {})]
=============================================================================
