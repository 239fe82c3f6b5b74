-------------------------------- MODULE Swap --------------------------------
(***************************************************************************)
(* The flows of the SDK's MISTActions - deposit, escrowFund, escrowClaim - *)
(* as the runner's tools payRequest, escrowFund and escrowClaim call them, *)
(* on the contracts of Escrow.tla.                                         *)
(*                                                                         *)
(* An action is what a flow does between two awaits, or the mining of one  *)
(* Ethereum transaction.  Tool calls of one agent run concurrently; their  *)
(* transactions share the agent's account, so its allowances and nonces.   *)
(* Any await can throw, for good or because the process stops: the tool    *)
(* call fails, what it has sent stays sent, and the agent may call again.  *)
(***************************************************************************)
EXTENDS Escrow

CONSTANTS
  ToolCall,    \* the tool calls the agents make, and
  Args,        \* who makes each, which tool it is, and its arguments
  MaxFaults    \* bound on throwing awaits and stale answers

ASSUME ToolCallAssumption ==
  Args \in [ ToolCall ->
              [ tool : {"payRequest", "escrowFund", "escrowClaim"}, agent : User,
                creator : Tx, recipient : Tx, blinding : Blinding ] ]
ASSUME FaultAssumption == MaxFaults \in Nat

VARIABLES
  pc,        \* where each tool call is
  view,      \* the transaction list each escrowClaim proves against
  mempool,   \* each agent's sent transactions, in the order of their nonces
  faults     \* throws and stale answers so far

flowVars == <<pc, view, mempool, faults>>
swapVars == <<escrowVars, flowVars>>

Step == {"approve", "deposit", "consume"}
Entry == [call : ToolCall, step : Step, root : Seq(Tx), awaited : BOOLEAN]

-----------------------------------------------------------------------------
(* What a tool call is about.                                              *)

Agent(c) == Args[c].agent
Tool(c)  == Args[c].tool

(* The requests c names: what the creator of the escrow wants to receive,  *)
(* or what payRequest pays; and what its recipient wants to receive.       *)
CreatorRequest(c)   == Args[c].creator
RecipientRequest(c) == Args[c].recipient

(* escrowFund and escrowClaim derive the escrow from the same arguments.   *)
EscrowTerms(c) ==
  Terms(Args[c].blinding, CreatorRequest(c), RecipientRequest(c).secret,
        EscrowAddress, RecipientRequest(c).asset, RecipientRequest(c).amount)

EscrowOf(c) == EscrowTx(EscrowTerms(c))

(* The secrets of the escrows are among those in play.                     *)
ASSUME EscrowSecretAssumption ==
  \A c \in ToolCall : Tool(c) # "payRequest" => EscrowOf(c).secret \in Secrets

(* The transaction a tool call deposits.                                   *)
Deposited(c) == IF Tool(c) = "escrowFund" THEN EscrowOf(c) ELSE CreatorRequest(c)

(* The inputs of the two proofs escrowClaim makes against one list.        *)
EscrowProofInput(c, root) == EscrowInput(root, EscrowTerms(c))

(* Mutant: the escrow is paid to the creator's secret. *)
MistProofInputToCreator(c, root) ==
  ClaimInput(root, EscrowOf(c), CreatorRequest(c).secret, FALSE, 0,
             RecipientRequest(c).amount)

MistProofInput(c, root) ==
  ClaimInput(root, EscrowOf(c), RecipientRequest(c).secret, FALSE, 0,
             RecipientRequest(c).amount)

-----------------------------------------------------------------------------
(* The chain.                                                              *)

(* Whether a transaction would succeed now.                                *)
CanExecute(e) ==
  LET c == e.call
      tx == Deposited(c)
  IN  CASE e.step = "approve" -> TRUE
        [] e.step = "deposit" -> CanDeposit(Agent(c), tx.secret, tx.amount, tx.asset)
        [] e.step = "consume" ->
             CanConsume(EscrowProofInput(c, e.root), EscrowTerms(c),
                        MistProofInput(c, e.root), EscrowOf(c))

Execute(e) ==
  LET c == e.call
      tx == Deposited(c)
  IN  \/ /\ e.step = "approve"
         /\ Approve(Agent(c), tx.asset, tx.amount)
         /\ UNCHANGED consumed
      \/ /\ e.step = "deposit"
         /\ Deposit(Agent(c), tx.secret, tx.amount, tx.asset)
         /\ UNCHANGED consumed
      \/ /\ e.step = "consume"
         /\ ConsumeEscrow(EscrowProofInput(c, e.root), EscrowTerms(c),
                          MistProofInput(c, e.root), EscrowOf(c))

(* Where a tool call goes on once its transaction is mined.                *)
After(c, step) ==
  CASE step = "approve" -> "deposit"
    [] step = "deposit" -> IF Tool(c) = "escrowClaim" THEN "read" ELSE "done"
    [] step = "consume" -> "done"

(* The next of an agent's transactions leaves the mempool.                 *)
Mined(agent) ==
  /\ mempool[agent] # <<>>
  /\ mempool' = [mempool EXCEPT ![agent] = Tail(@)]

(* It is executed, or reverts and changes nothing.  The receipt is awaited, its *)
(* status is not looked at: a flow goes on after a revert as after success.*)
Mine(agent) ==
  /\ Mined(agent)
  /\ LET e == Head(mempool[agent]) IN
       /\ \/ Execute(e)
          \/ ~CanExecute(e) /\ UNCHANGED escrowVars
       /\ pc' = IF e.awaited THEN [pc EXCEPT ![e.call] = After(e.call, e.step)]
                             ELSE pc
  /\ UNCHANGED <<view, faults>>

-----------------------------------------------------------------------------
(* The flows.                                                              *)

Awaiting(c) ==
  \E i \in 1..Len(mempool[Agent(c)]) :
    mempool[Agent(c)][i].call = c /\ mempool[Agent(c)][i].awaited

GoTo(c, where) == pc' = [pc EXCEPT ![c] = where]

(* The agent calls the tool, for the first time or after it failed.        *)
Start(c) ==
  /\ pc[c] \in {"idle", "failed"}
  /\ GoTo(c, IF Tool(c) = "escrowClaim" THEN "check" ELSE "approve")
  /\ UNCHANGED <<escrowVars, view, mempool, faults>>

(* sendTransaction: the gas estimate throws if the transaction would       *)
(* revert in the present state; otherwise it is sent and awaited.          *)
Submit(c) ==
  /\ pc[c] \in Step
  /\ ~Awaiting(c)
  /\ LET e == [call |-> c, step |-> pc[c], root |-> view[c], awaited |-> TRUE] IN
       \/ /\ CanExecute(e)
          /\ mempool' = [mempool EXCEPT ![Agent(c)] = Append(@, e)]
          /\ UNCHANGED pc
       \/ /\ ~CanExecute(e)
          /\ GoTo(c, "failed")
          /\ UNCHANGED mempool
  /\ UNCHANGED <<escrowVars, view, faults>>

(* getTxArray: a node answers with the list, or is behind the chain.       *)
Answer(list) ==
  \/ list = txArray /\ UNCHANGED faults
  \/ /\ faults < MaxFaults
     /\ list \in { SubSeq(txArray, 1, n) : n \in 0..(Len(txArray) - 1) }
     /\ faults' = faults + 1

Lists == { SubSeq(txArray, 1, n) : n \in 0..Len(txArray) }

(* Mutant: the status of the escrow is not looked at. *)
CheckNothing(c) ==
  /\ pc[c] = "check"
  /\ GoTo(c, "approve")
  /\ UNCHANGED <<escrowVars, view, mempool, faults>>

(* escrowClaim begins with checkStatus of the escrow.                      *)
CheckEscrow(c) ==
  /\ pc[c] = "check"
  /\ \E list \in Lists :
       /\ Answer(list)
       /\ GoTo(c, IF EscrowOf(c) \in Leaves(list) THEN "approve" ELSE "failed")
  /\ UNCHANGED <<escrowVars, view, mempool>>

(* After its deposit and the wait it reads the list it makes both proofs   *)
(* against.                                                                *)
Read(c) ==
  /\ pc[c] = "read"
  /\ \E list \in Lists :
       /\ Answer(list)
       /\ \/ /\ {CreatorRequest(c), EscrowOf(c)} \subseteq Leaves(list)
             /\ view' = [view EXCEPT ![c] = list]
             /\ GoTo(c, "consume")
          \/ /\ ~ {CreatorRequest(c), EscrowOf(c)} \subseteq Leaves(list)
             /\ GoTo(c, "failed")
             /\ UNCHANGED view
  /\ UNCHANGED <<escrowVars, mempool>>

Forget(c, e) == IF e.call = c THEN [e EXCEPT !.awaited = FALSE] ELSE e

(* Mutant: a late receipt still reaches the tool call. *)
ThrowButListen(c) ==
  /\ pc[c] \notin {"idle", "done", "failed"}
  /\ faults < MaxFaults
  /\ faults' = faults + 1
  /\ GoTo(c, "failed")
  /\ UNCHANGED <<escrowVars, view, mempool>>

(* An await throws - the node, the prover, the wait for a receipt - or the *)
(* process stops.                                                          *)
Throw(c) ==
  /\ pc[c] \notin {"idle", "done", "failed"}
  /\ faults < MaxFaults
  /\ faults' = faults + 1
  /\ GoTo(c, "failed")
  /\ mempool' = [mempool EXCEPT ![Agent(c)] =
                   [i \in 1..Len(@) |-> Forget(c, @[i])]]
  /\ UNCHANGED <<escrowVars, view>>

-----------------------------------------------------------------------------

SwapInit ==
  /\ EscrowInit
  /\ verifier # NoVerifier
  /\ pc = [c \in ToolCall |-> "idle"]
  /\ view = [c \in ToolCall |-> <<>>]
  /\ mempool = [a \in User |-> <<>>]
  /\ faults = 0

Proceed(c) == Start(c) \/ Submit(c) \/ CheckEscrow(c) \/ Read(c)

SwapNext ==
  \/ \E c \in ToolCall : Proceed(c) \/ Throw(c)
  \/ \E agent \in User : Mine(agent)

(* Sent transactions are mined, awaited promises resolve, and an agent     *)
(* whose tool call failed calls the tool again.                            *)
Fairness ==
  /\ \A c \in ToolCall : WF_swapVars(Proceed(c))
  /\ \A agent \in User : WF_mempool(Mined(agent))

SwapSpec == SwapInit /\ [][SwapNext]_swapVars /\ Fairness

-----------------------------------------------------------------------------
(* Properties.                                                             *)

(* A tool call awaits at most one of its transactions, the one of the step *)
(* it is at: a receipt that comes after its call has failed moves no later *)
(* call.                                                                   *)
SwapTypeOK ==
  /\ pc \in [ToolCall -> Step \cup {"idle", "check", "read", "done", "failed"}]
  /\ faults \in 0..MaxFaults
  /\ \A agent \in User : \A i \in 1..Len(mempool[agent]) :
       LET e == mempool[agent][i] IN
         /\ e \in Entry /\ Agent(e.call) = agent
         /\ e.awaited => /\ e.step = pc[e.call]
                         /\ \A j \in 1..Len(mempool[agent]) :
                              mempool[agent][j].call = e.call
                              /\ mempool[agent][j].awaited => j = i

(* Every request has a secret of its own - requestFunds derives a new key  *)
(* each time - so that two tool calls that deposit under one secret are    *)
(* one call made twice, and nobody deposits what a swap pays its recipient.*)
RequestsAreSeparate ==
  \A c, d \in ToolCall :
    /\ Deposited(c).secret = Deposited(d).secret => Args[c] = Args[d]
    /\ Tool(d) = "escrowClaim" => Deposited(c).secret # RecipientRequest(d).secret

(* What an agent has deposited of a token, one amount for each transaction *)
(* of its tool calls that is in the list.                                  *)
Paid(agent, asset) ==
  { tx \in { Deposited(c) : c \in { d \in ToolCall : Agent(d) = agent } } :
      tx.asset = asset /\ tx \in Leaves(txArray) }

(* However often a tool call fails and is made again, and however its      *)
(* transactions interleave with the agent's others, every payment is made  *)
(* at most once, if the requests are separate.                             *)
PaysOnce ==
  \A agent \in User, asset \in Asset :
    balance[asset][agent] + Total(Paid(agent, asset)) = InitialBalance[asset][agent]

(* The agent that claims an escrow pays the creator's request only if the  *)
(* escrow is in the list, if the requests are separate.                    *)
ClaimPaysFunded ==
  \A c \in ToolCall :
    Tool(c) = "escrowClaim" /\ CreatorRequest(c) \in Leaves(txArray)
      => EscrowOf(c) \in Leaves(txArray)

Consumed(c) == NullifierOf(EscrowOf(c)) \in consumed

(* An agent that keeps calling escrowFund gets its escrow funded, if no    *)
(* other tool call of its own uses the same token.                         *)
EscrowGetsFunded ==
  \A c \in ToolCall :
    Tool(c) = "escrowFund"
    /\ (\A d \in ToolCall : Agent(d) = Agent(c) /\ d # c =>
          Deposited(d).asset # Deposited(c).asset)
    => <>(EscrowOf(c) \in Leaves(txArray))

(* Between two agents that keep calling their tools, and as long as no     *)
(* await throws and no answer is stale, the swap settles, whatever other   *)
(* payments they make at the same time.                                    *)
UndisturbedSwapSettles ==
  \A c \in ToolCall : Tool(c) = "escrowClaim" => <>(Consumed(c) \/ faults > 0)

(* Whoever has paid the creator's request by escrowClaim gets the escrow.  *)
PaidSwapSettles ==
  \A c \in ToolCall :
    Tool(c) = "escrowClaim" => (CreatorRequest(c) \in Leaves(txArray) ~> Consumed(c))

(* A payRequest that has completed has paid.                               *)
CompletedIsPaid ==
  \A c \in ToolCall :
    Tool(c) = "payRequest" /\ pc[c] = "done" => Deposited(c) \in Leaves(txArray)
=============================================================================
