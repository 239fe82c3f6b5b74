----------------------------- MODULE SwapProofs -----------------------------
(***************************************************************************)
(* Proofs about Swap, for every value of its constants: any number of      *)
(* agents and tool calls, faults and tokens.                               *)
(*                                                                         *)
(* What the flows send is executed in steps of the contracts, so the       *)
(* invariant of Escrow holds below that of the flows.  Two invariants are  *)
(* needed beside those the runs check: that what is deposited is           *)
(* registered, so that it cannot be deposited again; and that a claim that *)
(* is past checkStatus, or has a transaction left in the mempool, has its  *)
(* escrow in the list.                                                     *)
(***************************************************************************)
EXTENDS Swap, EscrowProofs

Where == Step \cup {"idle", "check", "read", "done", "failed"}

FlowTypeOK ==
  /\ pc \in [ToolCall -> Where]
  /\ view \in [ToolCall -> Seq(Tx)]
  /\ mempool \in [User -> Seq(Entry)]
  /\ faults \in 0..MaxFaults

(* A deposit that is in the list is registered under its secret.           *)
DepositsAreRegistered ==
  \A c \in ToolCall :
    Deposited(c) \in Leaves(txArray) => assets[Deposited(c).secret].amount # 0

HasSent(c) == \E i \in 1..Len(mempool[Agent(c)]) : mempool[Agent(c)][i].call = c

(* Only claims read the list and call consumeEscrow; one that got past     *)
(* checkStatus has found its escrow.                                       *)
OnlyClaimsConsume ==
  /\ \A c \in ToolCall : pc[c] \in {"check", "read", "consume"} => Tool(c) = "escrowClaim"
  /\ \A agent \in User : \A i \in 1..Len(mempool[agent]) :
       mempool[agent][i].step = "consume" =>
         Tool(mempool[agent][i].call) = "escrowClaim"

ClaimsAreChecked ==
  \A c \in ToolCall :
    Tool(c) = "escrowClaim" /\ (pc[c] \in Step \cup {"read"} \/ HasSent(c))
      => EscrowOf(c) \in Leaves(txArray)

SInv == EInv /\ FlowTypeOK /\ SwapTypeOK /\ OnlyClaimsConsume

-----------------------------------------------------------------------------
(* What a tool call is about.                                              *)

LEMMA CallFacts ==
  ASSUME NEW c \in ToolCall
  PROVE  /\ Agent(c) \in User /\ Agent(c) \in Address /\ Agent(c) # ChamberAddress
         /\ Tool(c) \in {"payRequest", "escrowFund", "escrowClaim"}
         /\ CreatorRequest(c) \in Tx /\ RecipientRequest(c) \in Tx
         /\ Args[c].blinding \in Blinding
BY ToolCallAssumption, AccountFacts
   DEF Agent, Tool, CreatorRequest, RecipientRequest, User

(* A transaction is the hash of its parts.                                 *)
LEMMA TxIsHash ==
  ASSUME NEW tx \in Tx
  PROVE  HashWithAsset(tx.secret, tx.asset, tx.amount) = tx
BY DEF Tx, HashWithAsset

LEMMA EscrowFacts ==
  ASSUME NEW c \in ToolCall
  PROVE  /\ EscrowOf(c).asset = RecipientRequest(c).asset
         /\ EscrowOf(c).amount = RecipientRequest(c).amount
         /\ Tool(c) # "payRequest" => EscrowOf(c) \in Tx
<1>1. EscrowOf(c) = HashWithAsset(EscrowOf(c).secret, RecipientRequest(c).asset,
                                  RecipientRequest(c).amount)
  BY DEF EscrowOf, EscrowTx, EscrowTerms, Terms, HashWithAsset
<1>2. RecipientRequest(c).asset \in Asset /\ RecipientRequest(c).amount \in Amount
  BY CallFacts, TxFields
<1>3. /\ EscrowOf(c).asset = RecipientRequest(c).asset
      /\ EscrowOf(c).amount = RecipientRequest(c).amount
  BY <1>1 DEF HashWithAsset
<1>4. ASSUME Tool(c) # "payRequest" PROVE EscrowOf(c) \in Tx
  <2>1. EscrowOf(c).secret \in Secrets
    BY <1>4, EscrowSecretAssumption
  <2> QED
    BY <1>1, <1>2, <2>1, HashType
<1> QED
  BY <1>3, <1>4

LEMMA DepositedFacts ==
  ASSUME NEW c \in ToolCall
  PROVE  /\ Deposited(c) \in Tx
         /\ Deposited(c).secret \in Secrets /\ Deposited(c).asset \in Asset
         /\ Deposited(c).amount \in Amount /\ Deposited(c).amount \in Nat
<1>1. Deposited(c) \in Tx
  BY CallFacts, EscrowFacts DEF Deposited
<1> QED
  BY <1>1, TxFields

LEMMA SameArgs ==
  ASSUME NEW c \in ToolCall, NEW d \in ToolCall, Args[c] = Args[d]
  PROVE  /\ Agent(c) = Agent(d) /\ Tool(c) = Tool(d) /\ EscrowOf(c) = EscrowOf(d)
         /\ Deposited(c) = Deposited(d)
BY DEF Agent, Tool, EscrowOf, EscrowTerms, Deposited, CreatorRequest, RecipientRequest

-----------------------------------------------------------------------------
(* What the execution of a transaction does to the contracts.              *)

(* A deposit: its secret was not registered, and is.                       *)
DepositEffect(c) ==
  /\ IInv' /\ Conserves /\ AppendsFew
  /\ Leaves(txArray') = Leaves(txArray) \cup {Deposited(c)}
  /\ assets[Deposited(c).secret].amount = 0
  /\ assets' = [assets EXCEPT ![Deposited(c).secret] =
                  [amount |-> Deposited(c).amount, addr |-> Deposited(c).asset]]
  /\ Deposited(c).amount # 0
  /\ balance'[Deposited(c).asset][Agent(c)] + Deposited(c).amount =
       balance[Deposited(c).asset][Agent(c)]
  /\ \A asset \in Asset, user \in User :
       asset # Deposited(c).asset \/ user # Agent(c) =>
         balance'[asset][user] = balance[asset][user]
  /\ UNCHANGED <<nullified, consumed>>

(* What an approve leaves alone.                                           *)
ApproveEffect ==
  /\ IInv'
  /\ UNCHANGED <<txArray, merkleRoots, assets, nullified, balance, consumed>>

(* What is consumed is the escrow the call is about.                       *)
ClaimEffect(c) ==
  ConsumeEffect(EscrowOf(c), Args[c].blinding, CreatorRequest(c),
                RecipientRequest(c).secret)

LEMMA ExecuteApprove ==
  ASSUME IInv, NEW e \in Entry, e.step = "approve", Execute(e)
  PROVE  ApproveEffect
<1>1. e.call \in ToolCall
  BY DEF Entry
<1>2. /\ Approve(Agent(e.call), Deposited(e.call).asset, Deposited(e.call).amount)
      /\ UNCHANGED consumed
  BY DEF Execute
<1>3. IInv'
  BY <1>1, <1>2, CallFacts, DepositedFacts, ApproveStep
<1> QED
  BY <1>2, <1>3 DEF Approve, chamberVars, ApproveEffect

LEMMA ExecuteDeposit ==
  ASSUME IInv, NEW e \in Entry, e.step = "deposit", Execute(e)
  PROVE  DepositEffect(e.call)
<1> DEFINE c == e.call
           tx == Deposited(c)
<1>1. c \in ToolCall
  BY DEF Entry
<1>2. Deposit(Agent(c), tx.secret, tx.amount, tx.asset) /\ UNCHANGED consumed
  BY DEF Execute
<1>3. /\ tx \in Tx /\ tx.secret \in Secrets /\ tx.asset \in Asset
      /\ tx.amount \in Amount /\ tx.amount \in Nat
      /\ HashWithAsset(tx.secret, tx.asset, tx.amount) = tx
  BY <1>1, DepositedFacts, TxIsHash
<1>4. Agent(c) \in Address /\ Agent(c) # ChamberAddress /\ Agent(c) \in Account
  BY <1>1, CallFacts, AccountFacts
<1> HIDE DEF c, tx
<1>5. IInv' /\ Conserves
  BY <1>2, <1>3, <1>4, DepositStep
<1>6. AddNewTxs(<<tx>>)
  BY <1>2, <1>3 DEF Deposit
<1>7. Leaves(txArray') = Leaves(txArray) \cup {tx}
  <2>1. <<tx>> \in Seq(Tx)
    BY <1>3
  <2>2. Leaves(txArray') = Leaves(txArray) \cup Leaves(<<tx>>)
    BY <1>6, <2>1, AddNewTxsEffect
  <2>3. Leaves(<<tx>>) = {tx}
    BY LeavesOfShort
  <2> QED
    BY <2>2, <2>3
<1>8. AppendsFew
  BY <1>3, <1>6 DEF AddNewTxs, AppendsFew
<1>9. /\ balance'[tx.asset][Agent(c)] + tx.amount = balance[tx.asset][Agent(c)]
      /\ \A asset \in Asset, user \in User :
           asset # tx.asset \/ user # Agent(c) =>
             balance'[asset][user] = balance[asset][user]
  <2>1. Move(tx.asset, Agent(c), ChamberAddress, tx.amount)
    BY <1>2 DEF Deposit, TransferFrom
  <2>2. balance \in TokenType
    BY DEF IInv, TypeOK, TokenType
  <2>3. \A user \in User : user \in Account /\ user # ChamberAddress
    BY AccountFacts DEF User
  <2> QED
    BY <1>3, <1>4, <2>1, <2>2, <2>3, MoveEffect, AccountFacts
<1>10. /\ assets[tx.secret].amount = 0
       /\ assets' = [assets EXCEPT ![tx.secret] = [amount |-> tx.amount, addr |-> tx.asset]]
       /\ tx.amount # 0
       /\ UNCHANGED <<nullified, consumed>>
  BY <1>2, <1>3 DEF Deposit, CanDeposit
<1> QED
  BY <1>5, <1>7, <1>8, <1>9, <1>10 DEF DepositEffect, tx, c

LEMMA ExecuteConsume ==
  ASSUME IInv, NEW e \in Entry, e.step = "consume", Execute(e)
  PROVE  ClaimEffect(e.call)
<1> DEFINE c == e.call
           tx == EscrowOf(c)
           rs == RecipientRequest(c).secret
           amount == RecipientRequest(c).amount
<1>1. c \in ToolCall
  BY DEF Entry
<1>2. ConsumeEscrow(EscrowProofInput(c, e.root), EscrowTerms(c),
                    MistProofInput(c, e.root), tx)
  BY DEF Execute
<1>3. /\ tx \in Leaves(e.root) /\ e.root \in merkleRoots
  BY <1>2 DEF ConsumeEscrow, CanConsume, CanHandleZkp, MistProof, MistProofInput,
              ClaimInput, MistInput
<1>4. e.root \in Snapshots
  BY <1>3 DEF IInv, RootsAreSnapshots
<1>5. /\ rs \in Secrets /\ amount \in Nat /\ 0 \in Nat
      /\ 0 + amount <= tx.amount
  BY <1>1, CallFacts, EscrowFacts, TxFields
<1>6. Consumes(e.root, tx, Args[c].blinding, CreatorRequest(c), rs, EscrowAddress,
               RecipientRequest(c).asset, amount, rs, FALSE, 0, amount)
  BY <1>2 DEF Consumes, EscrowProofInput, MistProofInput, EscrowTerms
<1> HIDE DEF c, tx, rs, amount
<1>7. ConsumeEffect(tx, Args[c].blinding, CreatorRequest(c), rs)
  BY <1>3, <1>4, <1>5, <1>6, ConsumeParts, Zenon
<1> QED
  BY <1>7 DEF ClaimEffect, tx, rs, c

(* What every step of the flows leaves true of the contracts: the list and *)
(* the nullifiers only grow, by a transaction or two, and value is         *)
(* conserved.                                                              *)
ContractsAdvance ==
  /\ EInv' /\ AppendsFew
  /\ Leaves(txArray) \subseteq Leaves(txArray') /\ nullified \subseteq nullified'
  /\ Solvent => Solvent'

LEMMA ExecuteAdvances ==
  ASSUME EInv, NEW e \in Entry, Execute(e)
  PROVE  ContractsAdvance
<1> DEFINE c == e.call
<1>1. IInv /\ ConsumedIsSettled /\ c \in ToolCall
  BY DEF EInv, Entry
<1>2. CASE e.step = "approve"
  <2>1. ApproveEffect
    BY <1>1, <1>2, ExecuteApprove
  <2> QED
    BY <1>1, <2>1 DEF ApproveEffect, ContractsAdvance, EInv, ConsumedIsSettled,
                      Solvent, Unspent, AppendsFew
<1>3. CASE e.step = "deposit"
  <2>1. DepositEffect(c)
    BY <1>1, <1>3, ExecuteDeposit
  <2>2. /\ IInv' /\ Conserves /\ AppendsFew
        /\ Leaves(txArray) \subseteq Leaves(txArray')
        /\ UNCHANGED <<nullified, consumed>>
    BY <2>1 DEF DepositEffect
  <2>3. ConsumedIsSettled'
    BY <1>1, <2>2, SettledIsStable DEF ConsumedIsSettled
  <2>4. Solvent => Solvent'
    BY <1>1, <2>2, SolventStep
  <2> QED
    BY <2>2, <2>3, <2>4 DEF EInv, ContractsAdvance
<1>4. CASE e.step = "consume"
  <2> DEFINE tx == EscrowOf(c)
             rs == RecipientRequest(c).secret
             b  == Args[c].blinding
  <2>1. ConsumeEffect(tx, b, CreatorRequest(c), rs)
    BY <1>1, <1>4, ExecuteConsume DEF ClaimEffect
  <2>2. rs \in Secrets /\ b \in Blinding
    BY <1>1, CallFacts, TxFields
  <2> HIDE DEF c, tx, rs, b
  <2>3. /\ IInv' /\ Conserves /\ AppendsFew
        /\ tx \in Leaves(txArray)
        /\ Leaves(txArray) \subseteq Leaves(txArray')
        /\ nullified' = nullified \cup {NullifierOf(tx)}
        /\ consumed' = consumed \cup {NullifierOf(tx)}
    BY <2>1 DEF ConsumeEffect
  <2>4. Settled(tx, Leaves(txArray'))
    BY <2>1, <2>2, PaidIsSettled DEF ConsumeEffect
  <2>5. ConsumedIsSettled'
    <3> SUFFICES ASSUME NEW n \in consumed'
                 PROVE  /\ n \in nullified'
                        /\ \E t \in Leaves(txArray') :
                             n = NullifierOf(t) /\ Settled(t, Leaves(txArray'))
      BY DEF ConsumedIsSettled
    <3>1. CASE n = NullifierOf(tx)
      BY <2>3, <2>4, <3>1
    <3>2. CASE n \in consumed
      BY <1>1, <2>3, <3>2, SettledIsStable DEF ConsumedIsSettled
    <3> QED
      BY <2>3, <3>1, <3>2
  <2>6. Solvent => Solvent'
    BY <1>1, <2>3, SolventStep
  <2> QED
    BY <2>3, <2>5, <2>6 DEF EInv, ContractsAdvance
<1> QED
  BY <1>2, <1>3, <1>4 DEF Entry, Step

LEMMA ContractsIdle ==
  ASSUME EInv, UNCHANGED escrowVars
  PROVE  ContractsAdvance
<1>1. IInv'
  BY StutterStep DEF EInv, escrowVars
<1> QED
  BY <1>1 DEF EInv, escrowVars, vars, ConsumedIsSettled, ContractsAdvance, Solvent, Unspent,
              AppendsFew

-----------------------------------------------------------------------------
(* The queues of sent transactions.                                        *)

(* What SwapTypeOK says of one of the transactions.                        *)
EntryOK(agent, i) ==
  /\ mempool[agent][i] \in Entry /\ Agent(mempool[agent][i].call) = agent
  /\ mempool[agent][i].awaited =>
       /\ mempool[agent][i].step = pc[mempool[agent][i].call]
       /\ \A j \in 1..Len(mempool[agent]) :
            mempool[agent][j].call = mempool[agent][i].call
            /\ mempool[agent][j].awaited => j = i

QueuesOK == \A agent \in User : \A i \in 1..Len(mempool[agent]) : EntryOK(agent, i)

LEMMA SwapTypeParts ==
  /\ SwapTypeOK <=> /\ pc \in [ToolCall -> Where]
                    /\ faults \in 0..MaxFaults
                    /\ QueuesOK
  /\ SwapTypeOK' <=> /\ pc' \in [ToolCall -> Where]
                     /\ faults' \in 0..MaxFaults
                     /\ QueuesOK'
BY DEF SwapTypeOK, Where, QueuesOK, EntryOK

NotAwaited(c) ==
  \A agent \in User : \A i \in 1..Len(mempool[agent]) :
    mempool[agent][i].awaited => mempool[agent][i].call # c

(* A call that is not at a step that sends awaits nothing.                 *)
LEMMA NothingAwaited ==
  ASSUME QueuesOK, NEW c \in ToolCall, pc[c] \notin Step \/ ~Awaiting(c)
  PROVE  NotAwaited(c)
<1> SUFFICES ASSUME NEW agent \in User, NEW i \in 1..Len(mempool[agent]),
                    mempool[agent][i].awaited, mempool[agent][i].call = c
             PROVE  FALSE
  BY DEF NotAwaited
<1>1. EntryOK(agent, i)
  BY DEF QueuesOK
<1>2. agent = Agent(c) /\ mempool[agent][i].step = pc[c] /\ mempool[agent][i].step \in Step
  BY <1>1 DEF EntryOK, Entry
<1> QED
  BY <1>2 DEF Awaiting

(* Such a call moves without disturbing the queues.                        *)
LEMMA MoveKeepsQueues ==
  ASSUME QueuesOK, pc \in [ToolCall -> Where], NEW c \in ToolCall, NEW where \in Where,
         NotAwaited(c), GoTo(c, where), UNCHANGED mempool
  PROVE  QueuesOK' /\ pc' \in [ToolCall -> Where]
<1>1. pc' = [pc EXCEPT ![c] = where] /\ pc' \in [ToolCall -> Where]
  BY DEF GoTo
<1>2. ASSUME NEW agent \in User, NEW i \in 1..Len(mempool'[agent])
      PROVE  EntryOK(agent, i)'
  <2>1. EntryOK(agent, i)
    BY <1>2 DEF QueuesOK
  <2>2. mempool[agent][i].awaited => mempool[agent][i].call # c
    BY <1>2 DEF NotAwaited
  <2>3. mempool[agent][i].call \in ToolCall
    BY <2>1 DEF EntryOK, Entry
  <2> QED
    BY <1>1, <2>1, <2>2, <2>3 DEF EntryOK
<1> QED
  BY <1>1, <1>2 DEF QueuesOK

LEMMA SendKeepsQueues ==
  ASSUME QueuesOK, FlowTypeOK, NEW c \in ToolCall, pc[c] \in Step, ~Awaiting(c),
         NEW e, e = [call |-> c, step |-> pc[c], root |-> view[c], awaited |-> TRUE],
         mempool' = [mempool EXCEPT ![Agent(c)] = Append(@, e)],
         UNCHANGED pc
  PROVE  QueuesOK' /\ mempool' \in [User -> Seq(Entry)] /\ e \in Entry
<1> DEFINE a == Agent(c)
           old == mempool[a]
<1>1. e \in Entry
  BY DEF FlowTypeOK, Entry
<1>2. a \in User /\ old \in Seq(Entry) /\ Len(old) \in Nat
  BY CallFacts DEF FlowTypeOK
<1>3. /\ Append(old, e) \in Seq(Entry) /\ Len(Append(old, e)) = Len(old) + 1
      /\ \A i \in 1..Len(old) : Append(old, e)[i] = old[i]
      /\ Append(old, e)[Len(old) + 1] = e
  <2> HIDE DEF old
  <2> QED
    BY <1>1, <1>2, AppendProperties
<1>4. /\ mempool' \in [User -> Seq(Entry)]
      /\ mempool'[a] = Append(old, e)
      /\ \A agent \in User : agent # a => mempool'[agent] = mempool[agent]
  BY <1>2, <1>3 DEF FlowTypeOK
<1>5. ASSUME NEW agent \in User, NEW i \in 1..Len(mempool'[agent])
      PROVE  EntryOK(agent, i)'
  <2>1. CASE agent # a
    <3>1. mempool'[agent] = mempool[agent]
      BY <1>4, <2>1
    <3>2. EntryOK(agent, i)
      BY <3>1 DEF QueuesOK
    <3> QED
      BY <3>1, <3>2 DEF EntryOK
  <2>2. CASE agent = a /\ i <= Len(old)
    <3>1. i \in 1..Len(old) /\ EntryOK(a, i)
      BY <1>2, <1>5, <2>2 DEF QueuesOK
    <3>2. old[i].awaited => old[i].call # c
      BY <3>1 DEF Awaiting
    <3>3. mempool'[a][i] = old[i] /\ Len(mempool'[a]) = Len(old) + 1
      BY <1>3, <1>4, <3>1
    <3>4. \A j \in 1..(Len(old) + 1) :
            \/ j \in 1..Len(old) /\ mempool'[a][j] = old[j]
            \/ j = Len(old) + 1 /\ mempool'[a][j] = e
      BY <1>2, <1>3, <1>4
    <3>5. ASSUME NEW j \in 1..(Len(old) + 1), old[i].awaited,
                 mempool'[a][j].call = old[i].call, mempool'[a][j].awaited
          PROVE  j = i
      <4>1. mempool'[a][j] # e
        BY <3>2, <3>5
      <4> QED
        BY <3>1, <3>4, <3>5, <4>1 DEF EntryOK
    <3> QED
      BY <2>2, <3>1, <3>3, <3>5 DEF EntryOK
  <2>3. CASE agent = a /\ ~(i <= Len(old))
    <3>1. i = Len(old) + 1 /\ mempool'[a][i] = e /\ Len(mempool'[a]) = Len(old) + 1
      BY <1>2, <1>3, <1>4, <1>5, <2>3
    <3>2. ASSUME NEW j \in 1..(Len(old) + 1),
                 mempool'[a][j].call = c, mempool'[a][j].awaited
          PROVE  j = i
      <4>1. CASE j \in 1..Len(old)
        BY <1>3, <1>4, <3>2, <4>1 DEF Awaiting
      <4> QED
        BY <1>2, <3>1, <4>1
    <3> QED
      BY <1>1, <2>3, <3>1, <3>2 DEF EntryOK
  <2> QED
    BY <2>1, <2>2, <2>3
<1> QED
  BY <1>1, <1>4, <1>5 DEF QueuesOK

(* A call that throws forgets what it awaited.                             *)
LEMMA ThrowKeepsQueues ==
  ASSUME QueuesOK, FlowTypeOK, NEW c \in ToolCall, Throw(c)
  PROVE  /\ QueuesOK' /\ mempool' \in [User -> Seq(Entry)]
         /\ pc' \in [ToolCall -> Where]
         /\ \A agent \in User :
              /\ Len(mempool'[agent]) = Len(mempool[agent])
              /\ \A i \in 1..Len(mempool[agent]) :
                   /\ mempool'[agent][i].call = mempool[agent][i].call
                   /\ mempool'[agent][i].step = mempool[agent][i].step
<1> DEFINE a == Agent(c)
           old == mempool[a]
           new == [i \in 1..Len(old) |-> Forget(c, old[i])]
<1>1. a \in User /\ old \in Seq(Entry) /\ Len(old) \in Nat
  BY CallFacts DEF FlowTypeOK
<1>2. pc' = [pc EXCEPT ![c] = "failed"] /\ pc' \in [ToolCall -> Where]
  BY DEF Throw, GoTo, FlowTypeOK, Where
<1>3. ASSUME NEW e \in Entry
      PROVE  /\ Forget(c, e) \in Entry
             /\ Forget(c, e).call = e.call /\ Forget(c, e).step = e.step
             /\ Forget(c, e).awaited <=> e.awaited /\ e.call # c
  BY DEF Forget, Entry
<1>4. new \in Seq(Entry) /\ Len(new) = Len(old) /\ \A i \in 1..Len(old) : new[i] = Forget(c, old[i])
  <2>1. \A i \in 1..Len(old) : old[i] \in Entry
    BY <1>1
  <2>2. new \in [1..Len(old) -> Entry]
    BY <1>3, <2>1
  <2> HIDE DEF old
  <2> QED
    BY <1>1, <2>2
<1>5. /\ mempool' = [mempool EXCEPT ![a] = new]
      /\ mempool' \in [User -> Seq(Entry)]
      /\ mempool'[a] = new
      /\ \A agent \in User : agent # a => mempool'[agent] = mempool[agent]
  <2>1. mempool' = [mempool EXCEPT ![a] = new]
    BY DEF Throw
  <2> HIDE DEF new
  <2> QED
    BY <1>1, <1>4, <2>1 DEF FlowTypeOK
<1> HIDE DEF new
<1>6. ASSUME NEW agent \in User, NEW i \in 1..Len(mempool[agent])
      PROVE  /\ Len(mempool'[agent]) = Len(mempool[agent])
             /\ mempool'[agent][i] \in Entry
             /\ mempool'[agent][i].call = mempool[agent][i].call
             /\ mempool'[agent][i].step = mempool[agent][i].step
             /\ mempool'[agent][i].awaited <=>
                  mempool[agent][i].awaited /\ mempool[agent][i].call # c
  <2>1. EntryOK(agent, i)
    BY DEF QueuesOK
  <2>2. CASE agent = a
    <3>1. mempool'[a][i] = Forget(c, old[i]) /\ old[i] \in Entry
      BY <1>1, <1>4, <1>5, <2>2
    <3> QED
      BY <1>3, <1>4, <1>5, <2>2, <3>1
  <2>3. CASE agent # a
    <3>1. mempool'[agent] = mempool[agent]
      BY <1>5, <2>3
    <3> QED
      BY <2>1, <2>3, <3>1 DEF EntryOK
  <2> QED
    BY <2>2, <2>3
<1>7. \A agent \in User : Len(mempool'[agent]) = Len(mempool[agent])
  BY <1>4, <1>5
<1>8. ASSUME NEW agent \in User, NEW i \in 1..Len(mempool'[agent])
      PROVE  EntryOK(agent, i)'
  <2>1. i \in 1..Len(mempool[agent]) /\ EntryOK(agent, i)
    BY <1>7, <1>8 DEF QueuesOK
  <2>2. mempool[agent][i].call \in ToolCall
    BY <2>1 DEF EntryOK, Entry
  <2> QED
    BY <1>2, <1>6, <1>7, <2>1, <2>2 DEF EntryOK
<1> QED
  BY <1>2, <1>5, <1>6, <1>7, <1>8 DEF QueuesOK

(* The head of a queue leaves it, and moves the call that awaits it.       *)
LEMMA MineKeepsQueues ==
  ASSUME QueuesOK, FlowTypeOK, NEW agent \in User, Mine(agent)
  PROVE  /\ QueuesOK' /\ mempool' \in [User -> Seq(Entry)]
         /\ pc' \in [ToolCall -> Where]
         /\ Len(mempool[agent]) \in Nat /\ 1 \in 1..Len(mempool[agent])
         /\ Head(mempool[agent]) = mempool[agent][1]
         /\ EntryOK(agent, 1)
         /\ Len(mempool'[agent]) = Len(mempool[agent]) - 1
         /\ \A i \in 1..Len(mempool'[agent]) :
              i + 1 \in 1..Len(mempool[agent]) /\ mempool'[agent][i] = mempool[agent][i + 1]
         /\ \A other \in User : other # agent => mempool'[other] = mempool[other]
<1> DEFINE old == mempool[agent]
           e == Head(old)
<1>1. old \in Seq(Entry) /\ old # <<>> /\ Len(old) \in Nat /\ Len(old) # 0
  <2>1. old \in Seq(Entry) /\ old # <<>>
    BY DEF Mine, Mined, FlowTypeOK
  <2> HIDE DEF old
  <2> QED
    BY <2>1, EmptySeq
<1>2. 1 \in 1..Len(old) /\ e = old[1] /\ EntryOK(agent, 1)
  BY <1>1 DEF QueuesOK
<1>3. /\ Tail(old) \in Seq(Entry) /\ Len(Tail(old)) = Len(old) - 1
      /\ \A i \in 1..Len(Tail(old)) : Tail(old)[i] = old[i + 1]
  <2> HIDE DEF old
  <2> QED
    BY <1>1, HeadTailProperties
<1>4. /\ mempool' \in [User -> Seq(Entry)]
      /\ mempool'[agent] = Tail(old)
      /\ \A other \in User : other # agent => mempool'[other] = mempool[other]
  <2>1. mempool' = [mempool EXCEPT ![agent] = Tail(old)]
    BY DEF Mine, Mined
  <2> QED
    BY <1>3, <2>1 DEF FlowTypeOK
<1>5. /\ Len(mempool'[agent]) = Len(old) - 1
      /\ \A i \in 1..Len(mempool'[agent]) :
           i + 1 \in 1..Len(old) /\ mempool'[agent][i] = old[i + 1]
  BY <1>1, <1>3, <1>4
<1>6. /\ pc' \in [ToolCall -> Where]
      /\ \A d \in ToolCall : pc'[d] # pc[d] => d = e.call /\ e.awaited
  <2>1. e.call \in ToolCall /\ e.step \in Step
    BY <1>2 DEF EntryOK, Entry
  <2>2. After(e.call, e.step) \in Where
    BY <2>1 DEF After, Step, Where
  <2>3. pc' = IF e.awaited THEN [pc EXCEPT ![e.call] = After(e.call, e.step)] ELSE pc
    BY DEF Mine
  <2> QED
    BY <2>1, <2>2, <2>3 DEF FlowTypeOK
<1>7. ASSUME NEW other \in User, NEW i \in 1..Len(mempool'[other])
      PROVE  EntryOK(other, i)'
  <2>1. CASE other = agent
    <3>1. i + 1 \in 1..Len(old) /\ mempool'[agent][i] = old[i + 1]
      BY <1>5, <2>1
    <3>2. EntryOK(agent, i + 1)
      BY <3>1 DEF QueuesOK
    <3>3. old[i + 1].call \in ToolCall
      BY <3>2 DEF EntryOK, Entry
    <3>4. ASSUME old[i + 1].awaited PROVE pc'[old[i + 1].call] = pc[old[i + 1].call]
      <4>1. CASE e.awaited /\ e.call = old[i + 1].call
        <5>1. i + 1 = 1
          BY <1>2, <3>1, <3>4, <4>1 DEF EntryOK
        <5> QED
          BY <1>5, <2>1, <5>1
      <4> QED
        BY <1>6, <3>3, <4>1
    <3>5. ASSUME NEW j \in 1..Len(mempool'[agent]), old[i + 1].awaited,
                 mempool'[agent][j].call = old[i + 1].call, mempool'[agent][j].awaited
          PROVE  j = i
      <4>1. j + 1 \in 1..Len(old) /\ mempool'[agent][j] = old[j + 1]
        BY <1>5
      <4>2. j + 1 = i + 1
        BY <3>2, <3>5, <4>1 DEF EntryOK
      <4> QED
        BY <1>1, <1>5, <2>1, <4>2
    <3> QED
      BY <2>1, <3>1, <3>2, <3>4, <3>5 DEF EntryOK
  <2>2. CASE other # agent
    <3>1. mempool'[other] = mempool[other] /\ EntryOK(other, i)
      BY <1>4, <2>2 DEF QueuesOK
    <3>2. mempool[other][i].call \in ToolCall /\ mempool[other][i].call # e.call
      BY <1>2, <2>2, <3>1 DEF EntryOK, Entry
    <3> QED
      BY <1>6, <3>1, <3>2 DEF EntryOK
  <2> QED
    BY <2>1, <2>2
<1> QED
  BY <1>1, <1>2, <1>4, <1>5, <1>6, <1>7 DEF QueuesOK
-----------------------------------------------------------------------------
(* The invariant.                                                          *)

LEMMA InitSwapInv ==
  ASSUME SwapInit
  PROVE  SInv
<1>1. EInv
  BY InitInv DEF SwapInit, EscrowInit, EInv, ConsumedIsSettled
<1>2. \A agent \in User : mempool[agent] = <<>> /\ Len(mempool[agent]) = 0
  BY EmptySeq DEF SwapInit
<1>3. FlowTypeOK
  BY FaultAssumption DEF SwapInit, FlowTypeOK, Where
<1>4. QueuesOK
  BY <1>2 DEF QueuesOK
<1>5. OnlyClaimsConsume
  BY <1>2 DEF SwapInit, OnlyClaimsConsume
<1> QED
  BY <1>1, <1>3, <1>4, <1>5, SwapTypeParts DEF SInv, FlowTypeOK

(* A call moves on, or fails.                                              *)
LEMMA MoveStep ==
  ASSUME SInv, NEW c \in ToolCall, NEW where \in Where, NotAwaited(c), GoTo(c, where),
         UNCHANGED <<escrowVars, mempool>>,
         view' \in [ToolCall -> Seq(Tx)], faults' \in 0..MaxFaults,
         where \in {"check", "read", "consume"} => Tool(c) = "escrowClaim"
  PROVE  SInv' /\ ContractsAdvance
<1>1. EInv' /\ ContractsAdvance
  BY ContractsIdle DEF SInv, ContractsAdvance
<1>2. QueuesOK' /\ pc' \in [ToolCall -> Where]
  BY MoveKeepsQueues, SwapTypeParts DEF SInv
<1>3. FlowTypeOK' /\ SwapTypeOK'
  BY <1>2, SwapTypeParts DEF SInv, FlowTypeOK
<1>4. OnlyClaimsConsume'
  BY DEF SInv, OnlyClaimsConsume, FlowTypeOK, GoTo
<1> QED
  BY <1>1, <1>3, <1>4 DEF SInv

LEMMA StartStep ==
  ASSUME SInv, NEW c \in ToolCall, Start(c)
  PROVE  SInv' /\ ContractsAdvance
<1> DEFINE where == IF Tool(c) = "escrowClaim" THEN "check" ELSE "approve"
<1>1. QueuesOK /\ pc[c] \notin Step
  BY SwapTypeParts DEF SInv, Start, Step
<1>2. NotAwaited(c)
  BY <1>1, NothingAwaited
<1>3. /\ where \in Where
      /\ where \in {"check", "read", "consume"} => Tool(c) = "escrowClaim"
  BY DEF Where, Step
<1>4. GoTo(c, where) /\ UNCHANGED <<escrowVars, view, mempool, faults>>
  BY DEF Start
<1>5. view' \in [ToolCall -> Seq(Tx)] /\ faults' \in 0..MaxFaults
  BY <1>4 DEF SInv, FlowTypeOK
<1> HIDE DEF where
<1> QED
  BY <1>2, <1>3, <1>4, <1>5, MoveStep

LEMMA SubmitStep ==
  ASSUME SInv, NEW c \in ToolCall, Submit(c)
  PROVE  SInv' /\ ContractsAdvance
<1> DEFINE e == [call |-> c, step |-> pc[c], root |-> view[c], awaited |-> TRUE]
<1>1. /\ pc[c] \in Step /\ ~Awaiting(c)
      /\ UNCHANGED <<escrowVars, view, faults>>
      /\ \/ /\ mempool' = [mempool EXCEPT ![Agent(c)] = Append(@, e)]
            /\ UNCHANGED pc
         \/ GoTo(c, "failed") /\ UNCHANGED mempool
  BY DEF Submit
<1>2. QueuesOK /\ FlowTypeOK /\ OnlyClaimsConsume /\ EInv
  BY SwapTypeParts DEF SInv
<1>3. CASE GoTo(c, "failed") /\ UNCHANGED mempool
  <2>1. NotAwaited(c)
    BY <1>1, <1>2, NothingAwaited
  <2>2. "failed" \in Where /\ view' \in [ToolCall -> Seq(Tx)] /\ faults' \in 0..MaxFaults
    BY <1>1, <1>2 DEF FlowTypeOK, Where
  <2> QED
    BY <1>1, <1>3, <2>1, <2>2, MoveStep
<1>4. CASE /\ mempool' = [mempool EXCEPT ![Agent(c)] = Append(@, e)]
           /\ UNCHANGED pc
  <2>1. QueuesOK' /\ mempool' \in [User -> Seq(Entry)] /\ e \in Entry
    <3> HIDE DEF e
    <3>1. e = [call |-> c, step |-> pc[c], root |-> view[c], awaited |-> TRUE]
      BY DEF e
    <3> QED
      BY <1>1, <1>2, <1>4, <3>1, SendKeepsQueues
  <2>2. EInv' /\ ContractsAdvance
    BY <1>1, <1>2, ContractsIdle DEF ContractsAdvance
  <2>3. FlowTypeOK' /\ SwapTypeOK'
    BY <1>1, <1>2, <1>4, <2>1, SwapTypeParts DEF FlowTypeOK
  <2>4. OnlyClaimsConsume'
    <3>1. e.step = "consume" => Tool(e.call) = "escrowClaim"
      BY <1>2 DEF OnlyClaimsConsume
    <3>2. ASSUME NEW agent \in User, NEW i \in 1..Len(mempool'[agent]),
                 mempool'[agent][i].step = "consume"
          PROVE  Tool(mempool'[agent][i].call) = "escrowClaim"
      <4>1. mempool[agent] \in Seq(Entry)
        BY <1>2 DEF FlowTypeOK
      <4>2. CASE agent # Agent(c)
        BY <1>2, <1>4, <3>2, <4>2 DEF FlowTypeOK, OnlyClaimsConsume
      <4>3. CASE agent = Agent(c)
        <5>1. mempool'[agent] = Append(mempool[agent], e)
          BY <1>2, <1>4, <4>3 DEF FlowTypeOK
        <5>2. \/ i \in 1..Len(mempool[agent]) /\ mempool'[agent][i] = mempool[agent][i]
              \/ mempool'[agent][i] = e
          BY <2>1, <3>2, <4>1, <5>1, AppendProperties
        <5> QED
          BY <1>2, <3>1, <3>2, <5>2 DEF OnlyClaimsConsume
      <4> QED
        BY <4>2, <4>3
    <3> QED
      BY <1>2, <1>4, <3>2 DEF OnlyClaimsConsume
  <2> QED
    BY <2>2, <2>3, <2>4 DEF SInv
<1> QED
  BY <1>1, <1>3, <1>4

(* What a node answers with is an older list, or the one of now.           *)
LEMMA AnswerFacts ==
  ASSUME SInv, NEW list \in Lists, Answer(list)
  PROVE  list \in Seq(Tx) /\ Leaves(list) \subseteq Leaves(txArray) /\ faults' \in 0..MaxFaults
<1>1. txArray \in Seq(Tx) /\ Len(txArray) \in Nat
  BY DEF SInv, EInv, IInv, TypeOK
<1>2. PICK n \in 0..Len(txArray) : list = SubSeq(txArray, 1, n)
  BY DEF Lists
<1>3. \A i \in 1..n : txArray[i] \in Tx
  BY <1>1
<1>4. list \in Seq(Tx)
  BY <1>1, <1>2, <1>3, SubSeqProperties
<1>5. Leaves(list) \subseteq Leaves(txArray)
  BY <1>1, <1>2, PrefixLeaves
<1>6. faults' \in 0..MaxFaults
  BY FaultAssumption DEF SInv, FlowTypeOK, Answer
<1> QED
  BY <1>4, <1>5, <1>6

LEMMA CheckStep ==
  ASSUME SInv, NEW c \in ToolCall, CheckEscrow(c)
  PROVE  /\ SInv' /\ ContractsAdvance
         /\ pc'[c] \in {"approve", "failed"}
         /\ pc'[c] = "approve" => EscrowOf(c) \in Leaves(txArray)
<1>1. /\ pc[c] = "check"
      /\ UNCHANGED <<escrowVars, view, mempool>>
  BY DEF CheckEscrow
<1>2. PICK list \in Lists :
        /\ Answer(list)
        /\ GoTo(c, IF EscrowOf(c) \in Leaves(list) THEN "approve" ELSE "failed")
  BY DEF CheckEscrow
<1> DEFINE where == IF EscrowOf(c) \in Leaves(list) THEN "approve" ELSE "failed"
<1>3. /\ where \in Where /\ where \notin {"check", "read", "consume"}
      /\ where \in {"approve", "failed"}
      /\ where = "approve" => EscrowOf(c) \in Leaves(list)
  BY DEF Where, Step
<1>4. GoTo(c, where)
  BY <1>2
<1>5. /\ Leaves(list) \subseteq Leaves(txArray) /\ faults' \in 0..MaxFaults
      /\ view' \in [ToolCall -> Seq(Tx)]
  BY <1>1, <1>2, AnswerFacts DEF SInv, FlowTypeOK
<1>6. QueuesOK /\ pc[c] \notin Step
  BY <1>1, SwapTypeParts DEF SInv, Step
<1>7. NotAwaited(c)
  BY <1>6, NothingAwaited
<1>8. pc'[c] = where
  BY <1>4 DEF GoTo, SInv, FlowTypeOK
<1> HIDE DEF where
<1>9. SInv' /\ ContractsAdvance
  BY <1>1, <1>3, <1>4, <1>5, <1>7, MoveStep
<1> QED
  BY <1>3, <1>5, <1>8, <1>9

LEMMA ReadStep ==
  ASSUME SInv, NEW c \in ToolCall, Read(c)
  PROVE  SInv' /\ ContractsAdvance
<1>1. pc[c] = "read" /\ UNCHANGED <<escrowVars, mempool>>
  BY DEF Read
<1>2. PICK list \in Lists :
        /\ Answer(list)
        /\ \/ view' = [view EXCEPT ![c] = list] /\ GoTo(c, "consume")
           \/ GoTo(c, "failed") /\ UNCHANGED view
  BY DEF Read
<1>3. list \in Seq(Tx) /\ faults' \in 0..MaxFaults
  BY <1>2, AnswerFacts
<1>4. view' \in [ToolCall -> Seq(Tx)]
  BY <1>2, <1>3 DEF SInv, FlowTypeOK
<1>5. QueuesOK /\ pc[c] \notin Step /\ Tool(c) = "escrowClaim"
  BY <1>1, SwapTypeParts DEF SInv, Step, OnlyClaimsConsume
<1>6. NotAwaited(c)
  BY <1>5, NothingAwaited
<1>7. "consume" \in Where /\ "failed" \in Where
  BY DEF Where, Step
<1> QED
  BY <1>1, <1>2, <1>3, <1>4, <1>5, <1>6, <1>7, MoveStep

LEMMA ThrowStep ==
  ASSUME SInv, NEW c \in ToolCall, Throw(c)
  PROVE  SInv' /\ ContractsAdvance
<1>1. QueuesOK /\ FlowTypeOK /\ OnlyClaimsConsume /\ EInv
  BY SwapTypeParts DEF SInv
<1>2. /\ UNCHANGED <<escrowVars, view>>
      /\ faults < MaxFaults /\ faults' = faults + 1 /\ GoTo(c, "failed")
  BY DEF Throw
<1>3. /\ QueuesOK' /\ mempool' \in [User -> Seq(Entry)]
      /\ pc' \in [ToolCall -> Where]
      /\ \A agent \in User :
           /\ Len(mempool'[agent]) = Len(mempool[agent])
           /\ \A i \in 1..Len(mempool[agent]) :
                /\ mempool'[agent][i].call = mempool[agent][i].call
                /\ mempool'[agent][i].step = mempool[agent][i].step
  BY <1>1, ThrowKeepsQueues
<1>4. EInv' /\ ContractsAdvance
  BY <1>1, <1>2, ContractsIdle DEF ContractsAdvance
<1>5. FlowTypeOK' /\ SwapTypeOK'
  <2>1. faults' \in 0..MaxFaults
    BY <1>1, <1>2, FaultAssumption DEF FlowTypeOK
  <2> QED
    BY <1>1, <1>2, <1>3, <2>1, SwapTypeParts DEF FlowTypeOK
<1>6. OnlyClaimsConsume'
  BY <1>1, <1>2, <1>3 DEF OnlyClaimsConsume, FlowTypeOK, GoTo
<1> QED
  BY <1>4, <1>5, <1>6 DEF SInv

LEMMA MineStep ==
  ASSUME SInv, NEW agent \in User, Mine(agent)
  PROVE  SInv' /\ ContractsAdvance
<1> DEFINE e == Head(mempool[agent])
<1>1. QueuesOK /\ FlowTypeOK /\ OnlyClaimsConsume /\ EInv
  BY SwapTypeParts DEF SInv
<1>2. /\ QueuesOK' /\ mempool' \in [User -> Seq(Entry)]
      /\ pc' \in [ToolCall -> Where]
      /\ 1 \in 1..Len(mempool[agent])
      /\ e = mempool[agent][1]
      /\ EntryOK(agent, 1)
      /\ \A i \in 1..Len(mempool'[agent]) :
           i + 1 \in 1..Len(mempool[agent]) /\ mempool'[agent][i] = mempool[agent][i + 1]
      /\ \A other \in User : other # agent => mempool'[other] = mempool[other]
  BY <1>1, MineKeepsQueues
<1>3. e \in Entry
  BY <1>2 DEF EntryOK
<1>4. /\ Execute(e) \/ UNCHANGED escrowVars
      /\ pc' = IF e.awaited THEN [pc EXCEPT ![e.call] = After(e.call, e.step)] ELSE pc
      /\ UNCHANGED <<view, faults>>
  BY DEF Mine
<1> HIDE DEF e
<1>5. EInv' /\ ContractsAdvance
  BY <1>1, <1>3, <1>4, ExecuteAdvances, ContractsIdle DEF ContractsAdvance
<1>6. FlowTypeOK' /\ SwapTypeOK'
  BY <1>1, <1>2, <1>4, SwapTypeParts DEF FlowTypeOK
<1>7. OnlyClaimsConsume'
  <2>1. ASSUME NEW c \in ToolCall, pc'[c] \in {"check", "read", "consume"}
        PROVE  Tool(c) = "escrowClaim"
    BY <1>1, <1>3, <1>4, <2>1 DEF OnlyClaimsConsume, FlowTypeOK, Entry, After, Step
  <2>2. ASSUME NEW other \in User, NEW i \in 1..Len(mempool'[other]),
               mempool'[other][i].step = "consume"
        PROVE  Tool(mempool'[other][i].call) = "escrowClaim"
    BY <1>1, <1>2, <2>2 DEF OnlyClaimsConsume
  <2> QED
    BY <2>1, <2>2 DEF OnlyClaimsConsume
<1> QED
  BY <1>5, <1>6, <1>7 DEF SInv

LEMMA IdleStep ==
  ASSUME SInv, UNCHANGED swapVars
  PROVE  SInv' /\ ContractsAdvance
<1>1. UNCHANGED escrowVars /\ UNCHANGED <<pc, view, mempool, faults>>
  BY DEF swapVars, flowVars
<1>2. EInv' /\ ContractsAdvance
  BY <1>1, ContractsIdle DEF SInv, ContractsAdvance
<1> QED
  BY <1>1, <1>2 DEF SInv, FlowTypeOK, SwapTypeOK, OnlyClaimsConsume

LEMMA SwapStep ==
  ASSUME SInv, [SwapNext]_swapVars
  PROVE  SInv' /\ ContractsAdvance
BY StartStep, SubmitStep, CheckStep, ReadStep, ThrowStep, MineStep, IdleStep
   DEF SwapNext, Proceed

(* The inductive invariant holds in every reachable state of the flows:    *)
(* that of the contracts below them, too.                                  *)
THEOREM SwapInvariance == SwapSpec => []SInv
<1>1. SwapInit => SInv
  BY InitSwapInv
<1>2. SInv /\ [SwapNext]_swapVars => SInv'
  BY SwapStep
<1> QED
  BY <1>1, <1>2, PTL DEF SwapSpec

(* The receipt of a transaction moves the tool call that sent it, from the *)
(* step it was sent at, or none: not a later call of the same tool.        *)
THEOREM SwapTypeCorrect == SwapSpec => []SwapTypeOK
<1>1. SInv => SwapTypeOK
  BY DEF SInv
<1> QED
  BY <1>1, SwapInvariance, PTL

(* Whatever the agents' tools do, Chamber stays solvent, and an escrow is  *)
(* consumed on its terms only.                                             *)
THEOREM SwapsAreSafe == SwapSpec => [](Solvent /\ ConsumedIsSettled)
<1>1. SwapInit => Solvent
  BY InitSolvent DEF SwapInit, EscrowInit
<1>2. SInv /\ Solvent /\ [SwapNext]_swapVars => Solvent'
  BY SwapStep DEF ContractsAdvance
<1>3. SInv => ConsumedIsSettled
  BY DEF SInv, EInv
<1> QED
  BY <1>1, <1>2, <1>3, SwapInvariance, PTL DEF SwapSpec

(* The agents' tools use the list of transactions as the log it is: it     *)
(* only grows, with every root it had (Chamber._addNewTx).                 *)
THEOREM SwapsImplementLog == SwapSpec => ImplementsAccumulator
<1>1. SwapInit => Log!Init
  BY DEF SwapInit, EscrowInit, Init, Log!Init
<1>2. SInv /\ [SwapNext]_swapVars => [Log!Extend]_<<txArray, merkleRoots>>
  BY SwapStep, FewExtendLog DEF ContractsAdvance, SInv, EInv
<1> QED
  BY <1>1, <1>2, SwapInvariance, PTL DEF SwapSpec, ImplementsAccumulator, Log!Spec

-----------------------------------------------------------------------------
(* Every payment is made once.                                             *)

LEMMA MineEffect ==
  ASSUME SInv, NEW agent \in User, Mine(agent)
  PROVE  \/ UNCHANGED <<txArray, assets, balance>>
         \/ \E c \in ToolCall : HasSent(c) /\ DepositEffect(c)
         \/ \E c \in ToolCall : Tool(c) = "escrowClaim" /\ ClaimEffect(c)
<1> DEFINE e == Head(mempool[agent])
<1>1. QueuesOK /\ FlowTypeOK /\ OnlyClaimsConsume /\ IInv
  BY SwapTypeParts DEF SInv, EInv
<1>2. 1 \in 1..Len(mempool[agent]) /\ e = mempool[agent][1] /\ EntryOK(agent, 1)
  BY <1>1, MineKeepsQueues
<1>3. Execute(e) \/ UNCHANGED escrowVars
  BY DEF Mine
<1>4. e \in Entry /\ e.call \in ToolCall /\ e.step \in Step /\ HasSent(e.call)
  BY <1>2 DEF EntryOK, Entry, HasSent
<1> HIDE DEF e
<1>5. CASE UNCHANGED escrowVars
  BY <1>5 DEF escrowVars, vars
<1>6. CASE Execute(e) /\ e.step = "approve"
  BY <1>1, <1>4, <1>6, ExecuteApprove DEF ApproveEffect
<1>7. CASE Execute(e) /\ e.step = "deposit"
  BY <1>1, <1>4, <1>7, ExecuteDeposit
<1>8. CASE Execute(e) /\ e.step = "consume"
  <2>1. Tool(e.call) = "escrowClaim"
    BY <1>1, <1>2, <1>8 DEF OnlyClaimsConsume
  <2> QED
    BY <1>1, <1>4, <1>8, <2>1, ExecuteConsume
<1> QED
  BY <1>3, <1>4, <1>5, <1>6, <1>7, <1>8 DEF Step

(* A step pays nothing, makes one deposit, or consumes one escrow.         *)
LEMMA StepEffect ==
  ASSUME SInv, [SwapNext]_swapVars
  PROVE  \/ UNCHANGED <<txArray, assets, balance>>
         \/ \E c \in ToolCall : HasSent(c) /\ DepositEffect(c)
         \/ \E c \in ToolCall : Tool(c) = "escrowClaim" /\ ClaimEffect(c)
<1>1. CASE \E agent \in User : Mine(agent)
  BY <1>1, MineEffect
<1>2. CASE UNCHANGED escrowVars
  BY <1>2 DEF escrowVars, vars
<1> QED
  BY <1>1, <1>2 DEF SwapNext, Proceed, Start, Submit, CheckEscrow, Read, Throw, swapVars

(* What consumeEscrow appends is none of the transactions that the tools   *)
(* deposit.                                                                *)
LEMMA ClaimDepositsNothing ==
  ASSUME RequestsAreSeparate, NEW c \in ToolCall, Tool(c) = "escrowClaim", ClaimEffect(c),
         NEW d \in ToolCall
  PROVE  Deposited(d) \in Leaves(txArray') <=> Deposited(d) \in Leaves(txArray)
<1> DEFINE rs == RecipientRequest(c).secret
           tx == EscrowOf(c)
<1>1. Leaves(txArray') = Leaves(txArray) \cup
        {HashWithAsset(rs, tx.asset, tx.amount), HashWithAsset(rs, tx.asset, 0)}
  BY DEF ClaimEffect, ConsumeEffect
<1>2. Deposited(d).secret # rs
  BY DEF RequestsAreSeparate
<1>3. \A amount : HashWithAsset(rs, tx.asset, amount).secret = rs
  BY DEF HashWithAsset
<1> HIDE DEF rs, tx
<1> QED
  BY <1>1, <1>2, <1>3

(* Deposits that have the transaction in common are made by one agent.     *)
LEMMA DepositsAreSeparate ==
  ASSUME RequestsAreSeparate, NEW c \in ToolCall, NEW d \in ToolCall,
         Deposited(c).secret = Deposited(d).secret
  PROVE  Agent(c) = Agent(d) /\ Tool(c) = Tool(d)
         /\ Deposited(c) = Deposited(d) /\ EscrowOf(c) = EscrowOf(d)
BY SameArgs DEF RequestsAreSeparate

LEMMA PaidFacts ==
  ASSUME SInv, NEW agent, NEW asset
  PROVE  /\ IsFiniteSet(Paid(agent, asset))
         /\ \A tx \in Paid(agent, asset) : tx.amount \in Nat
<1>1. txArray \in Seq(Tx)
  BY DEF SInv, EInv, IInv, TypeOK
<1>2. Paid(agent, asset) \subseteq Leaves(txArray)
  BY DEF Paid
<1>3. IsFiniteSet(Leaves(txArray)) /\ Leaves(txArray) \subseteq Tx
  BY <1>1, LeavesAreFinite, LeavesAreTxs
<1>4. IsFiniteSet(Paid(agent, asset))
  BY <1>2, <1>3, FS_Subset
<1> QED
  BY <1>2, <1>3, <1>4, TxFields

PayInv == DepositsAreRegistered /\ PaysOnce

LEMMA DepositPays ==
  ASSUME RequestsAreSeparate, SInv, PayInv, NEW c \in ToolCall, DepositEffect(c)
  PROVE  PayInv'
<1> DEFINE tx == Deposited(c)
<1>1. /\ tx \in Tx /\ tx.secret \in Secrets /\ tx.asset \in Asset /\ tx.amount \in Nat
      /\ Agent(c) \in User
  BY DepositedFacts, CallFacts
<1>2. /\ Leaves(txArray') = Leaves(txArray) \cup {tx}
      /\ assets[tx.secret].amount = 0
      /\ assets' = [assets EXCEPT ![tx.secret] = [amount |-> tx.amount, addr |-> tx.asset]]
      /\ tx.amount # 0
      /\ balance'[tx.asset][Agent(c)] + tx.amount = balance[tx.asset][Agent(c)]
      /\ \A asset \in Asset, user \in User :
           asset # tx.asset \/ user # Agent(c) =>
             balance'[asset][user] = balance[asset][user]
      /\ IInv'
  BY DEF DepositEffect
<1>3. tx \notin Leaves(txArray)
  BY <1>2 DEF PayInv, DepositsAreRegistered
<1>4. /\ assets \in [Secrets -> [amount : Amount, addr : Asset \cup {NoAsset}]]
      /\ balance \in [Asset -> [Account -> Nat]]
      /\ balance' \in [Asset -> [Account -> Nat]]
  BY <1>2 DEF SInv, EInv, IInv, TypeOK
<1>5. DepositsAreRegistered'
  <2> SUFFICES ASSUME NEW d \in ToolCall, Deposited(d) \in Leaves(txArray')
               PROVE  assets'[Deposited(d).secret].amount # 0
    BY DEF DepositsAreRegistered
  <2>1. Deposited(d).secret \in Secrets
    BY DepositedFacts
  <2>2. CASE Deposited(d).secret = tx.secret
    BY <1>1, <1>2, <1>4, <2>2
  <2>3. CASE Deposited(d).secret # tx.secret
    <3>1. Deposited(d) \in Leaves(txArray)
      BY <1>2, <2>3
    <3>2. assets[Deposited(d).secret].amount # 0
      BY <3>1 DEF PayInv, DepositsAreRegistered
    <3> QED
      BY <1>1, <1>2, <1>4, <2>1, <2>3, <3>2
  <2> QED
    BY <2>2, <2>3
<1>6. ASSUME NEW agent \in User, NEW asset \in Asset
      PROVE  balance'[asset][agent] + Total(Paid(agent, asset)') = InitialBalance[asset][agent]
  <2>1. balance[asset][agent] + Total(Paid(agent, asset)) = InitialBalance[asset][agent]
    BY DEF PayInv, PaysOnce
  <2>2. /\ IsFiniteSet(Paid(agent, asset))
        /\ \A t \in Paid(agent, asset) : t.amount \in Nat
        /\ Total(Paid(agent, asset)) \in Nat
    BY PaidFacts, TotalType
  <2>3. CASE agent = Agent(c) /\ asset = tx.asset
    <3>1. Paid(agent, asset)' = Paid(agent, asset) \cup {tx}
      BY <1>2, <2>3 DEF Paid
    <3>2. tx \notin Paid(agent, asset)
      BY <1>3 DEF Paid
    <3>3. Total(Paid(agent, asset)') = Total(Paid(agent, asset)) + tx.amount
      BY <1>1, <2>2, <3>1, <3>2, TotalAdd
    <3>4. balance[asset][agent] \in Nat /\ balance'[asset][agent] \in Nat
      BY <1>1, <1>4, <2>3, AccountFacts DEF User
    <3> QED
      BY <1>1, <1>2, <2>1, <2>2, <2>3, <3>3, <3>4
  <2>4. CASE ~(agent = Agent(c) /\ asset = tx.asset)
    <3>1. ASSUME NEW d \in ToolCall, Agent(d) = agent, Deposited(d).asset = asset
          PROVE  Deposited(d) # tx
      BY <2>4, <3>1, DepositsAreSeparate
    <3>2. Paid(agent, asset)' = Paid(agent, asset)
      BY <1>2, <3>1 DEF Paid
    <3>3. balance'[asset][agent] = balance[asset][agent]
      BY <1>2, <2>4
    <3> QED
      BY <2>1, <3>2, <3>3
  <2> QED
    BY <2>3, <2>4
<1> QED
  BY <1>5, <1>6 DEF PayInv, PaysOnce

LEMMA ClaimPaysNothing ==
  ASSUME RequestsAreSeparate, PayInv, NEW c \in ToolCall, Tool(c) = "escrowClaim",
         ClaimEffect(c)
  PROVE  PayInv'
<1>1. UNCHANGED <<assets, balance>>
  BY DEF ClaimEffect, ConsumeEffect
<1>2. \A d \in ToolCall : Deposited(d) \in Leaves(txArray') <=> Deposited(d) \in Leaves(txArray)
  BY ClaimDepositsNothing
<1>3. DepositsAreRegistered'
  BY <1>1, <1>2 DEF PayInv, DepositsAreRegistered
<1>4. \A agent, asset : Paid(agent, asset)' = Paid(agent, asset)
  BY <1>2 DEF Paid
<1> QED
  BY <1>1, <1>3, <1>4 DEF PayInv, PaysOnce

LEMMA PayStep ==
  ASSUME RequestsAreSeparate, SInv, PayInv, [SwapNext]_swapVars
  PROVE  PayInv'
<1>1. CASE UNCHANGED <<txArray, assets, balance>>
  BY <1>1 DEF PayInv, DepositsAreRegistered, PaysOnce, Paid
<1> QED
  BY <1>1, StepEffect, DepositPays, ClaimPaysNothing

LEMMA InitPay ==
  ASSUME SwapInit
  PROVE  PayInv
<1>1. Leaves(txArray) = {}
  BY EmptySeq DEF SwapInit, EscrowInit, Init, Leaves
<1>2. ASSUME NEW agent \in User, NEW asset \in Asset
      PROVE  balance[asset][agent] + Total(Paid(agent, asset)) = InitialBalance[asset][agent]
  <2>1. Paid(agent, asset) = {}
    BY <1>1 DEF Paid
  <2>2. agent \in Address /\ agent \in Account /\ agent # ChamberAddress
    BY AccountFacts DEF User
  <2>3. balance[asset][agent] = InitialBalance[asset][agent]
    BY <2>2 DEF SwapInit, EscrowInit, Init
  <2>4. InitialBalance[asset][agent] \in Nat
    BY <2>2, BalanceAssumption
  <2> QED
    BY <2>1, <2>3, <2>4, TotalEmpty
<1> QED
  BY <1>1, <1>2 DEF PayInv, DepositsAreRegistered, PaysOnce

(* If the requests are separate, what an agent has paid of a token is the  *)
(* sum of the requests and escrows it paid for, each counted once, however *)
(* often a tool call failed, was made again, or was overtaken by another.  *)
THEOREM PaidOnce ==
  ASSUME RequestsAreSeparate
  PROVE  SwapSpec => []PaysOnce
<1>1. SwapInit => PayInv
  BY InitPay
<1>2. SInv /\ PayInv /\ [SwapNext]_swapVars => PayInv'
  BY PayStep
<1>3. PayInv => PaysOnce
  BY DEF PayInv
<1> QED
  BY <1>1, <1>2, <1>3, SwapInvariance, PTL DEF SwapSpec

-----------------------------------------------------------------------------
(* Only funded escrows are paid for.                                       *)

LEMMA SubmitChecked ==
  ASSUME SInv, ClaimsAreChecked, NEW c \in ToolCall, Submit(c)
  PROVE  ClaimsAreChecked'
<1>1. /\ pc[c] \in Step /\ UNCHANGED txArray
      /\ \A d \in ToolCall : d # c => pc'[d] = pc[d]
      /\ pc'[c] \in {pc[c], "failed"}
      /\ \/ UNCHANGED mempool
         \/ \E e : e.call = c /\ mempool' = [mempool EXCEPT ![Agent(c)] = Append(@, e)]
  BY DEF Submit, escrowVars, vars, GoTo, SInv, FlowTypeOK
<1>2. ASSUME NEW d \in ToolCall, d # c, HasSent(d)'
      PROVE  HasSent(d)
  <2>1. CASE UNCHANGED mempool
    BY <1>2, <2>1 DEF HasSent
  <2>2. CASE ~ UNCHANGED mempool
    <3>1. PICK e : e.call = c /\ mempool' = [mempool EXCEPT ![Agent(c)] = Append(@, e)]
      BY <1>1, <2>2
    <3>2. mempool \in [User -> Seq(Entry)] /\ Agent(d) \in User /\ Agent(c) \in User
      BY CallFacts DEF SInv, FlowTypeOK
    <3>3. PICK i \in 1..Len(mempool'[Agent(d)]) : mempool'[Agent(d)][i].call = d
      BY <1>2 DEF HasSent
    <3>4. CASE Agent(d) = Agent(c)
      <4>1. mempool[Agent(d)] \in Seq(Entry) /\ mempool'[Agent(d)] = Append(mempool[Agent(d)], e)
        BY <3>1, <3>2, <3>4
      <4>2. \/ i \in 1..Len(mempool[Agent(d)]) /\ mempool'[Agent(d)][i] = mempool[Agent(d)][i]
            \/ mempool'[Agent(d)][i] = e
        BY <3>3, <4>1
      <4> QED
        BY <1>2, <3>1, <3>3, <4>2 DEF HasSent
    <3>5. CASE Agent(d) # Agent(c)
      BY <3>1, <3>2, <3>3, <3>5 DEF HasSent
    <3> QED
      BY <3>4, <3>5
  <2> QED
    BY <2>1, <2>2
<1> QED
  BY <1>1, <1>2 DEF ClaimsAreChecked

LEMMA MineChecked ==
  ASSUME SInv, ClaimsAreChecked, NEW agent \in User, Mine(agent)
  PROVE  ClaimsAreChecked'
<1> DEFINE e == Head(mempool[agent])
<1>1. QueuesOK /\ FlowTypeOK
  BY SwapTypeParts DEF SInv
<1>2. /\ 1 \in 1..Len(mempool[agent])
      /\ e = mempool[agent][1]
      /\ EntryOK(agent, 1)
      /\ \A i \in 1..Len(mempool'[agent]) :
           i + 1 \in 1..Len(mempool[agent]) /\ mempool'[agent][i] = mempool[agent][i + 1]
      /\ \A other \in User : other # agent => mempool'[other] = mempool[other]
  BY <1>1, MineKeepsQueues
<1>3. Leaves(txArray) \subseteq Leaves(txArray')
  BY MineStep DEF ContractsAdvance
<1>4. e.call \in ToolCall /\ HasSent(e.call)
  BY <1>2 DEF EntryOK, Entry, HasSent
<1>5. \A d \in ToolCall : pc'[d] # pc[d] => d = e.call
  BY <1>1, <1>4 DEF Mine, FlowTypeOK
<1> HIDE DEF e
<1>6. \A d \in ToolCall : HasSent(d)' => HasSent(d)
  BY <1>2, CallFacts DEF HasSent
<1> QED
  BY <1>3, <1>4, <1>5, <1>6 DEF ClaimsAreChecked

LEMMA CheckedStep ==
  ASSUME SInv, ClaimsAreChecked, [SwapNext]_swapVars
  PROVE  ClaimsAreChecked'
<1>1. FlowTypeOK /\ QueuesOK
  BY SwapTypeParts DEF SInv
<1>2. ASSUME NEW c \in ToolCall, Start(c) \/ Read(c) PROVE ClaimsAreChecked'
  <2>1. UNCHANGED <<txArray, mempool>>
    BY <1>2 DEF Start, Read, escrowVars, vars
  <2>2. \A d \in ToolCall : d # c => pc'[d] = pc[d]
    BY <1>1, <1>2 DEF Start, Read, GoTo, FlowTypeOK
  <2>3. Tool(c) = "escrowClaim" => pc[c] = "read" \/ pc'[c] = "check"
    BY <1>1, <1>2 DEF Start, Read, GoTo, FlowTypeOK
  <2> QED
    BY <2>1, <2>2, <2>3 DEF ClaimsAreChecked, HasSent, Step
<1>3. ASSUME NEW c \in ToolCall, CheckEscrow(c) PROVE ClaimsAreChecked'
  <2>1. UNCHANGED <<txArray, mempool>>
    BY <1>3 DEF CheckEscrow, escrowVars, vars
  <2>2. \A d \in ToolCall : d # c => pc'[d] = pc[d]
    BY <1>1, <1>3 DEF CheckEscrow, GoTo, FlowTypeOK
  <2>3. /\ pc'[c] \in {"approve", "failed"}
        /\ pc'[c] = "approve" => EscrowOf(c) \in Leaves(txArray)
    BY <1>3, CheckStep
  <2> QED
    BY <2>1, <2>2, <2>3 DEF ClaimsAreChecked, HasSent, Step
<1>4. ASSUME NEW c \in ToolCall, Throw(c) PROVE ClaimsAreChecked'
  <2>1. UNCHANGED txArray /\ GoTo(c, "failed")
    BY <1>4 DEF Throw, escrowVars, vars
  <2>2. \A d \in ToolCall : HasSent(d)' => HasSent(d)
    BY <1>1, <1>4, ThrowKeepsQueues, CallFacts DEF HasSent
  <2>3. /\ pc'[c] = "failed"
        /\ \A d \in ToolCall : d # c => pc'[d] = pc[d]
    BY <1>1, <2>1 DEF GoTo, FlowTypeOK
  <2> QED
    BY <2>1, <2>2, <2>3 DEF ClaimsAreChecked, Step
<1>5. ASSUME UNCHANGED swapVars PROVE ClaimsAreChecked'
  BY <1>5 DEF swapVars, escrowVars, vars, flowVars, ClaimsAreChecked, HasSent
<1> QED
  BY <1>2, <1>3, <1>4, <1>5, SubmitChecked, MineChecked DEF SwapNext, Proceed

ClaimInv == ClaimsAreChecked /\ ClaimPaysFunded

LEMMA ClaimPaysStep ==
  ASSUME RequestsAreSeparate, SInv, ClaimInv, [SwapNext]_swapVars
  PROVE  ClaimInv'
<1>1. ClaimsAreChecked'
  BY CheckedStep DEF ClaimInv
<1>2. Leaves(txArray) \subseteq Leaves(txArray')
  BY SwapStep DEF ContractsAdvance
<1>3. ASSUME NEW c \in ToolCall, Tool(c) = "escrowClaim",
             CreatorRequest(c) \in Leaves(txArray')
      PROVE  EscrowOf(c) \in Leaves(txArray')
  <2>1. Deposited(c) = CreatorRequest(c)
    BY <1>3 DEF Deposited
  <2>2. CASE Deposited(c) \in Leaves(txArray)
    BY <1>2, <1>3, <2>1, <2>2 DEF ClaimInv, ClaimPaysFunded
  <2>3. ASSUME NEW d \in ToolCall, HasSent(d), DepositEffect(d),
               Deposited(c) \notin Leaves(txArray)
        PROVE  EscrowOf(c) \in Leaves(txArray')
    <3>1. Deposited(c) = Deposited(d)
      BY <1>3, <2>1, <2>3 DEF DepositEffect
    <3>2. Tool(d) = "escrowClaim" /\ EscrowOf(d) = EscrowOf(c)
      BY <1>3, <3>1, DepositsAreSeparate
    <3>3. EscrowOf(d) \in Leaves(txArray)
      BY <2>3, <3>2 DEF ClaimInv, ClaimsAreChecked
    <3> QED
      BY <1>2, <3>2, <3>3
  <2>4. ASSUME NEW d \in ToolCall, Tool(d) = "escrowClaim", ClaimEffect(d)
        PROVE  Deposited(c) \in Leaves(txArray)
    BY <1>3, <2>1, <2>4, ClaimDepositsNothing
  <2>5. CASE UNCHANGED <<txArray, assets, balance>>
    BY <1>3, <2>1, <2>2, <2>5
  <2> QED
    BY <2>2, <2>3, <2>4, <2>5, StepEffect
<1> QED
  BY <1>1, <1>3 DEF ClaimInv, ClaimPaysFunded

(* If the requests are separate, the creator's request is paid only when   *)
(* the escrow it is paid for is in the list, whatever throws, is made      *)
(* again, or is answered from an old list.                                 *)
THEOREM ClaimsPayFunded ==
  ASSUME RequestsAreSeparate
  PROVE  SwapSpec => []ClaimPaysFunded
<1>1. SwapInit => ClaimInv
  <2> SUFFICES ASSUME SwapInit PROVE ClaimInv
    OBVIOUS
  <2>1. Leaves(txArray) = {} /\ \A agent \in User : Len(mempool[agent]) = 0
    BY EmptySeq DEF SwapInit, EscrowInit, Init, Leaves
  <2>2. \A c \in ToolCall : pc[c] = "idle" /\ ~HasSent(c)
    BY <2>1, CallFacts DEF SwapInit, HasSent
  <2> QED
    BY <2>1, <2>2 DEF ClaimInv, ClaimsAreChecked, ClaimPaysFunded, Step
<1>2. SInv /\ ClaimInv /\ [SwapNext]_swapVars => ClaimInv'
  BY ClaimPaysStep
<1>3. ClaimInv => ClaimPaysFunded
  BY DEF ClaimInv
<1> QED
  BY <1>1, <1>2, <1>3, SwapInvariance, PTL DEF SwapSpec
=============================================================================
