---------------------------- MODULE EscrowProofs ----------------------------
(***************************************************************************)
(* Proofs about Escrow, for every value of its constants.  Chamber's       *)
(* invariant is preserved by consumeEscrow as by any other call;           *)
(* ConsumedIsSettled is inductive with it, because neither a transaction   *)
(* nor a nullifier ever disappears.                                        *)
(***************************************************************************)
EXTENDS Escrow, ChamberProofs

EInv == IInv /\ ConsumedIsSettled

-----------------------------------------------------------------------------
(* What never shrinks.                                                     *)

LEMMA PrefixLeaves ==
  ASSUME NEW s \in Seq(Tx), NEW n \in 0..Len(s)
  PROVE  Leaves(SubSeq(s, 1, n)) \subseteq Leaves(s)
<1>1. Len(s) \in Nat /\ \A i \in 1..n : s[i] \in Tx
  OBVIOUS
<1>2. /\ Len(SubSeq(s, 1, n)) = n
      /\ \A i \in 1..n : SubSeq(s, 1, n)[i] = s[i]
  BY <1>1, SubSeqProperties
<1>3. 1..n \subseteq 1..Len(s)
  BY <1>1
<1> QED
  BY <1>2, <1>3 DEF Leaves

LEMMA CallGrows ==
  ASSUME IInv, NEW sender \in Address, Call(sender)
  PROVE  Leaves(txArray) \subseteq Leaves(txArray') /\ nullified \subseteq nullified'
<1>1. IInv' /\ Conserves
  BY CallStep
<1>2. nullified \subseteq nullified'
  BY <1>1 DEF Conserves
<1>3. CASE Log!Extend
  <2>1. txArray = SubSeq(txArray', 1, Len(txArray)) /\ Len(txArray) < Len(txArray')
    BY <1>3 DEF Log!Extend
  <2>2. txArray \in Seq(Tx) /\ txArray' \in Seq(Tx)
    BY <1>1 DEF IInv, TypeOK
  <2>3. Len(txArray) \in 0..Len(txArray')
    BY <2>1, <2>2
  <2> QED
    BY <1>2, <2>1, <2>2, <2>3, PrefixLeaves
<1>4. CASE UNCHANGED <<txArray, merkleRoots>>
  BY <1>2, <1>4
<1> QED
  BY <1>3, <1>4, CallExtendsLog

LEMMA SettledIsStable ==
  ASSUME NEW list1, NEW list2, list1 \subseteq list2, NEW tx, Settled(tx, list1)
  PROVE  Settled(tx, list2)
BY DEF Settled

-----------------------------------------------------------------------------
(* consumeEscrow.                                                          *)

(* Only the escrow of some terms has its nullifier.                        *)
LEMMA EscrowNullifier ==
  ASSUME NEW tx \in Tx, NEW b, NEW senderTx, NEW rs, NEW owner, NEW asset, NEW amount,
         NullifierOf(tx) = NullifierOf(EscrowTx(Terms(b, senderTx, rs, owner, asset, amount)))
  PROVE  /\ tx.secret.key = EscrowKey(b, senderTx, rs)
         /\ tx.secret.owner = owner
         /\ tx.asset = asset /\ tx.amount = amount
<1> DEFINE key == EscrowKey(b, senderTx, rs)
<1>1. /\ KeyPlusOne(tx.secret.key) = KeyPlusOne(key)
      /\ tx.secret.owner = owner
      /\ tx.asset = asset /\ tx.amount = amount
  BY DEF NullifierOf, HashWithAsset, Secret, EscrowTx, Terms
<1>2. tx.secret.key \in [base : KeyBase, plus : Nat]
  BY TxFields, KeyAssumption
<1>3. key = [base |-> <<b, senderTx, rs>>, plus |-> 0]
  BY DEF EscrowKey
<1>4. KeyPlusOne(key) = [base |-> <<b, senderTx, rs>>, plus |-> 1]
  BY <1>3 DEF KeyPlusOne
<1>5. KeyPlusOne(tx.secret.key) = [base |-> tx.secret.key.base, plus |-> tx.secret.key.plus + 1]
  BY <1>2 DEF KeyPlusOne
<1>6. tx.secret.key.base = <<b, senderTx, rs>> /\ tx.secret.key.plus = 0
  BY <1>1, <1>2, <1>4, <1>5
<1>7. tx.secret.key = key
  BY <1>2, <1>3, <1>6
<1> QED
  BY <1>1, <1>7

(* What a transaction that pays the recipient of an escrow, and the one    *)
(* with the rest, are.                                                     *)
PaidOut(tx, rs) ==
  <<HashWithAsset(rs, tx.asset, tx.amount), HashWithAsset(rs, tx.asset, 0)>>

(* consumeEscrow with an escrow proof of some terms and a MIST proof that  *)
(* spends tx, both made under root.                                        *)
Consumes(root, tx, b, senderTx, rs, owner, asset, promised, s1, authDone, w, amount) ==
  LET terms == Terms(b, senderTx, rs, owner, asset, promised)
  IN  ConsumeEscrow(EscrowInput(root, terms), terms,
                    ClaimInput(root, tx, s1, authDone, w, amount), tx)

(* It spends an escrow of the terms, pays all of it to the recipient       *)
(* within Chamber, and nothing out.                                        *)
ConsumeEffect(tx, b, senderTx, rs) ==
  /\ IInv' /\ Conserves /\ AppendsFew
  /\ tx \in Leaves(txArray) /\ senderTx \in Leaves(txArray)
  /\ tx.secret.key = EscrowKey(b, senderTx, rs)
  /\ PaidOut(tx, rs) \in Seq(Tx) /\ AddNewTxs(PaidOut(tx, rs))
  /\ Leaves(txArray') = Leaves(txArray) \cup
       {HashWithAsset(rs, tx.asset, tx.amount), HashWithAsset(rs, tx.asset, 0)}
  /\ UNCHANGED <<assets, verifier, balance, allowance>>
  /\ nullified' = nullified \cup {NullifierOf(tx)}
  /\ consumed' = consumed \cup {NullifierOf(tx)}

(* It does so for any terms, and any transaction of any snapshot.          *)
LEMMA ConsumeParts ==
  ASSUME IInv, NEW root \in Snapshots, NEW tx \in Leaves(root),
         NEW b, NEW senderTx, NEW rs \in Secrets, NEW owner, NEW asset, NEW promised,
         NEW s1 \in Secrets, NEW authDone, NEW w \in Nat, NEW amount \in Nat,
         w + amount <= tx.amount,
         Consumes(root, tx, b, senderTx, rs, owner, asset, promised,
                  s1, authDone, w, amount)
  PROVE  ConsumeEffect(tx, b, senderTx, rs)
<1> DEFINE terms == Terms(b, senderTx, rs, owner, asset, promised)
           tx1 == HashWithAsset(s1, tx.asset, amount)
           tx2 == HashWithAsset(s1, tx.asset, tx.amount - (w + amount))
           mistIn == MistInput(root, tx, authDone, w, EscrowAddress, tx1, tx2)
<1>1. /\ EscrowProof(EscrowInput(root, terms), terms)
      /\ HandleZkp(EscrowAddress, mistIn, tx)
      /\ NullifierOf(EscrowTx(terms)) = NullifierOf(tx)
      /\ RecipientTx(terms) = tx1
      /\ consumed' = consumed \cup {NullifierOf(tx)}
  BY DEF Consumes, ConsumeEscrow, CanConsume, ClaimInput, EscrowInput, MistInput
<1>2. /\ tx \in Leaves(txArray) /\ tx \in Tx
      /\ Leaves(root) \subseteq Leaves(txArray)
  BY SnapshotIsPrefix, LeavesAreTxs DEF IInv, TypeOK
<1>3. tx.asset \in Asset /\ tx.amount \in Nat /\ tx.amount \in Amount /\ 0 \in Amount
  BY <1>2, TxFields, BoundAssumption DEF Amount
<1>4. /\ SpendTransaction(EscrowAddress, tx.secret.owner, authDone, w, tx.asset,
                          EscrowAddress, NullifierOf(tx))
      /\ AddNewTxs(<<tx1, tx2>>)
      /\ UNCHANGED <<assets, verifier, allowance>>
  BY <1>1 DEF HandleZkp, MistInput
<1>5. /\ tx.secret.key = EscrowKey(b, senderTx, rs)
      /\ tx.asset = asset /\ tx.amount = promised
  BY <1>1, <1>2, EscrowNullifier
(* The recipient gets all of it, so nothing can be left to pay out.        *)
<1>6. s1 = rs /\ amount = tx.amount /\ w = 0
  <2>1. HashWithAsset(rs, tx.asset, tx.amount) = tx1
    BY <1>1, <1>5 DEF RecipientTx, Terms
  <2>2. s1 = rs /\ amount = tx.amount
    BY <2>1 DEF HashWithAsset
  <2> QED
    BY <1>3, <2>2
<1>7. /\ tx1 = HashWithAsset(rs, tx.asset, tx.amount)
      /\ tx2 = HashWithAsset(rs, tx.asset, 0)
  <2>1. tx.amount - (w + amount) = 0
    BY <1>3, <1>6
  <2> QED
    BY <1>6, <2>1
<1>8. tx1 \in Tx /\ tx2 \in Tx
  BY <1>3, <1>7, HashType
<1>9. <<tx1, tx2>> = PaidOut(tx, rs)
  BY <1>7 DEF PaidOut
<1>10. senderTx \in Leaves(txArray)
  BY <1>1, <1>2 DEF EscrowProof, EscrowInput, Terms
<1>11. balance' = balance /\ nullified' = nullified \cup {NullifierOf(tx)}
  BY <1>4, <1>6 DEF SpendTransaction
<1> HIDE DEF tx1, tx2
<1>12. <<tx1, tx2>> \in Seq(Tx)
  BY <1>8
<1>13. IInv' /\ Conserves
  BY <1>1, <1>8, ZkStep, EscrowAssumption
<1>14. AppendsFew
  BY <1>4, <1>8 DEF AddNewTxs, AppendsFew
<1>15. Leaves(txArray') = Leaves(txArray) \cup {tx1, tx2}
  BY <1>4, <1>12, AddNewTxsEffect, LeavesOfShort
<1> QED
  BY <1>1, <1>2, <1>4, <1>5, <1>7, <1>9, <1>10, <1>11, <1>12, <1>13, <1>14, <1>15
     DEF ConsumeEffect

(* An escrow that was spent with a payment to its recipient is settled.    *)
LEMMA PaidIsSettled ==
  ASSUME NEW tx, NEW b \in Blinding, NEW senderTx, NEW rs \in Secrets, NEW list,
         senderTx \in list, tx.secret.key = EscrowKey(b, senderTx, rs),
         HashWithAsset(rs, tx.asset, tx.amount) \in list
  PROVE  Settled(tx, list)
BY DEF Settled

(* What a Claim does: it spends one escrow, whose terms are met after it.  *)
LEMMA ClaimParts ==
  ASSUME IInv, Claim
  PROVE  /\ IInv' /\ Conserves /\ AppendsFew
         /\ Leaves(txArray) \subseteq Leaves(txArray')
         /\ balance' = balance
         /\ \E tx \in Leaves(txArray) :
              /\ nullified' = nullified \cup {NullifierOf(tx)}
              /\ consumed' = consumed \cup {NullifierOf(tx)}
              /\ Settled(tx, Leaves(txArray'))
<1>1. PICK root \in Snapshots, senderTx \in Expected, b \in Blinding,
           rs \in Secrets, s1 \in Secrets, authDone \in BOOLEAN :
        \E escrow, tx \in Leaves(root) : \E w, amount \in 0..tx.amount :
          /\ w + amount <= tx.amount
          /\ Consumes(root, tx, b, senderTx, rs, escrow.secret.owner,
                      escrow.asset, escrow.amount, s1, authDone, w, amount)
  BY DEF Claim, Consumes
<1>2. PICK escrow \in Leaves(root), tx \in Leaves(root) :
        \E w, amount \in 0..tx.amount :
          /\ w + amount <= tx.amount
          /\ Consumes(root, tx, b, senderTx, rs, escrow.secret.owner,
                      escrow.asset, escrow.amount, s1, authDone, w, amount)
  BY <1>1
<1>3. PICK w \in 0..tx.amount, amount \in 0..tx.amount :
        /\ w + amount <= tx.amount
        /\ Consumes(root, tx, b, senderTx, rs, escrow.secret.owner,
                    escrow.asset, escrow.amount, s1, authDone, w, amount)
  BY <1>2
<1>4. w \in Nat /\ amount \in Nat
  <2>1. tx.amount \in Nat
    BY SnapshotIsPrefix, LeavesAreTxs, TxFields DEF IInv, TypeOK
  <2> QED
    BY <2>1
<1>5. ConsumeEffect(tx, b, senderTx, rs)
  BY <1>3, <1>4, ConsumeParts, Zenon
<1>6. Settled(tx, Leaves(txArray'))
  BY <1>5, PaidIsSettled DEF ConsumeEffect
<1> QED
  BY <1>5, <1>6 DEF ConsumeEffect

-----------------------------------------------------------------------------
(* The other calls, and an escrow among the spent.                         *)

(* With its preimage, an escrow can only be paid out whole, to its owner.  *)
LEMMA NoZkSpendsToOwner ==
  ASSUME IInv, NEW from, from # EscrowAddress, NEW root \in Snapshots,
         NEW spent \in Leaves(root), NEW s \in Secrets, NEW newAmount \in Amount,
         SeekAndHideNoZk(from, root, spent, s, newAmount),
         NEW tx \in Tx, tx.secret.owner = EscrowAddress,
         NullifierOf(tx) \in nullified' \ nullified
  PROVE  balance' = [balance EXCEPT ![tx.asset][ChamberAddress] = @ - tx.amount,
                                    ![tx.asset][EscrowAddress]  = @ + tx.amount]
<1>1. spent \in Tx
  BY SnapshotIsPrefix, LeavesAreTxs DEF IInv, TypeOK
<1>2. SpendTransaction(from, spent.secret.owner, newAmount = 0,
        spent.amount - newAmount, spent.asset, spent.secret.owner, NullifierOf(spent))
  BY DEF SeekAndHideNoZk
<1>3. NullifierOf(spent) = NullifierOf(tx)
  BY <1>2 DEF SpendTransaction
<1>4. spent = tx
  BY <1>1, <1>3, NullifierInjective
<1>5. newAmount = 0
  BY <1>2, <1>4 DEF SpendTransaction, CanSpend
<1>6. /\ tx.amount \in Nat /\ tx.asset \in Asset
      /\ spent.amount - newAmount = tx.amount
  BY <1>4, <1>5, TxFields
<1>7. \/ tx.amount > 0 /\ Move(tx.asset, ChamberAddress, EscrowAddress, tx.amount)
      \/ tx.amount = 0 /\ UNCHANGED balance
  BY <1>2, <1>4, <1>6 DEF SpendTransaction
<1>8. CASE tx.amount > 0 /\ Move(tx.asset, ChamberAddress, EscrowAddress, tx.amount)
  BY <1>8 DEF Move
<1>9. CASE tx.amount = 0 /\ UNCHANGED balance
  <2>1. /\ balance \in [Asset -> [Account -> Nat]]
        /\ ChamberAddress \in Account /\ EscrowAddress \in Account
        /\ ChamberAddress # EscrowAddress
    BY AccountFacts, EscrowAssumption DEF IInv, TypeOK
  <2> QED
    BY <1>6, <1>9, <2>1
<1> QED
  BY <1>7, <1>8, <1>9

(* With a proof, only the Escrow contract itself can spend one.            *)
LEMMA ZkSpendsNoEscrow ==
  ASSUME IInv, NEW sender, sender # EscrowAddress, ZkSpend(sender),
         NEW tx \in Tx, tx.secret.owner = EscrowAddress,
         NullifierOf(tx) \in nullified' \ nullified
  PROVE  FALSE
<1>1. PICK root \in Snapshots, authDone \in BOOLEAN, recipient \in Address,
           amount \in Nat, tx1 \in Tx, tx2 \in Tx : \E spent \in Leaves(root) :
        HandleZkp(sender, MistInput(root, spent, authDone, amount, recipient, tx1, tx2), spent)
  BY ZkSpendParts
<1>2. PICK spent \in Leaves(root) :
        HandleZkp(sender, MistInput(root, spent, authDone, amount, recipient, tx1, tx2), spent)
  BY <1>1
<1>3. spent \in Tx
  BY SnapshotIsPrefix, LeavesAreTxs DEF IInv, TypeOK
<1>4. /\ SpendTransaction(sender, spent.secret.owner, authDone, amount, spent.asset,
                          recipient, NullifierOf(spent))
      /\ authDone => spent.secret.owner \in Identity
  BY <1>2 DEF HandleZkp, CanHandleZkp, MistProof, MistInput
<1>5. NullifierOf(spent) = NullifierOf(tx)
  BY <1>4 DEF SpendTransaction
<1>6. spent = tx
  BY <1>3, <1>5, NullifierInjective
<1>7. authDone
  BY <1>4, <1>6 DEF SpendTransaction, CanSpend
<1>8. EscrowAddress \notin Identity
  BY EscrowAssumption, AddressAssumption
<1> QED
  BY <1>4, <1>6, <1>7, <1>8

LEMMA CallSpendsOnTerms ==
  ASSUME IInv, NEW sender \in User, Call(sender)
  PROVE  EscrowIsSpentOnTerms
<1> SUFFICES ASSUME NEW tx \in Leaves(txArray), tx.secret.owner = EscrowAddress,
                    NullifierOf(tx) \in nullified' \ nullified
             PROVE  balance' = [balance EXCEPT
                      ![tx.asset][ChamberAddress] = @ - tx.amount,
                      ![tx.asset][EscrowAddress]  = @ + tx.amount]
  BY DEF EscrowIsSpentOnTerms
<1>1. tx \in Tx
  BY LeavesAreTxs DEF IInv, TypeOK
<1>2. sender \in Address /\ sender # EscrowAddress /\ ChamberAddress # EscrowAddress
  BY AccountFacts, EscrowAssumption DEF User
<1>3. CASE NoZkSpend(sender)
  <2>1. PICK root \in Snapshots, from \in {sender, ChamberAddress}, s \in Secrets,
             newAmount \in Amount : \E spent \in Leaves(root) :
          SeekAndHideNoZk(from, root, spent, s, newAmount)
    BY <1>3, NoZkSpendParts
  <2>2. PICK spent \in Leaves(root) : SeekAndHideNoZk(from, root, spent, s, newAmount)
    BY <2>1
  <2> QED
    BY <1>1, <1>2, <2>2, NoZkSpendsToOwner
<1>4. CASE ZkSpend(sender)
  BY <1>1, <1>2, <1>4, ZkSpendsNoEscrow
<1>5. CASE UNCHANGED nullified
  BY <1>5
<1>6. NoZkSpend(sender) \/ ZkSpend(sender) \/ UNCHANGED nullified
  BY DEF Call, Approve, chamberVars, Deposit, SetVerifier, RecalculateMerkleRoot
<1> QED
  BY <1>3, <1>4, <1>5, <1>6

LEMMA ClaimSpendsOnTerms ==
  ASSUME IInv, Claim
  PROVE  EscrowIsSpentOnTerms
<1> SUFFICES ASSUME NEW tx \in Leaves(txArray),
                    NullifierOf(tx) \in nullified' \ nullified
             PROVE  /\ Settled(tx, Leaves(txArray'))
                    /\ NullifierOf(tx) \in consumed'
                    /\ balance' = balance
  BY DEF EscrowIsSpentOnTerms
<1>1. PICK spent \in Leaves(txArray) :
        /\ nullified' = nullified \cup {NullifierOf(spent)}
        /\ consumed' = consumed \cup {NullifierOf(spent)}
        /\ Settled(spent, Leaves(txArray'))
  BY ClaimParts
<1>2. tx \in Tx /\ spent \in Tx
  BY LeavesAreTxs DEF IInv, TypeOK
<1>3. NullifierOf(tx) = NullifierOf(spent)
  BY <1>1
<1>4. tx = spent
  BY <1>2, <1>3, NullifierInjective
<1> QED
  BY <1>1, <1>4, ClaimParts

-----------------------------------------------------------------------------
(* The invariant and the theorems.                                         *)

LEMMA ClaimStep ==
  ASSUME EInv, Claim
  PROVE  EInv'
<1>1. IInv /\ ConsumedIsSettled
  BY DEF EInv
<1>2. IInv' /\ Leaves(txArray) \subseteq Leaves(txArray')
  BY <1>1, ClaimParts
<1>3. PICK spent \in Leaves(txArray) :
        /\ nullified' = nullified \cup {NullifierOf(spent)}
        /\ consumed' = consumed \cup {NullifierOf(spent)}
        /\ Settled(spent, Leaves(txArray'))
  BY <1>1, ClaimParts
<1>4. ASSUME NEW n \in consumed'
      PROVE  /\ n \in nullified'
             /\ \E tx \in Leaves(txArray') :
                  n = NullifierOf(tx) /\ Settled(tx, Leaves(txArray'))
  <2>1. CASE n = NullifierOf(spent)
    BY <1>2, <1>3, <2>1
  <2>2. CASE n \in consumed
    BY <1>1, <1>2, <1>3, <2>2, SettledIsStable DEF ConsumedIsSettled
  <2> QED
    BY <1>3, <2>1, <2>2
<1> QED
  BY <1>2, <1>4 DEF EInv, ConsumedIsSettled

LEMMA UserStep ==
  ASSUME EInv, NEW sender \in User, Call(sender), UNCHANGED consumed
  PROVE  EInv'
<1>1. IInv /\ ConsumedIsSettled /\ sender \in Address
  BY DEF EInv, User
<1>2. /\ IInv'
      /\ Leaves(txArray) \subseteq Leaves(txArray') /\ nullified \subseteq nullified'
  BY <1>1, CallStep, CallGrows
<1> QED
  BY <1>1, <1>2, SettledIsStable DEF EInv, ConsumedIsSettled

(* The inductive invariant holds in every reachable state of the two       *)
(* contracts together.                                                     *)
THEOREM EscrowInvariance == EscrowSpec => []EInv
<1>1. EscrowInit => EInv
  BY InitInv DEF EscrowInit, EInv, ConsumedIsSettled
<1>2. EInv /\ [EscrowNext]_escrowVars => EInv'
  <2>1. ASSUME EInv, UNCHANGED escrowVars PROVE EInv'
    <3>1. IInv'
      BY <2>1, StutterStep DEF EInv, escrowVars
    <3> QED
      BY <2>1, <3>1 DEF EInv, escrowVars, vars, ConsumedIsSettled
  <2> QED
    BY <2>1, ClaimStep, UserStep DEF EscrowNext
<1> QED
  BY <1>1, <1>2, PTL DEF EscrowSpec

(* An EscrowConsumed event is emitted only for an escrow that is spent,    *)
(* with the transaction its creator expects and the recipient's payment    *)
(* both in Chamber: neither party can end up with both sides of the swap.  *)
THEOREM ConsumedCorrect == EscrowSpec => []ConsumedIsSettled
<1>1. EInv => ConsumedIsSettled
  BY DEF EInv
<1> QED
  BY <1>1, EscrowInvariance, PTL

(* An escrow is spent on its terms, or paid out whole to the Escrow        *)
(* contract, by whatever calls of whatever accounts.                       *)
THEOREM SpentOnTerms == EscrowSpec => EscrowsAreSpentOnTerms
<1>1. EInv /\ [EscrowNext]_escrowVars => [EscrowIsSpentOnTerms]_escrowVars
  BY CallSpendsOnTerms, ClaimSpendsOnTerms DEF EInv, EscrowNext
<1> QED
  BY <1>1, EscrowInvariance, PTL DEF EscrowSpec, EscrowsAreSpentOnTerms

(* Swaps leave the pool solvent as well: what consumeEscrow spends, it     *)
(* appends.                                                                *)
THEOREM SolventWithEscrows == EscrowSpec => []Solvent
<1>1. EInv /\ Solvent /\ [EscrowNext]_escrowVars => Solvent'
  <2>1. ASSUME IInv, Solvent, Claim PROVE Solvent'
    BY <2>1, ClaimParts, SolventStep
  <2>2. ASSUME Solvent, UNCHANGED escrowVars PROVE Solvent'
    BY <2>2 DEF escrowVars, vars, Solvent, Unspent
  <2>3. ASSUME IInv, Solvent, NEW sender \in User, Call(sender) PROVE Solvent'
    BY <2>3, CallKeepsSolvent DEF User
  <2> QED
    BY <2>1, <2>2, <2>3 DEF EInv, EscrowNext
<1>2. EscrowInit => Solvent
  BY InitSolvent DEF EscrowInit
<1> QED
  BY <1>1, <1>2, EscrowInvariance, PTL DEF EscrowSpec

(* The append-only log is all that a swap changes of the transaction list: *)
(* the two contracts together implement it, as Chamber alone does          *)
(* (Escrow.consumeEscrow calls Chamber.handleZkp).                         *)
THEOREM EscrowImplementsLog == EscrowSpec => ImplementsAccumulator
<1>1. EscrowInit => Log!Init
  BY DEF EscrowInit, Init, Log!Init
<1>2. EInv /\ [EscrowNext]_escrowVars => [Log!Extend]_<<txArray, merkleRoots>>
  <2>1. ASSUME IInv, Claim PROVE [Log!Extend]_<<txArray, merkleRoots>>
    BY <2>1, ClaimParts, FewExtendLog
  <2>2. ASSUME IInv, NEW sender \in User, Call(sender)
        PROVE  [Log!Extend]_<<txArray, merkleRoots>>
    BY <2>2, CallExtendsLog DEF User
  <2>3. ASSUME UNCHANGED escrowVars PROVE [Log!Extend]_<<txArray, merkleRoots>>
    BY <2>3 DEF escrowVars, vars
  <2> QED
    BY <2>1, <2>2, <2>3 DEF EInv, EscrowNext
<1> QED
  BY <1>1, <1>2, EscrowInvariance, PTL DEF EscrowSpec, ImplementsAccumulator, Log!Spec

(* A funded escrow can be claimed, with the inputs escrowClaim makes from  *)
(* any list that holds both transactions, until it is spent.               *)
THEOREM FundedIsClaimable == EscrowSpec => []FundedEscrowIsClaimable
<1>1. EInv => FundedEscrowIsClaimable
  <2> SUFFICES ASSUME EInv, NEW b \in Blinding, NEW rs \in Secrets,
                      NEW root \in Snapshots,
                      NEW senderTx \in Leaves(root), NEW tx \in Leaves(root),
                      tx = EscrowTx(Terms(b, senderTx, rs, EscrowAddress,
                                          tx.asset, tx.amount)),
                      NullifierOf(tx) \notin nullified, verifier # NoVerifier
               PROVE  LET terms == Terms(b, senderTx, rs, EscrowAddress,
                                         tx.asset, tx.amount)
                      IN  CanConsume(EscrowInput(root, terms), terms,
                            ClaimInput(root, tx, rs, FALSE, 0, tx.amount), tx)
    BY DEF FundedEscrowIsClaimable
  <2> DEFINE terms == Terms(b, senderTx, rs, EscrowAddress, tx.asset, tx.amount)
             tx1 == HashWithAsset(rs, tx.asset, tx.amount)
             tx2 == HashWithAsset(rs, tx.asset, tx.amount - (0 + tx.amount))
             mistIn == MistInput(root, tx, FALSE, 0, EscrowAddress, tx1, tx2)
  <2>1. /\ tx.amount \in Nat /\ tx.asset \in Asset
        /\ tx.secret.owner = EscrowAddress
    <3>1. tx \in Tx
      BY SnapshotIsPrefix, LeavesAreTxs DEF EInv, IInv, TypeOK
    <3>2. tx.secret.owner = EscrowAddress
      BY DEF EscrowTx, HashWithAsset, Secret, Terms
    <3> QED
      BY <3>1, <3>2, TxFields
  <2>2. root \in merkleRoots
    BY DEF EInv, IInv, RootsAreSnapshots
  <2>3. EscrowProof(EscrowInput(root, terms), terms)
    BY DEF EscrowProof, EscrowInput, Terms
  <2>4. MistProof(mistIn, tx)
    BY <2>1 DEF MistProof, MistInput, HashWithAsset
  <2>5. CanSpend(EscrowAddress, tx.secret.owner, FALSE, 0, tx.asset, NullifierOf(tx))
    <3>1. balance[tx.asset][ChamberAddress] \in Nat
      BY <2>1, AccountFacts DEF EInv, IInv, TypeOK
    <3> QED
      BY <2>1, <3>1 DEF CanSpend
  <2>6. CanHandleZkp(EscrowAddress, mistIn, tx)
    BY <2>2, <2>4, <2>5 DEF CanHandleZkp, MistInput
  <2>7. EscrowInput(root, terms) = [ escrowNullifier |-> NullifierOf(tx),
                                     recipientTx |-> tx1, merkleRoot |-> root ]
    BY DEF EscrowInput, RecipientTx, Terms
  <2>8. mistIn.nullifier = NullifierOf(tx) /\ mistIn.tx1 = tx1
    BY DEF MistInput
  <2>9. ClaimInput(root, tx, rs, FALSE, 0, tx.amount) = mistIn
    BY DEF ClaimInput
  <2> HIDE DEF terms, tx1, tx2, mistIn
  <2>10. CanConsume(EscrowInput(root, terms), terms, mistIn, tx)
    BY <2>2, <2>3, <2>6, <2>7, <2>8 DEF CanConsume
  <2> QED
    BY <2>9, <2>10 DEF terms
<1> QED
  BY <1>1, EscrowInvariance, PTL
=============================================================================
