------------------------------- MODULE Escrow -------------------------------
(***************************************************************************)
(* contracts/src/Escrow.sol on top of Chamber, with the escrow circuit of  *)
(* zk/escrow and the inputs the SDK's escrowClaim gives to both proofs.    *)
(*                                                                         *)
(* An escrow transaction is owned by the Escrow contract, and its key is a *)
(* hash of the transaction its creator expects in return and of the secret *)
(* of the recipient it is for.  consumeEscrow spends it, in one Ethereum   *)
(* transaction, once the expected transaction is in Chamber.               *)
(***************************************************************************)
EXTENDS Chamber

CONSTANTS
  EscrowAddress,   \* the Escrow contract's own account
  Blinding,        \* the blinding values the parties share
  Expected         \* the transactions creators of escrows expect

ASSUME EscrowAssumption ==
  EscrowAddress \in Address /\ EscrowAddress # ContractOwner /\ Expected \subseteq Tx

VARIABLE
  consumed         \* nullifiers of the EscrowConsumed events emitted

escrowVars == <<vars, consumed>>

(* Everyone but the contract itself, which calls Chamber in consumeEscrow  *)
(* only.                                                                   *)
User == Address \ {EscrowAddress}

-----------------------------------------------------------------------------
(* Escrow transactions.                                                    *)

EscrowKey(blinding, senderTx, recipientSecret) ==
  [base |-> <<blinding, senderTx, recipientSecret>>, plus |-> 0]

(* The terms of an escrow, the private inputs of the escrow circuit: what  *)
(* its creator expects, for whom it is, who owns it, and what it is.  The  *)
(* circuit does not ask for the owner to be the Escrow contract.           *)
Terms(blinding, senderTx, recipientSecret, owner, asset, amount) ==
  [ blinding |-> blinding, senderTx |-> senderTx,
    recipientSecret |-> recipientSecret, owner |-> owner,
    asset |-> asset, amount |-> amount ]

EscrowTx(terms) ==
  HashWithAsset(
    Secret(EscrowKey(terms.blinding, terms.senderTx, terms.recipientSecret),
           terms.owner),
    terms.asset, terms.amount)

RecipientTx(terms) ==
  HashWithAsset(terms.recipientSecret, terms.asset, terms.amount)

(* The public inputs of an escrow proof. *)
EscrowInput(root, terms) ==
  [ escrowNullifier |-> NullifierOf(EscrowTx(terms)),
    recipientTx     |-> RecipientTx(terms),
    merkleRoot      |-> root ]

(* Mutant: the expected transaction need not be in the tree. *)
EscrowProofUnpaid(in, terms) ==
  /\ in.escrowNullifier = NullifierOf(EscrowTx(terms))
  /\ in.recipientTx = RecipientTx(terms)

(* EscrowCircuit.Define, for a prover who knows the terms.                 *)
EscrowProof(in, terms) ==
  /\ terms.senderTx \in Leaves(in.merkleRoot)
  /\ in.escrowNullifier = NullifierOf(EscrowTx(terms))
  /\ in.recipientTx = RecipientTx(terms)

-----------------------------------------------------------------------------
(* consumeEscrow, with an escrow proof of some terms (in) and a MIST proof *)
(* that spends tx (mistIn).                                                *)

(* Mutant: the two proofs are not tied to one nullifier. *)
CanConsumeUnglued(in, terms, mistIn, tx) ==
  /\ EscrowProof(in, terms)
  /\ in.merkleRoot \in merkleRoots
  /\ CanHandleZkp(EscrowAddress, mistIn, tx)
  /\ in.recipientTx = mistIn.tx1

CanConsume(in, terms, mistIn, tx) ==
  /\ EscrowProof(in, terms)
  /\ in.merkleRoot \in merkleRoots
  /\ CanHandleZkp(EscrowAddress, mistIn, tx)
  /\ in.escrowNullifier = mistIn.nullifier
  /\ in.recipientTx = mistIn.tx1

ConsumeEscrow(in, terms, mistIn, tx) ==
  /\ CanConsume(in, terms, mistIn, tx)
  /\ HandleZkp(EscrowAddress, mistIn, tx)
  /\ consumed' = consumed \cup {in.escrowNullifier}

(* A MIST proof that spends tx into "amount" for the recipient, "w" paid   *)
(* out, and the rest; escrowClaim asks for the whole amount and no payout. *)
ClaimInput(root, tx, recipientSecret, authDone, w, amount) ==
  MistInput(root, tx, authDone, w, EscrowAddress,
            HashWithAsset(recipientSecret, tx.asset, amount),
            HashWithAsset(recipientSecret, tx.asset, tx.amount - (w + amount)))

(* Anyone calls consumeEscrow, at any time, with the terms of any escrow   *)
(* and any MIST proof for any transaction.                                 *)
Claim ==
  /\ Room(2)
  /\ \E root \in Snapshots, senderTx \in Expected, blinding \in Blinding,
        rs, s1 \in Secrets, authDone \in BOOLEAN :
       \E escrow, tx \in Leaves(root) : \E w, amount \in 0..tx.amount :
         /\ w + amount <= tx.amount
         /\ LET terms == Terms(blinding, senderTx, rs, escrow.secret.owner,
                               escrow.asset, escrow.amount)
            IN  ConsumeEscrow(EscrowInput(root, terms), terms,
                              ClaimInput(root, tx, s1, authDone, w, amount), tx)

EscrowInit == Init /\ consumed = {}

EscrowNext ==
  \/ \E sender \in User : Call(sender) /\ UNCHANGED consumed
  \/ Claim

EscrowSpec == EscrowInit /\ [][EscrowNext]_escrowVars

-----------------------------------------------------------------------------
(* Properties.                                                             *)

(* The terms of an escrow are met: the transaction its creator expects and *)
(* the one that pays its recipient the same amount are both in the list.   *)
Settled(tx, list) ==
  \E blinding \in Blinding, senderTx \in list, rs \in Secrets :
    /\ tx.secret.key = EscrowKey(blinding, senderTx, rs)
    /\ HashWithAsset(rs, tx.asset, tx.amount) \in list

(* An EscrowConsumed event names a spent transaction whose terms are met:  *)
(* the creator never loses the escrow without the expected transaction,    *)
(* and the recipient never without being paid.                             *)
ConsumedIsSettled ==
  \A n \in consumed :
    /\ n \in nullified
    /\ \E tx \in Leaves(txArray) : n = NullifierOf(tx) /\ Settled(tx, Leaves(txArray))

(* A transaction owned by the Escrow contract is spent in one of two ways: *)
(* by consumeEscrow, its terms met and nothing leaving Chamber; or with    *)
(* its preimage, all of it going to the Escrow contract.  No other account *)
(* is ever paid from an escrow, whoever calls what in what order.          *)
EscrowIsSpentOnTerms ==
  \A tx \in Leaves(txArray) :
    /\ tx.secret.owner = EscrowAddress
    /\ NullifierOf(tx) \in nullified' \ nullified
    => \/ /\ Settled(tx, Leaves(txArray'))
          /\ NullifierOf(tx) \in consumed'
          /\ balance' = balance
       \/ balance' = [balance EXCEPT ![tx.asset][ChamberAddress] = @ - tx.amount,
                                   ![tx.asset][EscrowAddress]  = @ + tx.amount]

EscrowsAreSpentOnTerms == [][EscrowIsSpentOnTerms]_escrowVars

(* As long as it is not spent, an escrow whose expected transaction is in  *)
(* the list can be claimed with the inputs escrowClaim builds from any     *)
(* answer of getTxArray both transactions are in.                          *)
FundedEscrowIsClaimable ==
  \A blinding \in Blinding, rs \in Secrets, root \in Snapshots :
    \A senderTx, tx \in Leaves(root) :
      LET terms == Terms(blinding, senderTx, rs, EscrowAddress, tx.asset, tx.amount)
      IN  /\ tx = EscrowTx(terms)
          /\ NullifierOf(tx) \notin nullified
          /\ verifier # NoVerifier
          => CanConsume(EscrowInput(root, terms), terms,
                        ClaimInput(root, tx, rs, FALSE, 0, tx.amount), tx)
=============================================================================
