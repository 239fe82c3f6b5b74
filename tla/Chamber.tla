------------------------------ MODULE Chamber ------------------------------
(***************************************************************************)
(* contracts/src/Chamber.sol: the shielded pool.  Tokens come in with      *)
(* deposit, which appends a transaction to the tree; a transaction is      *)
(* spent once, by revealing its nullifier, with its preimage               *)
(* (withdrawNoZk, seekAndHideNoZk) or with a proof (handleZkp).            *)
(*                                                                         *)
(* One action is one Ethereum transaction: it runs alone, and a revert     *)
(* leaves no trace, so every require is a guard of the action.  The order  *)
(* in which callers' transactions are mined is arbitrary.                  *)
(*                                                                         *)
(* The tree is abstracted to the list of leaves its stored nodes commit to *)
(* (StoredMerkle.tla shows that they do); a root is such a list.           *)
(***************************************************************************)
EXTENDS Notes, FiniteSetsExt

CONSTANTS
  Address,            \* accounts that can call, own and receive, not Chamber
  ChamberAddress,     \* the contract's own account
  ContractOwner,      \* Ownable's owner
  Identity,           \* MIST account addresses: owners known only to proofs
  Asset, NoAsset,     \* ERC-20 tokens, and address(0)
  Recipient,          \* the addresses withdrawals are asked to be paid to
  KeyBase, Key,       \* claiming keys
  Secrets,            \* the secrets in play
  Verifier, NoVerifier,
  InitialBalance,     \* tokens each address starts with
  Approval,           \* the amounts of each token an address may approve
  MaxAmountSupported, \* MAX_AMOUNT_SUPPORTED
  MaxTx               \* bound on the length of txArray

ASSUME AddressAssumption ==
  /\ ChamberAddress \notin Address
  /\ ContractOwner \in Address
  /\ Recipient \subseteq Address
  /\ Identity \cap (Address \cup {ChamberAddress}) = {}
ASSUME KeyAssumption ==
  /\ Key \subseteq [base : KeyBase, plus : Nat]
  /\ Secrets \subseteq [key : Key, owner : Address \cup Identity]
ASSUME NoneAssumption == NoVerifier \notin Verifier /\ NoAsset \notin Asset
ASSUME BalanceAssumption == InitialBalance \in [Asset -> [Address -> Nat]]
ASSUME ApprovalAssumption == Approval \in [Asset -> [Address -> SUBSET Nat]]
ASSUME BoundAssumption == MaxAmountSupported \in Nat /\ MaxTx \in Nat

VARIABLES
  txArray,      \* all transaction hashes, in order
  tree,         \* the leaves the stored Merkle tree commits to
  merkleRoots,  \* the roots in history, the true keys of merkleRoots
  assets,       \* asset data keyed by secret; amount 0 where unset
  nullified,    \* spent nullifiers, the true keys of nullified
  verifier,     \* the Groth16 verifier, or NoVerifier for address(0)
  balance,      \* ERC-20: tokens by asset and account
  allowance     \* ERC-20: what Chamber may take, by asset and account

chamberVars == <<txArray, tree, merkleRoots, assets, nullified, verifier>>
tokenVars   == <<balance, allowance>>
vars        == <<txArray, tree, merkleRoots, assets, nullified, verifier,
                 balance, allowance>>

Account == Address \cup {ChamberAddress}
Owner   == Address \cup Identity
Amount  == 0..MaxAmountSupported
Tx      == [secret : Secrets, asset : Asset, amount : Amount]
Nullifier == [ secret : [key : { KeyPlusOne(k) : k \in Key }, owner : Owner],
               asset : Asset, amount : Amount ]

-----------------------------------------------------------------------------
(* The ERC-20 tokens.                                                      *)

Move(asset, from, to, amount) ==
  /\ amount <= balance[asset][from]
  /\ balance' = [balance EXCEPT ![asset][from] = @ - amount,
                                ![asset][to]   = @ + amount]

(* approve overwrites whatever allowance there was.                        *)
Approve(sender, asset, amount) ==
  /\ allowance' = [allowance EXCEPT ![asset][sender] = amount]
  /\ UNCHANGED <<chamberVars, balance>>

(* transferFrom(from, Chamber, amount), called by Chamber.                 *)
TransferFrom(asset, from, amount) ==
  /\ amount <= allowance[asset][from]
  /\ Move(asset, from, ChamberAddress, amount)
  /\ allowance' = [allowance EXCEPT ![asset][from] = @ - amount]

-----------------------------------------------------------------------------
(* The tree and the history of roots.                                      *)

(* The model's bound: a call that would append n transactions fits.        *)
Room(n) == Len(txArray) + n <= MaxTx

(* Mutant: only the last of the roots is recorded. *)
AddAndRecordLast(txs) ==
  /\ txArray' = txArray \o txs
  /\ tree' = tree \o txs
  /\ merkleRoots' = merkleRoots \cup {tree \o txs}

(* _addNewTx for each of txs in turn.                                      *)
AddNewTxs(txs) ==
  /\ txArray' = txArray \o txs
  /\ tree' = tree \o txs
  /\ merkleRoots' = merkleRoots \cup
       { SubSeq(tree \o txs, 1, Len(tree) + k) : k \in 1..Len(txs) }

AddNothing == UNCHANGED <<txArray, tree, merkleRoots>>

(* The roots a caller can have a proof for: those of the transaction list  *)
(* as getTxArray returned it at some moment.                               *)
Snapshots == { SubSeq(txArray, 1, n) : n \in 1..Len(txArray) }

(* Mutant: the rebuilt tree starts a history of its own. *)
RecalculateAndForget ==
  /\ tree' = txArray
  /\ merkleRoots' = {txArray}
  /\ UNCHANGED <<txArray, assets, nullified, verifier, tokenVars>>

(* recalculateMerkleRoot: initStorage(txArray); the history is not told.   *)
RecalculateMerkleRoot ==
  /\ tree' = txArray
  /\ UNCHANGED <<txArray, merkleRoots, assets, nullified, verifier, tokenVars>>

-----------------------------------------------------------------------------
(* Deposits.                                                               *)

(* Mutant: a secret can be deposited to again. *)
CanDepositAgain(sender, secret, amount, asset) ==
  /\ amount < MaxAmountSupported
  /\ amount > 0
  /\ amount <= allowance[asset][sender]
  /\ amount <= balance[asset][sender]

(* Mutant: the allowance has to exceed the amount. *)
CanDepositStrict(sender, secret, amount, asset) ==
  /\ amount < MaxAmountSupported
  /\ amount > 0
  /\ amount < allowance[asset][sender]
  /\ amount <= balance[asset][sender]
  /\ assets[secret].amount = 0

(* What deposit requires: of the amount, of the token, and that the secret *)
(* was not deposited to before.                                            *)
CanDeposit(sender, secret, amount, asset) ==
  /\ amount < MaxAmountSupported
  /\ amount > 0
  /\ amount <= allowance[asset][sender]
  /\ amount <= balance[asset][sender]
  /\ assets[secret].amount = 0

Deposit(sender, secret, amount, asset) ==
  /\ CanDeposit(sender, secret, amount, asset)
  /\ TransferFrom(asset, sender, amount)
  /\ assets' = [assets EXCEPT ![secret] = [amount |-> amount, addr |-> asset]]
  /\ AddNewTxs(<<HashWithAsset(secret, asset, amount)>>)
  /\ UNCHANGED <<nullified, verifier>>

-----------------------------------------------------------------------------
(* Spends.                                                                 *)

(* Mutant: the nullifier is not looked at. *)
CanSpendAgain(sender, owner, authDone, amount, asset, nullifier) ==
  /\ authDone \/ owner = sender
  /\ amount <= balance[asset][ChamberAddress]

(* What a spend requires: an owner who asks for it or has proved who they  *)
(* are, a new nullifier, and tokens to pay with (the transfer reverts).    *)
CanSpend(sender, owner, authDone, amount, asset, nullifier) ==
  /\ authDone \/ owner = sender
  /\ nullifier \notin nullified
  /\ amount <= balance[asset][ChamberAddress]

SpendTransaction(sender, owner, authDone, amount, asset, recipient, nullifier) ==
  /\ CanSpend(sender, owner, authDone, amount, asset, nullifier)
  /\ nullified' = nullified \cup {nullifier}
  /\ \/ amount > 0 /\ Move(asset, ChamberAddress, recipient, amount)
     \/ amount = 0 /\ UNCHANGED balance

(* The preimage of tx hashes, with a Merkle proof, to a root of history;   *)
(* the owner is given as an address.                                       *)
LocateTransaction(root, tx) ==
  /\ tx.secret.owner \in Address
  /\ tx \in Leaves(root)
  /\ root \in merkleRoots

(* Mutant: the nullifier is taken after the amount was reduced. *)
SeekAndHideRest(sender, root, tx, newSecret, newAmount) ==
  /\ LocateTransaction(root, tx)
  /\ newAmount <= tx.amount
  /\ SpendTransaction(sender, tx.secret.owner, newAmount = 0,
                      tx.amount - newAmount, tx.asset, tx.secret.owner,
                      NullifierOf([tx EXCEPT !.amount = tx.amount - newAmount]))
  /\ \/ /\ newAmount # 0
        /\ AddNewTxs(<<HashWithAsset(newSecret, tx.asset, newAmount)>>)
     \/ /\ newAmount = 0
        /\ AddNothing
  /\ UNCHANGED <<assets, verifier, allowance>>

(* Mutant: the whole amount is paid out beside what is wrapped again. *)
SeekAndHidePayAll(sender, root, tx, newSecret, newAmount) ==
  /\ LocateTransaction(root, tx)
  /\ SpendTransaction(sender, tx.secret.owner, newAmount = 0,
                      tx.amount, tx.asset, tx.secret.owner, NullifierOf(tx))
  /\ \/ /\ newAmount # 0
        /\ AddNewTxs(<<HashWithAsset(newSecret, tx.asset, newAmount)>>)
     \/ /\ newAmount = 0
        /\ AddNothing
  /\ UNCHANGED <<assets, verifier, allowance>>

(* The caller gives the preimage of tx; newAmount of it is wrapped again   *)
(* under newSecret and the rest is paid to its owner.                      *)
SeekAndHideNoZk(sender, root, tx, newSecret, newAmount) ==
  /\ LocateTransaction(root, tx)
  /\ newAmount <= tx.amount
  /\ SpendTransaction(sender, tx.secret.owner, newAmount = 0,
                      tx.amount - newAmount, tx.asset, tx.secret.owner,
                      NullifierOf(tx))
  /\ \/ /\ newAmount # 0
        /\ AddNewTxs(<<HashWithAsset(newSecret, tx.asset, newAmount)>>)
     \/ /\ newAmount = 0
        /\ AddNothing
  /\ UNCHANGED <<assets, verifier, allowance>>

(* this.seekAndHideNoZk(..., 0, 0): an external call, so that the sender   *)
(* the callee sees is Chamber itself.                                      *)
WithdrawNoZk(root, tx) ==
  SeekAndHideNoZk(ChamberAddress, root, tx, tx.secret, 0)

(* The public inputs of a proof of the MIST circuit that spends tx, proved *)
(* in root, into a withdrawal and two new transactions.                    *)
MistInput(root, tx, authDone, amount, recipient, tx1, tx2) ==
  [ owner |-> tx.secret.owner, authDone |-> authDone,
    withdrawAmt |-> amount, withdrawAsset |-> tx.asset,
    withdrawTo |-> recipient, merkleRoot |-> root,
    nullifier |-> NullifierOf(tx), tx1 |-> tx1, tx2 |-> tx2 ]

(* What the MIST circuit proves of its inputs: the amounts add up, and     *)
(* authDone only for an owner whose key the prover has, never an address.  *)
MistProof(in, tx) ==
  /\ tx \in Leaves(in.merkleRoot)
  /\ in.authDone => in.owner \in Identity
  /\ in.tx1.asset = tx.asset /\ in.tx2.asset = tx.asset
  /\ in.withdrawAmt + in.tx1.amount + in.tx2.amount = tx.amount

(* tx is the transaction the caller's proof is about: the verifier accepts *)
(* the proof exactly when MistProof holds of it and the public inputs.     *)
CanHandleZkp(sender, in, tx) ==
  /\ verifier # NoVerifier
  /\ MistProof(in, tx)
  /\ in.merkleRoot \in merkleRoots
  /\ CanSpend(sender, in.owner, in.authDone, in.withdrawAmt,
              in.withdrawAsset, in.nullifier)

HandleZkp(sender, in, tx) ==
  /\ CanHandleZkp(sender, in, tx)
  /\ SpendTransaction(sender, in.owner, in.authDone, in.withdrawAmt,
                      in.withdrawAsset, in.withdrawTo, in.nullifier)
  /\ AddNewTxs(<<in.tx1, in.tx2>>)
  /\ UNCHANGED <<assets, verifier, allowance>>

SetVerifier(sender, v) ==
  /\ sender = ContractOwner
  /\ v # NoVerifier
  /\ verifier' = v
  /\ UNCHANGED <<txArray, tree, merkleRoots, assets, nullified, tokenVars>>

-----------------------------------------------------------------------------

Init ==
  /\ txArray = <<>>
  /\ tree = <<>>
  /\ merkleRoots = {}
  /\ assets = [s \in Secrets |-> [amount |-> 0, addr |-> NoAsset]]
  /\ nullified = {}
  /\ verifier \in Verifier \cup {NoVerifier}
  /\ balance = [a \in Asset |-> [u \in Account |->
                  IF u = ChamberAddress THEN 0 ELSE InitialBalance[a][u]]]
  /\ allowance = [a \in Asset |-> [u \in Account |-> 0]]

(* A spend by a proof: any transaction of any snapshot, split in any way.  *)
ZkSpend(sender) ==
  /\ Room(2)
  /\ \E root \in Snapshots : \E tx \in Leaves(root), authDone \in BOOLEAN,
       recipient \in Recipient, s1, s2 \in Secrets : \E w, a1 \in 0..tx.amount :
       /\ w + a1 <= tx.amount
       /\ LET in == MistInput(root, tx, authDone, w, recipient,
                              HashWithAsset(s1, tx.asset, a1),
                              HashWithAsset(s2, tx.asset, tx.amount - (w + a1)))
          IN HandleZkp(sender, in, tx)

NoZkSpend(sender) ==
  \E root \in Snapshots : \E tx \in Leaves(root) :
    \/ WithdrawNoZk(root, tx)
    \/ \E s \in Secrets, newAmount \in Amount :
         (newAmount # 0 => Room(1)) /\ SeekAndHideNoZk(sender, root, tx, s, newAmount)

(* The calls an account makes.                                             *)
Call(sender) ==
  \/ \E asset \in Asset : \E amount \in Approval[asset][sender] :
       Approve(sender, asset, amount)
  \/ \E s \in Secrets, amount \in Amount, asset \in Asset :
       Room(1) /\ Deposit(sender, s, amount, asset)
  \/ NoZkSpend(sender)
  \/ ZkSpend(sender)
  \/ \E v \in Verifier \cup {NoVerifier} : SetVerifier(sender, v)
  \/ RecalculateMerkleRoot

Next == \E sender \in Address : Call(sender)

Spec == Init /\ [][Next]_vars

-----------------------------------------------------------------------------
(* Properties.                                                             *)

TypeOK ==
  /\ txArray \in Seq(Tx)
  /\ tree \in Seq(Tx)
  /\ merkleRoots \subseteq Seq(Tx)
  /\ assets \in [Secrets -> [amount : Amount, addr : Asset \cup {NoAsset}]]
  /\ nullified \subseteq Nullifier
  /\ verifier \in Verifier \cup {NoVerifier}
  /\ balance \in [Asset -> [Account -> Nat]]
  /\ allowance \in [Asset -> [Account -> Nat]]

(* Every root the transaction list ever had is accepted, and no other: a   *)
(* proof the SDK builds from any getTxArray answer, however old, finds its *)
(* root in merkleRoots, and nothing outside the list can be proved.        *)
RootsAreSnapshots == merkleRoots = Snapshots

(* A nullifier is spent only for a transaction in the list, and a secret   *)
(* is registered only together with its transaction.                       *)
NothingFromNowhere ==
  /\ nullified \subseteq { NullifierOf(tx) : tx \in Leaves(txArray) }
  /\ \A s \in Secrets : assets[s].amount # 0 =>
       HashWithAsset(s, assets[s].addr, assets[s].amount) \in Leaves(txArray)

Unspent(asset) ==
  { tx \in Leaves(txArray) : tx.asset = asset /\ NullifierOf(tx) \notin nullified }

Total(txs) == MapThenSumSet(LAMBDA tx : tx.amount, txs)

(* The contract can pay every transaction that can still be spent, in      *)
(* every order of withdrawals, whatever mix of paths created them.         *)
Solvent ==
  \A asset \in Asset : Total(Unspent(asset)) <= balance[asset][ChamberAddress]

(* What one step appended, in value of an asset.                           *)
ValueAt(i, asset) ==
  IF i \in 1..Len(txArray') /\ txArray'[i].asset = asset THEN txArray'[i].amount ELSE 0

Appended(asset) ==
  IF Len(txArray') = Len(txArray) THEN 0
  ELSE ValueAt(Len(txArray) + 1, asset) + ValueAt(Len(txArray) + 2, asset)

(* The value of tx in an asset.                                            *)
Value(tx, asset) == IF tx.asset = asset THEN tx.amount ELSE 0

(* No step makes or loses value: tokens that come in are appended as a     *)
(* transaction, and a step that spends, by whatever path, spends exactly   *)
(* one transaction of the list, never spent before, whose amount is what   *)
(* leaves the contract plus what is appended.                              *)
Conserves ==
  \/ /\ nullified' = nullified
     /\ \A asset \in Asset :
          balance'[asset][ChamberAddress] =
            balance[asset][ChamberAddress] + Appended(asset)
  \/ \E tx \in Leaves(txArray) :
       /\ NullifierOf(tx) \notin nullified
       /\ nullified' = nullified \cup {NullifierOf(tx)}
       /\ \A asset \in Asset :
            balance'[asset][ChamberAddress] + Value(tx, asset) =
              balance[asset][ChamberAddress] + Appended(asset)

EveryStepConserves == [][Conserves]_vars

(* Chamber keeps the append-only log of transactions and roots.            *)
Log == INSTANCE Accumulator WITH log <- txArray, roots <- merkleRoots

ImplementsAccumulator == Log!Spec

(* A deposit never appends a transaction that is in the list already: two  *)
(* copies share one nullifier, so only one of the two could be withdrawn.  *)
(* (deposit is the only operation that writes assets.)                     *)
DepositsAreNew ==
  [][assets' # assets => txArray'[Len(txArray')] \notin Leaves(txArray)]_vars
=============================================================================
