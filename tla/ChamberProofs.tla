--------------------------- MODULE ChamberProofs ---------------------------
(***************************************************************************)
(* Proofs about Chamber, for every value of its constants: however many    *)
(* accounts, tokens, keys and transactions there are.                      *)
(*                                                                         *)
(* The invariants RootsAreSnapshots and NothingFromNowhere are inductive   *)
(* together with TypeOK and TreeIsCurrent, which says that the stored tree *)
(* commits to the whole list: without it an append would record the root   *)
(* of something else.                                                      *)
(***************************************************************************)
EXTENDS Chamber, SequenceTheorems, FiniteSetTheorems, TLAPS

TreeIsCurrent == tree = txArray

IInv == TypeOK /\ TreeIsCurrent /\ RootsAreSnapshots /\ NothingFromNowhere

TokenType == [Asset -> [Account -> Nat]]

-----------------------------------------------------------------------------
(* Transactions and their nullifiers.                                      *)

LEMMA TxFields ==
  ASSUME NEW tx \in Tx
  PROVE  /\ tx.secret \in Secrets /\ tx.asset \in Asset /\ tx.amount \in Amount
         /\ tx.secret.key \in Key /\ tx.secret.owner \in Owner
         /\ tx.secret.key.plus \in Nat
         /\ tx.amount \in Nat
BY KeyAssumption, BoundAssumption DEF Tx, Owner, Amount

LEMMA NullifierType ==
  ASSUME NEW tx \in Tx
  PROVE  NullifierOf(tx) \in Nullifier
BY TxFields DEF NullifierOf, HashWithAsset, Nullifier, Secret

LEMMA HashType ==
  ASSUME NEW s \in Secrets, NEW asset \in Asset, NEW amount \in Amount
  PROVE  HashWithAsset(s, asset, amount) \in Tx
BY DEF HashWithAsset, Tx

(* A nullifier belongs to one transaction.                                 *)
LEMMA NullifierInjective ==
  ASSUME NEW tx1 \in Tx, NEW tx2 \in Tx, NullifierOf(tx1) = NullifierOf(tx2)
  PROVE  tx1 = tx2
<1>1. /\ KeyPlusOne(tx1.secret.key) = KeyPlusOne(tx2.secret.key)
      /\ tx1.secret.owner = tx2.secret.owner
      /\ tx1.asset = tx2.asset /\ tx1.amount = tx2.amount
  BY DEF NullifierOf, HashWithAsset, Secret
<1>2. /\ tx1.secret.key \in [base : KeyBase, plus : Nat]
      /\ tx2.secret.key \in [base : KeyBase, plus : Nat]
  BY TxFields, KeyAssumption
<1>3. tx1.secret.key = tx2.secret.key
  BY <1>1, <1>2 DEF KeyPlusOne
<1>4. /\ tx1.secret \in [key : Key, owner : Owner]
      /\ tx2.secret \in [key : Key, owner : Owner]
  BY KeyAssumption, TxFields DEF Owner
<1>5. tx1.secret = tx2.secret
  BY <1>1, <1>3, <1>4
<1> QED
  BY <1>1, <1>5 DEF Tx

-----------------------------------------------------------------------------
(* Lists of transactions.                                                  *)

LEMMA LeavesOfConcat ==
  ASSUME NEW s \in Seq(Tx), NEW t \in Seq(Tx)
  PROVE  Leaves(s \o t) = Leaves(s) \cup Leaves(t)
<1>1. /\ s \o t \in Seq(Tx)
      /\ Len(s \o t) = Len(s) + Len(t)
      /\ \A i \in 1..Len(s) + Len(t) :
           (s \o t)[i] = IF i <= Len(s) THEN s[i] ELSE t[i - Len(s)]
  BY ConcatProperties
<1>2. Len(s) \in Nat /\ Len(t) \in Nat
  OBVIOUS
<1>3. ASSUME NEW i \in 1..Len(s) PROVE s[i] \in Leaves(s \o t)
  <2>1. i \in 1..Len(s \o t) /\ (s \o t)[i] = s[i]
    BY <1>1, <1>2, <1>3
  <2> QED BY <2>1 DEF Leaves
<1>4. ASSUME NEW i \in 1..Len(t) PROVE t[i] \in Leaves(s \o t)
  <2>1. Len(s) + i \in 1..Len(s \o t) /\ (s \o t)[Len(s) + i] = t[i]
    BY <1>1, <1>2, <1>4
  <2> QED BY <2>1 DEF Leaves
<1>5. ASSUME NEW i \in 1..Len(s \o t)
      PROVE  (s \o t)[i] \in Leaves(s) \cup Leaves(t)
  <2>1. CASE i <= Len(s)
    BY <1>1, <1>2, <2>1 DEF Leaves
  <2>2. CASE ~(i <= Len(s))
    <3>1. i - Len(s) \in 1..Len(t) /\ (s \o t)[i] = t[i - Len(s)]
      BY <1>1, <1>2, <2>2
    <3> QED BY <3>1 DEF Leaves
  <2> QED BY <2>1, <2>2
<1> QED
  BY <1>3, <1>4, <1>5 DEF Leaves

(* The prefixes of a longer list are those of the list and the new ones.   *)
LEMMA PrefixesOfConcat ==
  ASSUME NEW s \in Seq(Tx), NEW t \in Seq(Tx)
  PROVE  { SubSeq(s \o t, 1, n) : n \in 1..Len(s \o t) } =
           { SubSeq(s, 1, n) : n \in 1..Len(s) }
             \cup { SubSeq(s \o t, 1, Len(s) + k) : k \in 1..Len(t) }
<1> DEFINE Old == { SubSeq(s, 1, n) : n \in 1..Len(s) }
           New == { SubSeq(s \o t, 1, Len(s) + k) : k \in 1..Len(t) }
<1>1. Len(s \o t) = Len(s) + Len(t) /\ Len(s) \in Nat /\ Len(t) \in Nat
  BY ConcatProperties
<1>2. ASSUME NEW n \in 1..Len(s) PROVE SubSeq(s \o t, 1, n) = SubSeq(s, 1, n)
  <2>1. 1 \in 1..Len(s)
    BY <1>1, <1>2
  <2> QED BY <2>1, SubSeqOfConcat1
<1>3. ASSUME NEW n \in 1..Len(s \o t)
      PROVE  SubSeq(s \o t, 1, n) \in Old \cup New
  <2>1. CASE n <= Len(s)
    <3>1. n \in 1..Len(s)
      BY <1>1, <2>1
    <3> QED BY <3>1, <1>2
  <2>2. CASE ~(n <= Len(s))
    <3>1. n - Len(s) \in 1..Len(t) /\ n = Len(s) + (n - Len(s))
      BY <1>1, <2>2
    <3> QED BY <3>1
  <2> QED BY <2>1, <2>2
<1>4. ASSUME NEW n \in 1..Len(s)
      PROVE  SubSeq(s, 1, n) \in { SubSeq(s \o t, 1, m) : m \in 1..Len(s \o t) }
  <2>1. n \in 1..Len(s \o t)
    BY <1>1
  <2> QED BY <2>1, <1>2
<1>5. ASSUME NEW k \in 1..Len(t)
      PROVE  SubSeq(s \o t, 1, Len(s) + k) \in
               { SubSeq(s \o t, 1, m) : m \in 1..Len(s \o t) }
  <2>1. Len(s) + k \in 1..Len(s \o t)
    BY <1>1
  <2> QED BY <2>1
<1> QED
  BY <1>3, <1>4, <1>5

(* What is proved under a snapshot is in the list.                         *)
LEMMA SnapshotIsPrefix ==
  ASSUME txArray \in Seq(Tx), NEW root \in Snapshots
  PROVE  root \in Seq(Tx) /\ Leaves(root) \subseteq Leaves(txArray)
<1>1. PICK n \in 1..Len(txArray) : root = SubSeq(txArray, 1, n)
  BY DEF Snapshots
<1>2. Len(txArray) \in Nat /\ \A i \in 1..n : txArray[i] \in Tx
  OBVIOUS
<1>3. /\ root \in Seq(Tx)
      /\ Len(root) = n
      /\ \A i \in 1..n : root[i] = txArray[i]
  BY <1>1, <1>2, SubSeqProperties
<1>4. 1..n \subseteq 1..Len(txArray)
  BY <1>2
<1> QED
  BY <1>3, <1>4 DEF Leaves

LEMMA LeavesAreTxs ==
  ASSUME NEW s \in Seq(Tx)
  PROVE  Leaves(s) \subseteq Tx
BY DEF Leaves

-----------------------------------------------------------------------------
(* What the parts of an action preserve.                                   *)

(* Appending transactions keeps the tree and the history in step.          *)
LEMMA AddNewTxsEffect ==
  ASSUME IInv, NEW txs \in Seq(Tx), AddNewTxs(txs)
  PROVE  /\ txArray' \in Seq(Tx) /\ tree' \in Seq(Tx) /\ merkleRoots' \subseteq Seq(Tx)
         /\ TreeIsCurrent'
         /\ RootsAreSnapshots'
         /\ Leaves(txArray') = Leaves(txArray) \cup Leaves(txs)
<1> USE DEF IInv, TypeOK, TreeIsCurrent
<1>1. txArray' = txArray \o txs /\ tree' = txArray'
  BY DEF AddNewTxs
<1>2. txArray' \in Seq(Tx) /\ tree' \in Seq(Tx)
  BY <1>1, ConcatProperties
<1>3. RootsAreSnapshots'
  <2>1. merkleRoots' = Snapshots \cup
          { SubSeq(txArray \o txs, 1, Len(txArray) + k) : k \in 1..Len(txs) }
    BY DEF AddNewTxs, RootsAreSnapshots
  <2>2. Snapshots' = { SubSeq(txArray \o txs, 1, n) : n \in 1..Len(txArray \o txs) }
    BY <1>1 DEF Snapshots
  <2> QED
    BY <2>1, <2>2, PrefixesOfConcat DEF Snapshots, RootsAreSnapshots
<1>4. merkleRoots' \subseteq Seq(Tx)
  BY <1>2, <1>3, SnapshotIsPrefix DEF RootsAreSnapshots, Snapshots, Leaves
<1> QED
  BY <1>1, <1>2, <1>3, <1>4, LeavesOfConcat

(* A transfer moves an amount from one account to another, in one token.   *)
LEMMA MoveEffect ==
  ASSUME balance \in TokenType, NEW asset \in Asset, NEW from \in Account,
         NEW to \in Account, from # to, NEW amount \in Nat,
         Move(asset, from, to, amount)
  PROVE  /\ balance' \in TokenType
         /\ balance'[asset][from] + amount = balance[asset][from]
         /\ balance'[asset][to] = balance[asset][to] + amount
         /\ \A a \in Asset, u \in Account :
              a # asset \/ u \notin {from, to} => balance'[a][u] = balance[a][u]
<1>1. balance[asset] \in [Account -> Nat] /\ amount <= balance[asset][from]
  BY DEF Move, TokenType
<1>2. \A u \in Account : balance[asset][u] \in Nat
  BY <1>1
<1>3. balance' = [balance EXCEPT ![asset][from] = @ - amount,
                                 ![asset][to]   = @ + amount]
  BY DEF Move
<1> QED
  BY <1>1, <1>2, <1>3 DEF TokenType

LEMMA AccountFacts ==
  /\ ChamberAddress \in Account
  /\ Address \subseteq Account
  /\ ChamberAddress \notin Address
  /\ Recipient \subseteq Address
BY AddressAssumption DEF Account

(* A spend: the nullifier is new, and the amount leaves Chamber.           *)
LEMMA SpendEffect ==
  ASSUME IInv, NEW sender, NEW owner, NEW authDone, NEW amount \in Nat,
         NEW asset \in Asset, NEW recipient \in Address, NEW nullifier,
         SpendTransaction(sender, owner, authDone, amount, asset, recipient, nullifier)
  PROVE  /\ nullifier \notin nullified
         /\ nullified' = nullified \cup {nullifier}
         /\ balance' \in TokenType
         /\ balance'[asset][ChamberAddress] + amount = balance[asset][ChamberAddress]
         /\ \A a \in Asset : a # asset =>
              balance'[a][ChamberAddress] = balance[a][ChamberAddress]
<1> USE DEF IInv, TypeOK, TokenType
<1>1. CASE amount > 0 /\ Move(asset, ChamberAddress, recipient, amount)
  <2>1. recipient \in Account /\ recipient # ChamberAddress
    BY AccountFacts
  <2>2. balance \in TokenType
    OBVIOUS
  <2> QED
    BY <1>1, <2>1, <2>2, MoveEffect, AccountFacts DEF SpendTransaction, CanSpend
<1>2. CASE amount = 0 /\ UNCHANGED balance
  <2>1. balance[asset][ChamberAddress] \in Nat
    BY AccountFacts
  <2> QED
    BY <1>2, <2>1 DEF SpendTransaction, CanSpend
<1> QED
  BY <1>1, <1>2 DEF SpendTransaction

(* What an append of no, one or two transactions adds, in each token.      *)
LEMMA AppendedValue ==
  ASSUME txArray \in Seq(Tx), NEW t1 \in Tx, NEW t2 \in Tx, NEW a \in Asset
  PROVE  /\ txArray' = txArray => Appended(a) = 0
         /\ txArray' = txArray \o <<t1>> => Appended(a) = Value(t1, a)
         /\ txArray' = txArray \o <<t1, t2>> => Appended(a) = Value(t1, a) + Value(t2, a)
<1> DEFINE n == Len(txArray)
<1>1. n \in Nat /\ t1.amount \in Nat /\ t2.amount \in Nat
  BY TxFields
<1>2. ASSUME txArray' = txArray PROVE Appended(a) = 0
  BY <1>2 DEF Appended
<1>3. ASSUME txArray' = txArray \o <<t1>> PROVE Appended(a) = Value(t1, a)
  <2>1. /\ <<t1>> \in Seq(Tx) /\ Len(<<t1>>) = 1 /\ <<t1>>[1] = t1
    OBVIOUS
  <2>2. Len(txArray') = n + 1 /\ txArray'[n + 1] = t1
    BY <1>1, <1>3, <2>1, ConcatProperties
  <2>3. ValueAt(n + 1, a) = Value(t1, a) /\ ValueAt(n + 2, a) = 0
    BY <1>1, <2>2 DEF ValueAt, Value
  <2> QED
    BY <1>1, <2>2, <2>3 DEF Appended, Value
<1>4. ASSUME txArray' = txArray \o <<t1, t2>>
      PROVE  Appended(a) = Value(t1, a) + Value(t2, a)
  <2>1. /\ <<t1, t2>> \in Seq(Tx) /\ Len(<<t1, t2>>) = 2
        /\ <<t1, t2>>[1] = t1 /\ <<t1, t2>>[2] = t2
    OBVIOUS
  <2>2. Len(txArray') = n + 2 /\ txArray'[n + 1] = t1 /\ txArray'[n + 2] = t2
    BY <1>1, <1>4, <2>1, ConcatProperties
  <2>3. ValueAt(n + 1, a) = Value(t1, a) /\ ValueAt(n + 2, a) = Value(t2, a)
    BY <1>1, <2>2 DEF ValueAt, Value
  <2> QED
    BY <1>1, <2>2, <2>3 DEF Appended
<1> QED
  BY <1>2, <1>3, <1>4

LEMMA LeavesOfShort ==
  ASSUME NEW t1, NEW t2
  PROVE  Leaves(<<t1>>) = {t1} /\ Leaves(<<t1, t2>>) = {t1, t2}
<1>1. Len(<<t1>>) = 1 /\ Len(<<t1, t2>>) = 2 /\ 1..1 = {1} /\ 1..2 = {1, 2}
  OBVIOUS
<1> QED
  BY <1>1 DEF Leaves

-----------------------------------------------------------------------------
(* The actions: each preserves the invariant and the value in the pool.    *)

(* A step that leaves the list, the history and the tokens alone.          *)
LEMMA QuietStep ==
  ASSUME IInv, tree' = txArray,
         UNCHANGED <<txArray, merkleRoots, assets, nullified, balance>>
  PROVE  /\ TreeIsCurrent' /\ RootsAreSnapshots' /\ NothingFromNowhere'
         /\ Conserves
<1>1. TreeIsCurrent' /\ RootsAreSnapshots' /\ NothingFromNowhere'
  BY DEF IInv, TreeIsCurrent, RootsAreSnapshots, Snapshots, NothingFromNowhere
<1>2. \A a \in Asset : balance[a][ChamberAddress] \in Nat
  BY AccountFacts DEF IInv, TypeOK
<1> QED
  BY <1>1, <1>2 DEF Conserves, Appended

LEMMA ApproveStep ==
  ASSUME IInv, NEW sender \in Address, NEW asset \in Asset, NEW amount \in Nat,
         Approve(sender, asset, amount)
  PROVE  IInv' /\ Conserves
<1>1. TypeOK'
  BY DEF Approve, chamberVars, IInv, TypeOK, Account
<1> QED
  BY <1>1, QuietStep DEF Approve, chamberVars, IInv, TreeIsCurrent

LEMMA SetVerifierStep ==
  ASSUME IInv, NEW sender, NEW v \in Verifier \cup {NoVerifier}, SetVerifier(sender, v)
  PROVE  IInv' /\ Conserves
<1>1. TypeOK'
  BY DEF SetVerifier, tokenVars, IInv, TypeOK
<1> QED
  BY <1>1, QuietStep DEF SetVerifier, tokenVars, IInv, TreeIsCurrent

LEMMA RecalculateStep ==
  ASSUME IInv, RecalculateMerkleRoot
  PROVE  IInv' /\ Conserves
<1>1. TypeOK'
  BY DEF RecalculateMerkleRoot, tokenVars, IInv, TypeOK
<1> QED
  BY <1>1, QuietStep DEF RecalculateMerkleRoot, tokenVars, IInv

LEMMA DepositStep ==
  ASSUME IInv, NEW sender \in Address, NEW secret \in Secrets, NEW amount \in Amount,
         NEW asset \in Asset, Deposit(sender, secret, amount, asset)
  PROVE  IInv' /\ Conserves
<1> DEFINE tx == HashWithAsset(secret, asset, amount)
<1>1. tx \in Tx /\ <<tx>> \in Seq(Tx) /\ amount \in Nat
  BY HashType, BoundAssumption DEF Amount
<1>2. tx.asset = asset /\ tx.amount = amount
  BY DEF HashWithAsset
<1>3. AddNewTxs(<<tx>>) /\ UNCHANGED <<nullified, verifier>>
  BY DEF Deposit
<1> HIDE DEF tx
<1>4. /\ txArray' \in Seq(Tx) /\ tree' \in Seq(Tx) /\ merkleRoots' \subseteq Seq(Tx)
      /\ TreeIsCurrent' /\ RootsAreSnapshots'
      /\ Leaves(txArray') = Leaves(txArray) \cup {tx}
  BY <1>1, <1>3, AddNewTxsEffect, LeavesOfShort
<1>5. /\ balance' \in TokenType
      /\ balance'[asset][ChamberAddress] = balance[asset][ChamberAddress] + amount
      /\ \A a \in Asset : a # asset =>
           balance'[a][ChamberAddress] = balance[a][ChamberAddress]
  <2>1. Move(asset, sender, ChamberAddress, amount)
    BY DEF Deposit, TransferFrom
  <2>2. balance \in TokenType
    BY DEF IInv, TypeOK, TokenType
  <2>3. sender \in Account /\ sender # ChamberAddress /\ ChamberAddress \in Account
    BY AccountFacts
  <2> QED
    BY <1>1, <2>1, <2>2, <2>3, MoveEffect
<1>6. allowance' \in TokenType
  <2>1. /\ amount <= allowance[asset][sender]
        /\ allowance' = [allowance EXCEPT ![asset][sender] = @ - amount]
    BY DEF Deposit, TransferFrom
  <2>2. allowance \in TokenType /\ sender \in Account
    BY AccountFacts DEF IInv, TypeOK, TokenType
  <2>3. allowance[asset][sender] - amount \in Nat
    BY <1>1, <2>1, <2>2 DEF TokenType
  <2> QED
    BY <2>1, <2>2, <2>3 DEF TokenType
<1>7. /\ assets' = [assets EXCEPT ![secret] = [amount |-> amount, addr |-> asset]]
      /\ assets' \in [Secrets -> [amount : Amount, addr : Asset \cup {NoAsset}]]
  BY DEF Deposit, IInv, TypeOK
<1>8. TypeOK'
  BY <1>3, <1>4, <1>5, <1>6, <1>7 DEF IInv, TypeOK, TokenType
<1>9. NothingFromNowhere'
  <2>1. nullified' \subseteq { NullifierOf(t) : t \in Leaves(txArray') }
    BY <1>3, <1>4 DEF IInv, NothingFromNowhere
  <2>2. ASSUME NEW s \in Secrets, assets'[s].amount # 0
        PROVE  HashWithAsset(s, assets'[s].addr, assets'[s].amount) \in Leaves(txArray')
    <3>1. CASE s = secret
      BY <1>4, <1>7, <3>1 DEF tx, IInv, TypeOK
    <3>2. CASE s # secret
      <4>1. assets'[s] = assets[s]
        BY <1>7, <3>2 DEF IInv, TypeOK
      <4> QED
        BY <1>4, <2>2, <4>1 DEF IInv, NothingFromNowhere
    <3> QED
      BY <3>1, <3>2
  <2> QED
    BY <2>1, <2>2 DEF NothingFromNowhere
<1>10. Conserves
  <2>1. txArray \in Seq(Tx) /\ txArray' = txArray \o <<tx>>
    BY <1>3 DEF AddNewTxs, IInv, TypeOK
  <2>2. \A a \in Asset : Appended(a) = Value(tx, a)
    BY <1>1, <2>1, AppendedValue
  <2>3. \A a \in Asset : Value(tx, a) = IF a = asset THEN amount ELSE 0
    BY <1>2 DEF Value
  <2>4. \A a \in Asset : balance[a][ChamberAddress] \in Nat
    BY AccountFacts DEF IInv, TypeOK
  <2> QED
    BY <1>3, <1>5, <2>2, <2>3, <2>4 DEF Conserves
<1> QED
  BY <1>4, <1>8, <1>9, <1>10 DEF IInv

(* What is paid out of tx and what is appended add up to tx.               *)
AddsUp(tx, amount) ==
  \A a \in Asset :
    /\ Appended(a) \in Nat
    /\ Value(tx, a) = (IF a = tx.asset THEN amount ELSE 0) + Appended(a)

(* A step that appends something, or nothing, and keeps tree and history.  *)
ListGrows ==
  /\ txArray' \in Seq(Tx) /\ tree' \in Seq(Tx) /\ merkleRoots' \subseteq Seq(Tx)
  /\ TreeIsCurrent' /\ RootsAreSnapshots'
  /\ Leaves(txArray) \subseteq Leaves(txArray')

(* A spend of tx, whatever appends its outputs, if the amounts add up.     *)
LEMMA SpendStep ==
  ASSUME IInv, NEW tx \in Leaves(txArray), NEW sender, NEW owner, NEW authDone,
         NEW amount \in Nat, NEW recipient \in Address,
         SpendTransaction(sender, owner, authDone, amount, tx.asset, recipient,
                          NullifierOf(tx)),
         UNCHANGED <<assets, verifier, allowance>>,
         ListGrows, AddsUp(tx, amount)
  PROVE  IInv' /\ Conserves
<1>1. tx \in Tx /\ tx.asset \in Asset
  BY LeavesAreTxs, TxFields DEF IInv, TypeOK
<1>2. /\ NullifierOf(tx) \notin nullified
      /\ nullified' = nullified \cup {NullifierOf(tx)}
      /\ balance' \in TokenType
      /\ balance'[tx.asset][ChamberAddress] + amount = balance[tx.asset][ChamberAddress]
      /\ \A a \in Asset : a # tx.asset =>
           balance'[a][ChamberAddress] = balance[a][ChamberAddress]
  BY <1>1, SpendEffect
<1>3. TypeOK'
  BY <1>1, <1>2, NullifierType DEF IInv, TypeOK, TokenType, ListGrows
<1>4. NothingFromNowhere'
  BY <1>2 DEF IInv, NothingFromNowhere, ListGrows
<1>5. Conserves
  <2>1. ASSUME NEW a \in Asset
        PROVE  balance'[a][ChamberAddress] + Value(tx, a) =
                 balance[a][ChamberAddress] + Appended(a)
    <3>1. /\ balance[a][ChamberAddress] \in Nat
          /\ balance'[a][ChamberAddress] \in Nat
          /\ Appended(a) \in Nat
      BY <1>2, AccountFacts DEF IInv, TypeOK, TokenType, AddsUp
    <3> QED
      BY <1>2, <3>1 DEF AddsUp
  <2> QED
    BY <1>2, <2>1 DEF Conserves
<1> QED
  BY <1>3, <1>4, <1>5 DEF IInv, ListGrows

LEMMA NoZkStep ==
  ASSUME IInv, NEW sender, NEW root \in Snapshots, NEW tx \in Leaves(root),
         NEW newSecret \in Secrets, NEW newAmount \in Amount,
         SeekAndHideNoZk(sender, root, tx, newSecret, newAmount)
  PROVE  IInv' /\ Conserves
<1> DEFINE new == HashWithAsset(newSecret, tx.asset, newAmount)
<1>1. txArray \in Seq(Tx) /\ tx \in Leaves(txArray) /\ tx \in Tx
  BY SnapshotIsPrefix, LeavesAreTxs DEF IInv, TypeOK
<1>2. /\ tx.asset \in Asset /\ tx.amount \in Nat /\ newAmount \in Nat
      /\ newAmount <= tx.amount /\ tx.amount - newAmount \in Nat
  BY <1>1, TxFields, BoundAssumption DEF SeekAndHideNoZk, Amount
<1>3. new \in Tx /\ <<new>> \in Seq(Tx) /\ new.asset = tx.asset /\ new.amount = newAmount
  BY <1>2, HashType DEF HashWithAsset
<1>4. /\ tx.secret.owner \in Address
      /\ SpendTransaction(sender, tx.secret.owner, newAmount = 0,
           tx.amount - newAmount, tx.asset, tx.secret.owner, NullifierOf(tx))
      /\ UNCHANGED <<assets, verifier, allowance>>
  BY DEF SeekAndHideNoZk, LocateTransaction
<1>5. \/ newAmount # 0 /\ AddNewTxs(<<new>>)
      \/ newAmount = 0 /\ AddNothing
  BY DEF SeekAndHideNoZk
<1> HIDE DEF new
<1>6. CASE newAmount # 0 /\ AddNewTxs(<<new>>)
  <2>1. \A a \in Asset : Appended(a) = Value(new, a)
    BY <1>1, <1>3, <1>6, AppendedValue DEF AddNewTxs, IInv, TreeIsCurrent
  <2>2. AddsUp(tx, tx.amount - newAmount)
    BY <1>2, <1>3, <2>1 DEF Value, AddsUp
  <2>3. ListGrows
    BY <1>3, <1>6, AddNewTxsEffect DEF ListGrows
  <2> QED
    BY <1>1, <1>2, <1>4, <2>2, <2>3, SpendStep
<1>7. CASE newAmount = 0 /\ AddNothing
  <2>1. \A a \in Asset : Appended(a) = 0
    BY <1>1, <1>3, <1>7, AppendedValue DEF AddNothing
  <2>2. AddsUp(tx, tx.amount - newAmount)
    BY <1>2, <1>7, <2>1 DEF Value, AddsUp
  <2>3. ListGrows
    BY <1>7 DEF ListGrows, AddNothing, IInv, TypeOK, TreeIsCurrent, RootsAreSnapshots, Snapshots
  <2> QED
    BY <1>1, <1>2, <1>4, <2>2, <2>3, SpendStep
<1> QED
  BY <1>5, <1>6, <1>7

(* handleZkp, with the inputs of any proof the verifier accepts.           *)
LEMMA ZkStep ==
  ASSUME IInv, NEW sender, NEW root \in Snapshots, NEW tx \in Leaves(root),
         NEW authDone, NEW amount \in Nat, NEW recipient \in Address,
         NEW tx1 \in Tx, NEW tx2 \in Tx,
         HandleZkp(sender, MistInput(root, tx, authDone, amount, recipient, tx1, tx2), tx)
  PROVE  IInv' /\ Conserves
<1>1. txArray \in Seq(Tx) /\ tx \in Leaves(txArray) /\ tx \in Tx
  BY SnapshotIsPrefix, LeavesAreTxs DEF IInv, TypeOK
<1>2. /\ tx.amount \in Nat /\ tx1.amount \in Nat /\ tx2.amount \in Nat
      /\ <<tx1, tx2>> \in Seq(Tx)
  BY <1>1, TxFields
<1>3. /\ tx1.asset = tx.asset /\ tx2.asset = tx.asset
      /\ amount + tx1.amount + tx2.amount = tx.amount
  BY DEF HandleZkp, CanHandleZkp, MistProof, MistInput
<1>4. /\ SpendTransaction(sender, tx.secret.owner, authDone, amount, tx.asset,
                          recipient, NullifierOf(tx))
      /\ AddNewTxs(<<tx1, tx2>>)
      /\ UNCHANGED <<assets, verifier, allowance>>
  BY DEF HandleZkp, MistInput
<1>5. \A a \in Asset : Appended(a) = Value(tx1, a) + Value(tx2, a)
  BY <1>1, <1>4, AppendedValue DEF AddNewTxs
<1>6. AddsUp(tx, amount)
  BY <1>2, <1>3, <1>5 DEF Value, AddsUp
<1>7. ListGrows
  BY <1>2, <1>4, AddNewTxsEffect DEF ListGrows
<1> QED
  BY <1>1, <1>4, <1>6, <1>7, SpendStep

(* A step of ZkSpend is a handleZkp with well-formed transactions.         *)
LEMMA ZkSpendParts ==
  ASSUME IInv, NEW sender, ZkSpend(sender)
  PROVE  \E root \in Snapshots, authDone \in BOOLEAN, recipient \in Address,
            amount \in Nat, tx1, tx2 \in Tx : \E tx \in Leaves(root) :
           HandleZkp(sender, MistInput(root, tx, authDone, amount, recipient, tx1, tx2), tx)
<1>1. PICK root \in Snapshots : \E tx \in Leaves(root), authDone \in BOOLEAN,
        recipient \in Recipient, s1, s2 \in Secrets : \E w, a1 \in 0..tx.amount :
        /\ w + a1 <= tx.amount
        /\ HandleZkp(sender,
             MistInput(root, tx, authDone, w, recipient,
                       HashWithAsset(s1, tx.asset, a1),
                       HashWithAsset(s2, tx.asset, tx.amount - (w + a1))), tx)
  BY DEF ZkSpend
<1>2. PICK tx \in Leaves(root), authDone \in BOOLEAN, recipient \in Recipient,
           s1 \in Secrets, s2 \in Secrets : \E w, a1 \in 0..tx.amount :
        /\ w + a1 <= tx.amount
        /\ HandleZkp(sender,
             MistInput(root, tx, authDone, w, recipient,
                       HashWithAsset(s1, tx.asset, a1),
                       HashWithAsset(s2, tx.asset, tx.amount - (w + a1))), tx)
  BY <1>1
<1>3. PICK w \in 0..tx.amount, a1 \in 0..tx.amount :
        /\ w + a1 <= tx.amount
        /\ HandleZkp(sender,
             MistInput(root, tx, authDone, w, recipient,
                       HashWithAsset(s1, tx.asset, a1),
                       HashWithAsset(s2, tx.asset, tx.amount - (w + a1))), tx)
  BY <1>2
<1>4. tx \in Tx
  BY SnapshotIsPrefix, LeavesAreTxs DEF IInv, TypeOK
<1>5. tx.asset \in Asset /\ tx.amount \in Amount /\ tx.amount \in Nat
  BY <1>4, TxFields
<1>6. a1 \in Amount /\ tx.amount - (w + a1) \in Amount /\ w \in Nat
  BY <1>3, <1>5, BoundAssumption DEF Amount
<1>7. /\ HashWithAsset(s1, tx.asset, a1) \in Tx
      /\ HashWithAsset(s2, tx.asset, tx.amount - (w + a1)) \in Tx
  BY <1>5, <1>6, HashType
<1>8. recipient \in Address
  BY AccountFacts
<1> QED
  BY <1>3, <1>6, <1>7, <1>8

(* A step of NoZkSpend is a seekAndHideNoZk, that withdrawNoZk calls as    *)
(* Chamber and with nothing to wrap again.                                 *)
LEMMA NoZkSpendParts ==
  ASSUME IInv, NEW sender, NoZkSpend(sender)
  PROVE  \E root \in Snapshots, from \in {sender, ChamberAddress}, s \in Secrets,
            newAmount \in Amount : \E tx \in Leaves(root) :
           /\ from = ChamberAddress => from = sender \/ newAmount = 0
           /\ SeekAndHideNoZk(from, root, tx, s, newAmount)
<1>1. PICK root \in Snapshots : \E tx \in Leaves(root) :
        \/ WithdrawNoZk(root, tx)
        \/ \E s \in Secrets, newAmount \in Amount :
             SeekAndHideNoZk(sender, root, tx, s, newAmount)
  BY DEF NoZkSpend
<1>2. PICK tx \in Leaves(root) :
        \/ WithdrawNoZk(root, tx)
        \/ \E s \in Secrets, newAmount \in Amount :
             SeekAndHideNoZk(sender, root, tx, s, newAmount)
  BY <1>1
<1>3. tx.secret \in Secrets /\ 0 \in Amount
  BY SnapshotIsPrefix, LeavesAreTxs, TxFields, BoundAssumption
     DEF IInv, TypeOK, Amount
<1> QED
  BY <1>2, <1>3 DEF WithdrawNoZk

(* Any call, by any account.                                               *)
LEMMA CallStep ==
  ASSUME IInv, NEW sender \in Address, Call(sender)
  PROVE  IInv' /\ Conserves
<1>1. CASE \E asset \in Asset : \E amount \in Approval[asset][sender] :
             Approve(sender, asset, amount)
  <2>1. \A asset \in Asset : Approval[asset][sender] \subseteq Nat
    BY ApprovalAssumption
  <2> QED
    BY <1>1, <2>1, ApproveStep
<1>2. CASE \E s \in Secrets, amount \in Amount, asset \in Asset :
             Room(1) /\ Deposit(sender, s, amount, asset)
  BY <1>2, DepositStep
<1>3. CASE NoZkSpend(sender)
  BY <1>3, NoZkSpendParts, NoZkStep
<1>4. CASE ZkSpend(sender)
  BY <1>4, ZkSpendParts, ZkStep
<1>5. CASE \E v \in Verifier \cup {NoVerifier} : SetVerifier(sender, v)
  BY <1>5, SetVerifierStep
<1>6. CASE RecalculateMerkleRoot
  BY <1>6, RecalculateStep
<1> QED
  BY <1>1, <1>2, <1>3, <1>4, <1>5, <1>6 DEF Call

LEMMA StutterStep ==
  ASSUME IInv, UNCHANGED vars
  PROVE  IInv'
BY DEF vars, IInv, TypeOK, TreeIsCurrent, RootsAreSnapshots, Snapshots, NothingFromNowhere

LEMMA InitInv ==
  ASSUME Init
  PROVE  IInv
<1>1. TypeOK
  <2>1. balance \in [Asset -> [Account -> Nat]]
    BY BalanceAssumption DEF Init, Account
  <2>2. assets \in [Secrets -> [amount : Amount, addr : Asset \cup {NoAsset}]]
    BY BoundAssumption DEF Init, Amount
  <2> QED
    BY <2>1, <2>2 DEF Init, TypeOK
<1>2. Snapshots = {}
  BY DEF Init, Snapshots
<1> QED
  BY <1>1, <1>2 DEF Init, IInv, TreeIsCurrent, RootsAreSnapshots, NothingFromNowhere

-----------------------------------------------------------------------------
(* The refinement of the append-only log.                                  *)

LEMMA AppendExtendsLog ==
  ASSUME IInv, NEW txs \in Seq(Tx), txs # <<>>, AddNewTxs(txs)
  PROVE  Log!Extend
<1> DEFINE n == Len(txArray)
           m == Len(txs)
<1>1. txArray \in Seq(Tx) /\ n \in Nat /\ m \in Nat
  BY DEF IInv, TypeOK
<1>2. m > 0
  BY <1>1, EmptySeq
<1>3. txArray' = txArray \o txs /\ Len(txArray') = n + m /\ txArray' \in Seq(Tx)
  BY <1>1, ConcatProperties DEF AddNewTxs
<1>4. txArray = SubSeq(txArray', 1, Len(txArray))
  <2>1. CASE n = 0
    BY <1>1, <1>3, <2>1, SubSeqEmpty, EmptySeq
  <2>2. CASE n # 0
    <3>1. 1 \in 1..n /\ n \in 1..n
      BY <1>1, <2>2
    <3>2. SubSeq(txArray', 1, n) = SubSeq(txArray, 1, n)
      BY <1>1, <1>3, <3>1, SubSeqOfConcat1
    <3> QED
      BY <1>1, <3>2, SubSeqFull
  <2> QED
    BY <2>1, <2>2
<1>5. merkleRoots' = merkleRoots \cup { SubSeq(txArray', 1, n + k) : k \in 1..m }
  BY <1>3 DEF AddNewTxs, IInv, TreeIsCurrent
<1>6. { SubSeq(txArray', 1, n + k) : k \in 1..m } =
        { SubSeq(txArray', 1, k) : k \in (n + 1)..Len(txArray') }
  <2>1. ASSUME NEW k \in 1..m PROVE n + k \in (n + 1)..Len(txArray')
    BY <1>1, <1>3
  <2>2. ASSUME NEW k \in (n + 1)..Len(txArray')
        PROVE  k - n \in 1..m /\ k = n + (k - n)
    BY <1>1, <1>3
  <2> QED
    BY <2>1, <2>2
<1>7. Len(txArray) < Len(txArray')
  BY <1>1, <1>2, <1>3
<1>8. merkleRoots' = merkleRoots \cup Log!PrefixesAfter(txArray', Len(txArray))
  BY <1>5, <1>6 DEF Log!PrefixesAfter
<1> QED
  BY <1>4, <1>7, <1>8 DEF Log!Extend

(* A call appends no, one or two transactions, and records their roots.    *)
LEMMA CallAppends ==
  ASSUME IInv, NEW sender \in Address, Call(sender)
  PROVE  \/ UNCHANGED <<txArray, merkleRoots>>
         \/ \E t1, t2 \in Tx : AddNewTxs(<<t1>>) \/ AddNewTxs(<<t1, t2>>)
<1>1. CASE \E asset \in Asset : \E amount \in Approval[asset][sender] :
             Approve(sender, asset, amount)
  BY <1>1 DEF Approve, chamberVars
<1>2. CASE \E s \in Secrets, amount \in Amount, asset \in Asset :
             Room(1) /\ Deposit(sender, s, amount, asset)
  BY <1>2, HashType DEF Deposit
<1>3. CASE NoZkSpend(sender)
  <2>1. PICK root \in Snapshots, from \in {sender, ChamberAddress}, s \in Secrets,
             newAmount \in Amount : \E tx \in Leaves(root) :
          SeekAndHideNoZk(from, root, tx, s, newAmount)
    BY <1>3, NoZkSpendParts
  <2>2. PICK tx \in Leaves(root) : SeekAndHideNoZk(from, root, tx, s, newAmount)
    BY <2>1
  <2>3. tx \in Tx
    BY SnapshotIsPrefix, LeavesAreTxs DEF IInv, TypeOK
  <2>4. HashWithAsset(s, tx.asset, newAmount) \in Tx
    BY <2>3, TxFields, HashType
  <2> QED
    BY <2>2, <2>4 DEF SeekAndHideNoZk, AddNothing
<1>4. CASE ZkSpend(sender)
  <2>1. PICK root \in Snapshots, authDone \in BOOLEAN, recipient \in Address,
             amount \in Nat, tx1 \in Tx, tx2 \in Tx : \E tx \in Leaves(root) :
          HandleZkp(sender, MistInput(root, tx, authDone, amount, recipient, tx1, tx2), tx)
    BY <1>4, ZkSpendParts
  <2>2. AddNewTxs(<<tx1, tx2>>)
    BY <2>1 DEF HandleZkp, MistInput
  <2> QED
    BY <2>2
<1>5. CASE \E v \in Verifier \cup {NoVerifier} : SetVerifier(sender, v)
  BY <1>5 DEF SetVerifier
<1>6. CASE RecalculateMerkleRoot
  BY <1>6 DEF RecalculateMerkleRoot
<1> QED
  BY <1>1, <1>2, <1>3, <1>4, <1>5, <1>6 DEF Call

LEMMA CallExtendsLog ==
  ASSUME IInv, NEW sender \in Address, Call(sender)
  PROVE  Log!Extend \/ UNCHANGED <<txArray, merkleRoots>>
<1>1. ASSUME NEW t1 \in Tx, NEW t2 \in Tx,
             AddNewTxs(<<t1>>) \/ AddNewTxs(<<t1, t2>>)
      PROVE  Log!Extend
  <2>1. /\ <<t1>> \in Seq(Tx) /\ <<t1>> # <<>>
        /\ <<t1, t2>> \in Seq(Tx) /\ <<t1, t2>> # <<>>
    OBVIOUS
  <2> QED
    BY <1>1, <2>1, AppendExtendsLog
<1> QED
  BY <1>1, CallAppends

-----------------------------------------------------------------------------
(* The total of a finite set of transactions.  What a fold computes is     *)
(* shown by smallest counterexamples.                                      *)

(* The fold behind Total: which element comes first, and what the function *)
(* it defines by recursion has to satisfy on the subsets of S.             *)
First(s) == CHOOSE x \in s : TRUE

SumsUp(f, S) ==
  f = [s \in SUBSET S |-> IF s = {} THEN 0 ELSE First(s).amount + f[s \ {First(s)}]]

(* A set of subsets of a finite set has a smallest member.                 *)
LEMMA MinimalSubset ==
  ASSUME NEW S, IsFiniteSet(S), NEW D \in SUBSET SUBSET S, D # {}
  PROVE  \E s \in D : IsFiniteSet(s) /\ \A t \in D : t \subseteq s => t = s
<1>1. FiniteSubsetsOf(S) = SUBSET S
  BY FS_FiniteSubsetsOfFinite
<1>2. \E s \in D : \A t \in D : <<t, s>> \notin StrictSubsetOrdering(S)
  BY <1>1, FS_StrictSubsetOrderingWellFounded, WFMin
<1>3. PICK s \in D : \A t \in D : <<t, s>> \notin StrictSubsetOrdering(S)
  BY <1>2
<1>4. \A t \in D : t \subseteq s => t = s
  BY <1>3 DEF StrictSubsetOrdering
<1>5. IsFiniteSet(s)
  BY FS_Subset
<1> QED
  BY <1>4, <1>5

LEMMA FirstFacts ==
  ASSUME NEW s, s # {}
  PROVE  First(s) \in s /\ s \ {First(s)} \subseteq s /\ s \ {First(s)} # s
BY DEF First

(* The functions of a set and of a subset of it agree.                     *)
LEMMA SumsAgree ==
  ASSUME NEW S, IsFiniteSet(S), NEW T \in SUBSET S, NEW f, NEW g,
         SumsUp(f, S), SumsUp(g, T), NEW s \in SUBSET T
  PROVE  f[s] = g[s]
<1> DEFINE D == { t \in SUBSET T : f[t] # g[t] }
<1> SUFFICES ASSUME D # {} PROVE FALSE
  OBVIOUS
<1>1. IsFiniteSet(T) /\ D \in SUBSET SUBSET T
  BY FS_Subset
<1>2. PICK t \in D : \A u \in D : u \subseteq t => u = t
  <2> HIDE DEF D
  <2> QED BY <1>1, MinimalSubset
<1>3. /\ f[t] = IF t = {} THEN 0 ELSE First(t).amount + f[t \ {First(t)}]
      /\ g[t] = IF t = {} THEN 0 ELSE First(t).amount + g[t \ {First(t)}]
  BY DEF SumsUp
<1>4. CASE t = {}
  BY <1>3, <1>4
<1>5. CASE t # {}
  <2>1. f[t \ {First(t)}] = g[t \ {First(t)}]
    BY <1>2, <1>5, FirstFacts
  <2> QED
    BY <1>3, <1>5, <2>1
<1> QED
  BY <1>4, <1>5

(* The recursion defines a function: a smallest set on which it did not    *)
(* would have one, put together from those of its subsets.                 *)
LEMMA SumExists ==
  ASSUME NEW S, IsFiniteSet(S)
  PROVE  \E f : SumsUp(f, S)
<1> DEFINE D == { T \in SUBSET S : ~ \E f : SumsUp(f, T) }
<1> SUFFICES ASSUME D # {} PROVE FALSE
  OBVIOUS
<1>1. PICK T \in D : IsFiniteSet(T) /\ \A U \in D : U \subseteq T => U = T
  <2>1. D \in SUBSET SUBSET S
    OBVIOUS
  <2> HIDE DEF D
  <2> QED BY <2>1, MinimalSubset
<1> DEFINE Fn(U) == CHOOSE f : SumsUp(f, U)
           Rest(s) == s \ {First(s)}
           f == [s \in SUBSET T |->
                   IF s = {} THEN 0 ELSE First(s).amount + Fn(Rest(s))[Rest(s)]]
<1>2. ASSUME NEW U \in SUBSET T, U # T PROVE SumsUp(Fn(U), U)
  BY <1>1, <1>2
<1>3. ASSUME NEW s \in SUBSET T, s # {}
      PROVE  f[Rest(s)] = Fn(Rest(s))[Rest(s)]
  <2> DEFINE r == Rest(s)
  <2>1. r \in SUBSET T /\ r # T /\ SumsUp(Fn(r), r)
    BY <1>2, <1>3, FirstFacts
  <2>2. Fn(r)[r] = IF r = {} THEN 0 ELSE First(r).amount + Fn(r)[Rest(r)]
    BY <2>1 DEF SumsUp
  <2>3. CASE r = {}
    BY <2>1, <2>2, <2>3
  <2>4. CASE r # {}
    <3>1. Rest(r) \in SUBSET r /\ Rest(r) \in SUBSET T /\ Rest(r) # T
      BY <2>1, <2>4, FirstFacts
    <3>2. IsFiniteSet(r)
      BY <1>1, <2>1, FS_Subset
    <3>3. SumsUp(Fn(Rest(r)), Rest(r))
      BY <1>2, <3>1
    <3> HIDE DEF Fn, r
    <3>4. Fn(r)[Rest(r)] = Fn(Rest(r))[Rest(r)]
      BY <2>1, <3>1, <3>2, <3>3, SumsAgree
    <3>5. f[r] = First(r).amount + Fn(Rest(r))[Rest(r)]
      BY <2>1, <2>4
    <3> QED
      BY <2>2, <2>4, <3>4, <3>5 DEF r
  <2> QED
    BY <2>3, <2>4
<1>4. SumsUp(f, T)
  <2>1. f = [s \in SUBSET T |-> IF s = {} THEN 0 ELSE First(s).amount + f[Rest(s)]]
    <3> HIDE DEF Fn, Rest
    <3>1. \A s \in SUBSET T : f[s] = IF s = {} THEN 0 ELSE First(s).amount + f[Rest(s)]
      BY <1>3
    <3>2. f = [s \in SUBSET T |-> f[s]]
      OBVIOUS
    <3> HIDE DEF f
    <3> QED BY <3>1, <3>2
  <2> QED
    BY <2>1 DEF SumsUp
<1> QED
  BY <1>4

(* Total is the value of any function that sums up.                        *)
LEMMA TotalDef ==
  ASSUME NEW S, IsFiniteSet(S), NEW f, SumsUp(f, S), NEW s \in SUBSET S
  PROVE  Total(s) = f[s]
<1>1. Total(s) = (CHOOSE g : SumsUp(g, s))[s]
  BY DEF Total, MapThenSumSet, MapThenFoldSet, SumsUp, First
<1>2. IsFiniteSet(s)
  BY FS_Subset
<1>3. SumsUp(CHOOSE g : SumsUp(g, s), s)
  BY <1>2, SumExists
<1> QED
  BY <1>1, <1>3, SumsAgree

LEMMA TotalEmpty == Total({}) = 0
<1>1. IsFiniteSet({})
  BY FS_EmptySet
<1>2. PICK f : SumsUp(f, {})
  BY <1>1, SumExists
<1>3. Total({}) = f[{}]
  BY <1>1, <1>2, TotalDef
<1> QED
  BY <1>2, <1>3 DEF SumsUp

LEMMA TotalFirst ==
  ASSUME NEW S, IsFiniteSet(S), S # {}
  PROVE  Total(S) = First(S).amount + Total(S \ {First(S)})
<1>1. PICK f : SumsUp(f, S)
  BY SumExists
<1>2. Total(S) = f[S] /\ Total(S \ {First(S)}) = f[S \ {First(S)}]
  BY <1>1, TotalDef
<1> QED
  BY <1>1, <1>2 DEF SumsUp

LEMMA TotalType ==
  ASSUME NEW S, IsFiniteSet(S), \A x \in S : x.amount \in Nat
  PROVE  Total(S) \in Nat
<1> DEFINE D == { s \in SUBSET S : Total(s) \notin Nat }
<1> SUFFICES ASSUME D # {} PROVE FALSE
  OBVIOUS
<1>1. PICK s \in D : IsFiniteSet(s) /\ \A t \in D : t \subseteq s => t = s
  <2>1. D \in SUBSET SUBSET S
    OBVIOUS
  <2> HIDE DEF D
  <2> QED BY <2>1, MinimalSubset
<1>2. s # {}
  BY TotalEmpty
<1>3. Total(s) = First(s).amount + Total(s \ {First(s)})
  BY <1>1, <1>2, TotalFirst
<1>4. First(s) \in s /\ s \ {First(s)} \notin D
  BY <1>1, <1>2, FirstFacts
<1> QED
  BY <1>3, <1>4

(* Any element can be the first one.                                       *)
LEMMA TotalSplit ==
  ASSUME NEW S, IsFiniteSet(S), \A x \in S : x.amount \in Nat, NEW x \in S
  PROVE  Total(S) = x.amount + Total(S \ {x})
<1> DEFINE D == { s \in SUBSET S : \E y \in s : Total(s) # y.amount + Total(s \ {y}) }
<1> SUFFICES ASSUME D # {} PROVE FALSE
  OBVIOUS
<1>1. PICK s \in D : IsFiniteSet(s) /\ \A t \in D : t \subseteq s => t = s
  <2>1. D \in SUBSET SUBSET S
    OBVIOUS
  <2> HIDE DEF D
  <2> QED BY <2>1, MinimalSubset
<1>2. PICK y \in s : Total(s) # y.amount + Total(s \ {y})
  OBVIOUS
<1> DEFINE p == First(s)
<1>3. p \in s /\ Total(s) = p.amount + Total(s \ {p})
  BY <1>1, <1>2, TotalFirst, FirstFacts
<1>4. p # y
  BY <1>2, <1>3
<1> HIDE DEF p
<1> DEFINE sp == s \ {p}
           sy == s \ {y}
           rest == sp \ {y}
<1>5. /\ sp \notin D /\ sy \notin D /\ s \subseteq S
      /\ y \in sp /\ p \in sy
      /\ sy \ {p} = rest
  BY <1>1, <1>3, <1>4
<1>6. Total(sp) = y.amount + Total(rest) /\ Total(sy) = p.amount + Total(rest)
  BY <1>5
<1>7. Total(rest) \in Nat /\ y.amount \in Nat /\ p.amount \in Nat
  <2>1. IsFiniteSet(rest) /\ rest \subseteq S
    BY <1>5, FS_Subset
  <2> QED
    BY <1>3, <1>5, <2>1, TotalType
<1>8. Total(s) = p.amount + Total(sp) /\ Total(s) # y.amount + Total(sy)
  BY <1>2, <1>3
<1> HIDE DEF D, sp, sy, rest
<1> QED
  BY <1>6, <1>7, <1>8

LEMMA TotalAdd ==
  ASSUME NEW S, IsFiniteSet(S), \A x \in S : x.amount \in Nat,
         NEW x, x.amount \in Nat, x \notin S
  PROVE  Total(S \cup {x}) = Total(S) + x.amount
<1> DEFINE T == S \cup {x}
<1>1. IsFiniteSet(T) /\ T \ {x} = S /\ x \in T /\ \A y \in T : y.amount \in Nat
  BY FS_AddElement
<1> HIDE DEF T
<1>2. Total(T) = x.amount + Total(T \ {x})
  BY <1>1, TotalSplit
<1>3. Total(S) \in Nat
  BY TotalType
<1>4. Total(T) = Total(S) + x.amount
  BY <1>1, <1>2, <1>3
<1> QED
  BY <1>4 DEF T

(* ... and of a set with a transaction that is perhaps in it.              *)
LEMMA TotalInsert ==
  ASSUME NEW S, IsFiniteSet(S), \A x \in S : x.amount \in Nat,
         NEW x, x.amount \in Nat
  PROVE  /\ IsFiniteSet(S \cup {x})
         /\ Total(S) \in Nat /\ Total(S \cup {x}) \in Nat
         /\ Total(S \cup {x}) <= Total(S) + x.amount
<1>1. IsFiniteSet(S \cup {x}) /\ \A y \in S \cup {x} : y.amount \in Nat
  BY FS_AddElement
<1>2. Total(S) \in Nat /\ Total(S \cup {x}) \in Nat
  BY <1>1, TotalType
<1>3. CASE x \in S
  <2>1. S \cup {x} = S
    BY <1>3
  <2>2. Total(S) <= Total(S) + x.amount
    BY <1>2
  <2> QED
    BY <1>1, <1>2, <2>1, <2>2
<1>4. CASE x \notin S
  <2>1. Total(S \cup {x}) = Total(S) + x.amount
    BY <1>4, TotalAdd
  <2> QED
    BY <1>1, <1>2, <2>1
<1> QED
  BY <1>3, <1>4

-----------------------------------------------------------------------------
(* Solvency: the balance follows the total of what can still be spent.     *)

LEMMA LeavesAreFinite ==
  ASSUME NEW list \in Seq(Tx)
  PROVE  IsFiniteSet(Leaves(list))
<1> DEFINE f == [i \in 1..Len(list) |-> list[i]]
<1>1. f \in Surjection(1..Len(list), Leaves(list))
  BY DEF Surjection, Leaves
<1>2. IsFiniteSet(1..Len(list))
  BY FS_Interval
<1> HIDE DEF f
<1> QED
  BY <1>1, <1>2, FS_Surjection

(* The part of a set of transactions that can still be spent as asset.     *)
Spendable(txs, asset, spent) ==
  { tx \in txs : tx.asset = asset /\ NullifierOf(tx) \notin spent }

LEMMA SpendableFacts ==
  ASSUME NEW list \in Seq(Tx), NEW asset, NEW spent
  PROVE  /\ IsFiniteSet(Spendable(Leaves(list), asset, spent))
         /\ \A tx \in Spendable(Leaves(list), asset, spent) : tx.amount \in Nat
<1>1. Spendable(Leaves(list), asset, spent) \subseteq Leaves(list)
  BY DEF Spendable
<1> QED
  BY <1>1, LeavesAreFinite, FS_Subset, LeavesAreTxs, TxFields

(* A spend takes the value of one transaction from the total.              *)
LEMMA SpendReducesTotal ==
  ASSUME NEW list \in Seq(Tx), NEW spent, NEW asset \in Asset,
         NEW tx \in Leaves(list), NullifierOf(tx) \notin spent
  PROVE  Total(Spendable(Leaves(list), asset, spent)) =
           Total(Spendable(Leaves(list), asset, spent \cup {NullifierOf(tx)}))
             + Value(tx, asset)
<1> DEFINE before == Spendable(Leaves(list), asset, spent)
           after  == Spendable(Leaves(list), asset, spent \cup {NullifierOf(tx)})
<1>1. \A t \in Leaves(list) : NullifierOf(t) = NullifierOf(tx) <=> t = tx
  BY LeavesAreTxs, NullifierInjective
<1>2. /\ IsFiniteSet(before) /\ \A t \in before : t.amount \in Nat
      /\ IsFiniteSet(after) /\ \A t \in after : t.amount \in Nat
  BY SpendableFacts
<1>3. tx.amount \in Nat
  BY LeavesAreTxs, TxFields
<1>4. Total(after) \in Nat
  BY <1>2, TotalType
<1>5. CASE tx.asset = asset
  <2>1. tx \in before /\ after = before \ {tx}
    BY <1>1, <1>5 DEF Spendable
  <2> HIDE DEF before, after
  <2>2. Total(before) = tx.amount + Total(after)
    BY <1>2, <2>1, TotalSplit
  <2> QED
    BY <1>3, <1>4, <1>5, <2>2 DEF Value, before, after
<1>6. CASE tx.asset # asset
  <2>1. after = before
    BY <1>1, <1>6 DEF Spendable
  <2> HIDE DEF before, after
  <2> QED
    BY <1>4, <1>6, <2>1 DEF Value, before, after
<1> QED
  BY <1>5, <1>6

(* A transaction that is appended adds at most its value.                  *)
LEMMA AppendAddsToTotal ==
  ASSUME NEW txs, IsFiniteSet(txs), txs \subseteq Tx, NEW spent,
         NEW asset \in Asset, NEW tx \in Tx
  PROVE  /\ Total(Spendable(txs, asset, spent)) \in Nat
         /\ Total(Spendable(txs \cup {tx}, asset, spent)) \in Nat
         /\ Total(Spendable(txs \cup {tx}, asset, spent))
              <= Total(Spendable(txs, asset, spent)) + Value(tx, asset)
<1> DEFINE before == Spendable(txs, asset, spent)
           after  == Spendable(txs \cup {tx}, asset, spent)
<1>1. IsFiniteSet(before) /\ \A t \in before : t.amount \in Nat
  <2>1. before \subseteq txs
    BY DEF Spendable
  <2> QED
    BY <2>1, FS_Subset, TxFields
<1>2. tx.amount \in Nat
  BY TxFields
<1>3. CASE tx.asset = asset /\ NullifierOf(tx) \notin spent
  <2>1. after = before \cup {tx}
    BY <1>3 DEF Spendable
  <2> HIDE DEF before, after
  <2>2. /\ Total(before) \in Nat /\ Total(after) \in Nat
        /\ Total(after) <= Total(before) + tx.amount
    BY <1>1, <1>2, <2>1, TotalInsert
  <2> QED
    BY <1>3, <2>2 DEF Value, before, after
<1>4. CASE ~(tx.asset = asset /\ NullifierOf(tx) \notin spent)
  <2>1. after = before
    BY <1>4 DEF Spendable
  <2>2. Value(tx, asset) \in Nat
    BY <1>2 DEF Value
  <2> HIDE DEF before, after
  <2>3. Total(before) \in Nat
    BY <1>1, TotalType
  <2>4. Total(after) <= Total(before) + Value(tx, asset)
    BY <2>1, <2>2, <2>3
  <2> QED
    BY <2>1, <2>3, <2>4 DEF before, after
<1> QED
  BY <1>3, <1>4

(* A step appends no, one or two transactions.                             *)
AppendsFew ==
  \/ UNCHANGED txArray
  \/ \E t1, t2 \in Tx : \/ txArray' = txArray \o <<t1>>
                        \/ txArray' = txArray \o <<t1, t2>>

(* What it appends adds at most its value to the total.                    *)
LEMMA AppendsAddToTotal ==
  ASSUME txArray \in Seq(Tx), AppendsFew, NEW asset \in Asset, NEW spent
  PROVE  /\ Total(Spendable(Leaves(txArray), asset, spent)) \in Nat
         /\ Total(Spendable(Leaves(txArray'), asset, spent)) \in Nat
         /\ Appended(asset) \in Nat
         /\ Total(Spendable(Leaves(txArray'), asset, spent))
              <= Total(Spendable(Leaves(txArray), asset, spent)) + Appended(asset)
<1> DEFINE list == Leaves(txArray)
           T(txs) == Total(Spendable(txs, asset, spent))
<1>1. IsFiniteSet(list) /\ list \subseteq Tx
  BY LeavesAreFinite, LeavesAreTxs
<1>2. \A t \in Tx : t.amount \in Nat /\ Value(t, asset) \in Nat
  BY TxFields DEF Value
<1>3. CASE UNCHANGED txArray
  <2>1. Appended(asset) = 0
    BY <1>3 DEF Appended
  <2>2. T(list) \in Nat
    BY SpendableFacts, TotalType
  <2> HIDE DEF T
  <2>3. T(Leaves(txArray')) = T(list)
    BY <1>3
  <2>4. T(Leaves(txArray')) <= T(list) + Appended(asset)
    BY <2>1, <2>2, <2>3
  <2> QED
    BY <2>1, <2>2, <2>3, <2>4 DEF T
<1>4. ASSUME NEW t1 \in Tx, txArray' = txArray \o <<t1>>
      PROVE  /\ T(list) \in Nat /\ T(Leaves(txArray')) \in Nat
             /\ Appended(asset) \in Nat
             /\ T(Leaves(txArray')) <= T(list) + Appended(asset)
  <2>1. Leaves(txArray') = list \cup {t1}
    <3>1. <<t1>> \in Seq(Tx)
      OBVIOUS
    <3>2. Leaves(txArray') = list \cup Leaves(<<t1>>)
      BY <1>4, <3>1, LeavesOfConcat
    <3>3. Leaves(<<t1>>) = {t1}
      BY LeavesOfShort
    <3> QED
      BY <3>2, <3>3
  <2>2. Appended(asset) = Value(t1, asset)
    BY <1>4, AppendedValue
  <2> HIDE DEF list
  <2> QED
    BY <1>1, <1>2, <2>1, <2>2, AppendAddsToTotal
<1>5. ASSUME NEW t1 \in Tx, NEW t2 \in Tx, txArray' = txArray \o <<t1, t2>>
      PROVE  /\ T(list) \in Nat /\ T(Leaves(txArray')) \in Nat
             /\ Appended(asset) \in Nat
             /\ T(Leaves(txArray')) <= T(list) + Appended(asset)
  <2> DEFINE more == list \cup {t1}
  <2>1. Leaves(txArray') = more \cup {t2}
    <3>1. <<t1, t2>> \in Seq(Tx)
      OBVIOUS
    <3>2. Leaves(txArray') = list \cup Leaves(<<t1, t2>>)
      BY <1>5, <3>1, LeavesOfConcat
    <3>3. Leaves(<<t1, t2>>) = {t1, t2}
      BY LeavesOfShort
    <3> QED
      BY <3>2, <3>3
  <2>2. Appended(asset) = Value(t1, asset) + Value(t2, asset)
    BY <1>5, AppendedValue
  <2> HIDE DEF list, T
  <2>3. IsFiniteSet(more) /\ more \subseteq Tx
    BY <1>1, FS_AddElement
  <2>4. /\ T(list) \in Nat /\ T(more) \in Nat
        /\ T(more) <= T(list) + Value(t1, asset)
    BY <1>1, AppendAddsToTotal DEF T
  <2> HIDE DEF more
  <2>5. /\ T(more \cup {t2}) \in Nat
        /\ T(more \cup {t2}) <= T(more) + Value(t2, asset)
    BY <2>3, AppendAddsToTotal DEF T
  <2> QED
    BY <1>2, <2>1, <2>2, <2>4, <2>5
<1> QED
  BY <1>3, <1>4, <1>5 DEF AppendsFew

(* A step that conserves value keeps the contract solvent.                 *)
LEMMA SolventStep ==
  ASSUME IInv, IInv', Solvent, Conserves, AppendsFew
  PROVE  Solvent'
<1> SUFFICES ASSUME NEW asset \in Asset
             PROVE  Total(Unspent(asset)') <= balance'[asset][ChamberAddress]
  BY DEF Solvent
<1> DEFINE kept  == Spendable(Leaves(txArray), asset, nullified')
           after == Spendable(Leaves(txArray'), asset, nullified')
<1>1. txArray \in Seq(Tx)
  BY DEF IInv, TypeOK
<1>2. /\ balance[asset][ChamberAddress] \in Nat
      /\ balance'[asset][ChamberAddress] \in Nat
  BY AccountFacts DEF IInv, TypeOK
<1>3. /\ Unspent(asset) = Spendable(Leaves(txArray), asset, nullified)
      /\ Unspent(asset)' = after
  BY DEF Unspent, Spendable
<1>4. /\ Total(kept) \in Nat /\ Total(after) \in Nat /\ Appended(asset) \in Nat
      /\ Total(after) <= Total(kept) + Appended(asset)
  BY <1>1, AppendsAddToTotal
<1>5. Total(Spendable(Leaves(txArray), asset, nullified)) <= balance[asset][ChamberAddress]
  BY <1>3 DEF Solvent
<1> HIDE DEF after
<1>6. CASE /\ nullified' = nullified
           /\ balance'[asset][ChamberAddress] =
                balance[asset][ChamberAddress] + Appended(asset)
  <2>1. Total(kept) <= balance[asset][ChamberAddress]
    BY <1>5, <1>6
  <2> HIDE DEF kept
  <2> QED
    BY <1>2, <1>3, <1>4, <1>6, <2>1
<1>7. ASSUME NEW tx \in Leaves(txArray), NullifierOf(tx) \notin nullified,
             nullified' = nullified \cup {NullifierOf(tx)},
             balance'[asset][ChamberAddress] + Value(tx, asset) =
               balance[asset][ChamberAddress] + Appended(asset)
      PROVE  Total(after) <= balance'[asset][ChamberAddress]
  <2>1. Total(Spendable(Leaves(txArray), asset, nullified)) = Total(kept) + Value(tx, asset)
    BY <1>1, <1>7, SpendReducesTotal
  <2>2. Value(tx, asset) \in Nat
    BY <1>1, LeavesAreTxs, TxFields DEF Value
  <2> HIDE DEF kept
  <2> QED
    BY <1>2, <1>4, <1>5, <1>7, <2>1, <2>2
<1> QED
  BY <1>3, <1>6, <1>7 DEF Conserves

LEMMA InitSolvent ==
  ASSUME Init
  PROVE  Solvent
<1>1. \A asset \in Asset : Unspent(asset) = {}
  BY DEF Init, Unspent, Leaves
<1>2. \A asset \in Asset : balance[asset][ChamberAddress] = 0
  BY AccountFacts DEF Init
<1> QED
  BY <1>1, <1>2, TotalEmpty DEF Solvent

LEMMA CallKeepsSolvent ==
  ASSUME IInv, Solvent, NEW sender \in Address, Call(sender)
  PROVE  Solvent'
<1>1. IInv' /\ Conserves
  BY CallStep
<1>2. AppendsFew
  BY CallAppends DEF AddNewTxs, AppendsFew
<1> QED
  BY <1>1, <1>2, SolventStep

-----------------------------------------------------------------------------
(* The theorems.                                                           *)

(* The inductive invariant holds in every reachable state of Chamber.      *)
THEOREM Invariance == Spec => []IInv
<1>1. Init => IInv
  BY InitInv
<1>2. IInv /\ [Next]_vars => IInv'
  BY CallStep, StutterStep DEF Next
<1> QED
  BY <1>1, <1>2, PTL DEF Spec

(* Chamber's variables keep their types, whatever the calls.               *)
THEOREM TypeCorrect == Spec => []TypeOK
<1>1. IInv => TypeOK
  BY DEF IInv
<1> QED
  BY <1>1, Invariance, PTL

(* Chamber accepts exactly the roots its transaction list ever had: no     *)
(* proof made from an old list goes stale, and nothing else can be proved. *)
THEOREM RootsCorrect == Spec => []RootsAreSnapshots
<1>1. IInv => RootsAreSnapshots
  BY DEF IInv
<1> QED
  BY <1>1, Invariance, PTL

(* Nullifiers and registered secrets come from transactions of the list.   *)
THEOREM NothingFromNowhereCorrect == Spec => []NothingFromNowhere
<1>1. IInv => NothingFromNowhere
  BY DEF IInv
<1> QED
  BY <1>1, Invariance, PTL

(* Every step of Chamber conserves value, and a step that spends spends    *)
(* one transaction of the list that was not spent before.                  *)
THEOREM Conservation == Spec => EveryStepConserves
<1>1. IInv /\ [Next]_vars => [Conserves]_vars
  BY CallStep DEF Next
<1> QED
  BY <1>1, Invariance, PTL DEF Spec, EveryStepConserves

(* The contract holds, in every token, what all the transactions that can  *)
(* still be spent are worth together: whoever withdraws last is paid too.  *)
THEOREM Solvency == Spec => []Solvent
<1>1. IInv /\ Solvent /\ [Next]_vars => Solvent'
  <2>1. ASSUME Solvent, UNCHANGED vars PROVE Solvent'
    BY <2>1 DEF vars, Solvent, Unspent
  <2> QED
    BY <2>1, CallKeepsSolvent DEF Next
<1> QED
  BY <1>1, InitSolvent, Invariance, PTL DEF Spec

(* Whatever appends transactions and keeps the invariant extends the log.  *)
LEMMA FewExtendLog ==
  ASSUME IInv, IInv', AppendsFew
  PROVE  [Log!Extend]_<<txArray, merkleRoots>>
<1>1. merkleRoots = Snapshots /\ merkleRoots' = Snapshots' /\ txArray \in Seq(Tx)
  BY DEF IInv, TypeOK, RootsAreSnapshots
<1>2. CASE UNCHANGED txArray
  BY <1>1, <1>2 DEF Snapshots
<1>3. ASSUME NEW txs \in Seq(Tx), Len(txs) \in {1, 2}, txArray' = txArray \o txs
      PROVE  Log!Extend
  <2> DEFINE n == Len(txArray)
             m == Len(txs)
             old(k) == SubSeq(txArray, 1, k)
             new(k) == SubSeq(txArray', 1, k)
  <2>1. n \in Nat /\ m \in Nat /\ Len(txArray') = n + m /\ n < n + m
    <3>1. n \in Nat /\ m \in {1, 2}
      BY <1>1, <1>3, LenProperties
    <3>2. Len(txArray') = n + m
      BY <1>1, <1>3, ConcatProperties
    <3> HIDE DEF n, m
    <3> QED
      BY <3>1, <3>2
  <2>2. ASSUME NEW k \in 1..n PROVE new(k) = old(k)
    <3>1. 1 \in 1..n /\ k \in 1..n
      BY <2>1
    <3> QED
      BY <1>1, <1>3, <3>1, SubSeqOfConcat1
  <2>3. new(n) = txArray
    <3>1. CASE n = 0
      BY <1>1, <3>1, SubSeqEmpty, EmptySeq
    <3>2. CASE n # 0
      <4>1. n \in 1..n
        BY <2>1, <3>2
      <4> QED
        BY <1>1, <2>2, <4>1, SubSeqFull
    <3> QED
      BY <3>1, <3>2
  <2>4. /\ merkleRoots = { old(k) : k \in 1..n }
        /\ merkleRoots' = { new(k) : k \in 1..(n + m) }
        /\ Log!PrefixesAfter(txArray', n) = { new(k) : k \in (n + 1)..(n + m) }
    BY <1>1, <2>1 DEF Snapshots, Log!PrefixesAfter
  <2>5. \A k : k \in 1..(n + m) <=> k \in 1..n \/ k \in (n + 1)..(n + m)
    BY <2>1
  <2> HIDE DEF n, m, old, new
  <2>6. merkleRoots' = merkleRoots \cup Log!PrefixesAfter(txArray', n)
    BY <2>2, <2>4, <2>5
  <2> QED
    BY <2>1, <2>3, <2>6 DEF Log!Extend, n, m, new
<1>4. CASE \E t1, t2 \in Tx : \/ txArray' = txArray \o <<t1>>
                              \/ txArray' = txArray \o <<t1, t2>>
  <2>1. PICK t1 \in Tx, t2 \in Tx : \/ txArray' = txArray \o <<t1>>
                                    \/ txArray' = txArray \o <<t1, t2>>
    BY <1>4
  <2>2. /\ <<t1>> \in Seq(Tx) /\ Len(<<t1>>) = 1
        /\ <<t1, t2>> \in Seq(Tx) /\ Len(<<t1, t2>>) = 2
    OBVIOUS
  <2> QED
    BY <1>3, <2>1, <2>2
<1> QED
  BY <1>2, <1>4 DEF AppendsFew

(* Chamber implements the append-only log of transactions and roots.       *)
THEOREM Refinement == Spec => ImplementsAccumulator
<1>1. Init => Log!Init
  BY DEF Init, Log!Init
<1>2. IInv /\ [Next]_vars => [Log!Extend]_<<txArray, merkleRoots>>
  BY CallExtendsLog DEF Next, vars
<1> QED
  BY <1>1, <1>2, Invariance, PTL DEF Spec, ImplementsAccumulator, Log!Spec

=============================================================================
