-------------------------- MODULE MistStoreProofs --------------------------
(***************************************************************************)
(* Proofs about MistStore, for every value of its constants: that statuses *)
(* are true, and that a reliable store keeps indices fresh.                *)
(***************************************************************************)
EXTENDS MistStore, SequenceTheorems, TLAPS

-----------------------------------------------------------------------------
(* The invariant behind StatusIsTrue.                                      *)

(* A stopped process has no calls; a call that proves, or that has sent,   *)
(* is about a request Chamber has, or has been sent.                       *)
CallsAreTrue ==
  /\ ~running => requests = <<>> /\ \A c \in Calls : targets[c] = {}
  /\ \A c \in Calls : pc[c] = "idle" => targets[c] = {}
  /\ \A c \in Calls : pc[c] \in {"scanning", "checking"} => c \in Checking
  /\ \A c \in Calls : pc[c] \in {"proving", "sent"} => c \in Withdrawing
  /\ \A c \in Withdrawing : \A i, j \in targets[c] : i = j
  /\ \A c \in Calls : pc[c] = "proving" =>
       \A i \in targets[c] : LeafOf(requests[i]) \in list
  /\ \A c \in Calls : pc[c] = "sent" =>
       \A i \in targets[c] :
         \/ LeafOf(requests[i]) \in spent
         \/ [call |-> c, leaf |-> LeafOf(requests[i])] \in sent

SInv == StoreTypeOK /\ StatusIsTrue /\ CallsAreTrue

-----------------------------------------------------------------------------
(* The invariant behind ReliablyFresh.                                     *)

Active(c) == pc[c] \in {"count", "requests"}

IsCount(n) == writes[n].key = "mist_tx_count"

(* What every later process will find under mist_tx_count, once the writes *)
(* from the n-th on are carried out, is above an index.                    *)
AboveFrom(n, index) ==
  \A m \in DOMAIN writes : m >= n /\ IsCount(m) => writes[m].value > index

Above(index) == kv.mist_tx_count > index /\ AboveFrom(1, index)

CountPending(c) == \E n \in DOMAIN writes : writes[n].call = c /\ IsCount(n)

IdleWrites == \A c \in Calls : pc[c] = "idle" => ~Waiting(c)

(* What is shared is a request of its call; once that is over, the counter *)
(* is above it for good.                                                   *)
SharedIsTarget ==
  \A r \in shared :
    /\ pc[r.call] # "idle"
    /\ Active(r.call) =>
         \E i \in targets[r.call] : r.leaf.index = requests[i].index

SharedIsBelow ==
  \A r \in shared :
    pc[r.call] = "done" =>
      Above(r.leaf.index) /\ (running => r.leaf.index < txCount)

(* A request that is being saved: no other has its index, and its counter  *)
(* is a write in flight, which those behind it do not undo, or stored.     *)
SavingIsFresh ==
  \A c \in Requesting : \A i \in targets[c] : Active(c) =>
    /\ requests[i].index < txCount
    /\ \A r \in shared : pc[r.call] = "done" => r.leaf.index # requests[i].index
    /\ \A d \in Requesting : \A j \in targets[d] :
         Active(d) /\ d # c => requests[j].index # requests[i].index
    /\ \A n \in DOMAIN writes :
         writes[n].call = c /\ IsCount(n) => AboveFrom(n, requests[i].index)
    /\ ~CountPending(c) => Above(requests[i].index)

DoneAreFresh ==
  \A r, s \in shared :
    r.call # s.call /\ pc[r.call] = "done" /\ pc[s.call] = "done" =>
      r.leaf.index # s.leaf.index

FreshInv ==
  IdleWrites /\ SharedIsTarget /\ SharedIsBelow /\ SavingIsFresh /\ DoneAreFresh

-----------------------------------------------------------------------------
(* Sequences of requests and of writes.                                    *)

LEMMA SetStatusKeeps ==
  ASSUME requests \in Seq(Request), NEW i \in DOMAIN requests,
         NEW status \in Status, SetStatus(i, status)
  PROVE  /\ requests' \in Seq(Request)
         /\ DOMAIN requests' = DOMAIN requests
         /\ \A j \in DOMAIN requests :
              /\ LeafOf(requests'[j]) = LeafOf(requests[j])
              /\ requests'[j].index = requests[j].index
              /\ j # i => requests'[j] = requests[j]
         /\ requests'[i].status = status
<1>1. requests' = [requests EXCEPT ![i].status = status]
  BY DEF SetStatus
<1>2. requests[i] \in Request /\ DOMAIN requests = 1..Len(requests)
  OBVIOUS
<1>3. [requests[i] EXCEPT !.status = status] \in Request
  BY <1>2 DEF Request
<1> QED
  BY <1>1, <1>2, <1>3 DEF LeafOf, Request

LEMMA AppendKeeps ==
  ASSUME NEW S, NEW s \in Seq(S), NEW e \in S
  PROVE  /\ Append(s, e) \in Seq(S)
         /\ DOMAIN Append(s, e) = DOMAIN s \cup {Len(s) + 1}
         /\ Len(s) + 1 \notin DOMAIN s
         /\ \A i \in DOMAIN s : Append(s, e)[i] = s[i]
         /\ Append(s, e)[Len(s) + 1] = e
OBVIOUS

LEMMA RemoveAtKeeps ==
  ASSUME NEW S, NEW s \in Seq(S), NEW n \in DOMAIN s
  PROVE  RemoveAt(s, n) \in Seq(S)
<1>1. n \in 1..Len(s) /\ Len(s) \in Nat
  OBVIOUS
<1>2. SubSeq(s, 1, n - 1) \in Seq(S) /\ SubSeq(s, n + 1, Len(s)) \in Seq(S)
  BY <1>1
<1> QED
  BY <1>2 DEF RemoveAt

LEMMA RemoveFirstShifts ==
  ASSUME NEW S, NEW s \in Seq(S), 1 \in DOMAIN s
  PROVE  /\ DOMAIN RemoveAt(s, 1) = 1..(Len(s) - 1)
         /\ \A i \in 1..(Len(s) - 1) : i + 1 \in DOMAIN s /\ RemoveAt(s, 1)[i] = s[i + 1]
<1>1. Len(s) \in Nat /\ Len(s) >= 1
  OBVIOUS
<1>2. /\ SubSeq(s, 1, 0) = <<>>
      /\ SubSeq(s, 2, Len(s)) \in Seq(S)
      /\ Len(SubSeq(s, 2, Len(s))) = Len(s) - 1
      /\ \A i \in 1..(Len(s) - 1) : SubSeq(s, 2, Len(s))[i] = s[i + 1]
  <2>1. SubSeq(s, 1, 0) = <<>>
    BY <1>1, SubSeqProperties
  <2>2. SubSeq(s, 2, Len(s)) \in Seq(S)
    BY <1>1
  <2>3. Len(SubSeq(s, 2, Len(s))) = Len(s) - 1
    <3>1. \A i \in 2..Len(s) : s[i] \in S
      OBVIOUS
    <3>2. Len(SubSeq(s, 2, Len(s))) = IF 2 <= Len(s) THEN Len(s) - 2 + 1 ELSE 0
      BY <1>1, <3>1, SubSeqProperties
    <3> QED
      BY <1>1, <3>2
  <2>4. \A i \in 1..(Len(s) - 1) : SubSeq(s, 2, Len(s))[i] = s[i + 1]
    BY <1>1, SubSeqProperties
  <2> QED
    BY <2>1, <2>2, <2>3, <2>4
<1>3. RemoveAt(s, 1) = SubSeq(s, 2, Len(s))
  BY <1>2 DEF RemoveAt
<1> QED
  BY <1>1, <1>2, <1>3

-----------------------------------------------------------------------------
(* Parts of steps.                                                         *)

LEMMA SaveCountType ==
  ASSUME StoreTypeOK, NEW c \in Calls, NEW count \in Nat, SaveCount(c, count)
  PROVE  /\ writes' \in Seq(CountWrite \cup RequestsWrite)
         /\ pc' = [pc EXCEPT ![c] = "count"]
<1>1. [call |-> c, key |-> "mist_tx_count", value |-> count] \in CountWrite \cup RequestsWrite
  BY DEF CountWrite
<1>2. writes \in Seq(CountWrite \cup RequestsWrite)
  BY DEF StoreTypeOK
<1>3. Append(writes, [call |-> c, key |-> "mist_tx_count", value |-> count])
        \in Seq(CountWrite \cup RequestsWrite)
  BY <1>1, <1>2, AppendKeeps
<1> QED
  BY <1>2, <1>3 DEF SaveCount, GoTo

(* What a finished call hands out are requests in memory.                  *)
LEMMA HandOutType ==
  ASSUME StoreTypeOK, NEW c \in Calls, HandOut(c)
  PROVE  shared \subseteq shared' /\ shared' \subseteq [call : Requesting, leaf : Leaf]
<1>1. \A i \in targets[c] : LeafOf(requests[i]) \in Leaf
  <2>1. \A i \in targets[c] : i \in DOMAIN requests
    BY DEF StoreTypeOK
  <2>2. \A i \in DOMAIN requests : requests[i] \in Request
    BY DEF StoreTypeOK
  <2> QED
    BY <2>1, <2>2 DEF LeafOf, Leaf, Request
<1> QED
  BY <1>1 DEF HandOut, StoreTypeOK

(* SInv only looks at requests handed out as a set that holds the list,    *)
(* and at writes by their type.                                            *)
LEMMA SavesKeepSInv ==
  ASSUME SInv, NEW c \in Calls, NEW where \in {"requests", "done", "failed"},
         pc[c] \in {"count", "requests"}, GoTo(c, where),
         writes' \in Seq(CountWrite \cup RequestsWrite),
         shared \subseteq shared', shared' \subseteq [call : Requesting, leaf : Leaf],
         UNCHANGED <<memory, kv, targets, chain, environment>>
  PROVE  SInv'
<1> USE DEF SInv, memory, chain
<1>1. StoreTypeOK'
  BY DEF environment, StoreTypeOK, GoTo
<1>2. StatusIsTrue'
  BY DEF StatusIsTrue
<1>3. CallsAreTrue'
  BY DEF CallsAreTrue, GoTo, StoreTypeOK
<1> QED
  BY <1>1, <1>2, <1>3

LEMMA SaveRequestsKeepsSInv ==
  ASSUME SInv, NEW c \in Calls, SaveRequests(c) \/ Saved(c)
  PROVE  SInv'
<1> USE DEF SInv
<1>1. pc[c] \in {"count", "requests"} /\ UNCHANGED <<memory, kv, targets, chain, environment>>
  BY DEF SaveRequests, Saved
<1>2. CASE Finish(c)
  BY <1>1, <1>2, HandOutType, SavesKeepSInv DEF Finish, StoreTypeOK
<1>3. CASE /\ GoTo(c, "requests")
           /\ writes' = Append(writes, [call |-> c, key |-> "mist_requests", value |-> <<>>])
           /\ UNCHANGED shared
  <2>1. [call |-> c, key |-> "mist_requests", value |-> <<>>] \in CountWrite \cup RequestsWrite
    BY DEF RequestsWrite
  <2>2. writes' \in Seq(CountWrite \cup RequestsWrite)
    BY <1>3, <2>1, AppendKeeps DEF StoreTypeOK
  <2> QED
    BY <1>1, <1>3, <2>2, SavesKeepSInv DEF StoreTypeOK
<1> QED
  BY <1>2, <1>3 DEF SaveRequests, Saved, SaveThrows

LEMMA RequestFundsKeepsSInv ==
  ASSUME SInv, NEW c \in Calls, RequestFunds(c)
  PROVE  SInv'
<1> USE DEF SInv
<1>1. PICK asset \in Asset :
        requests' = Append(requests, [index |-> txCount, asset |-> asset, status |-> "PENDING"])
  BY DEF RequestFunds, Keep
<1> DEFINE new == [index |-> txCount, asset |-> asset, status |-> "PENDING"]
<1>2. new \in Request
  BY DEF Request, Status, StoreTypeOK
<1>3. /\ requests' \in Seq(Request)
      /\ DOMAIN requests' = DOMAIN requests \cup {Len(requests) + 1}
      /\ \A i \in DOMAIN requests : requests'[i] = requests[i]
      /\ requests'[Len(requests) + 1] = new
  BY <1>1, <1>2, AppendKeeps DEF StoreTypeOK
<1>4. /\ writes' \in Seq(CountWrite \cup RequestsWrite)
      /\ pc' = [pc EXCEPT ![c] = "count"]
  <2>1. txCount + 1 \in Nat
    BY DEF StoreTypeOK
  <2> QED
    BY <2>1, SaveCountType DEF RequestFunds
<1>5. StoreTypeOK'
  BY <1>3, <1>4 DEF StoreTypeOK, RequestFunds, chain, environment
<1>6. StatusIsTrue'
  BY <1>3 DEF StatusIsTrue, RequestFunds, chain, LeafOf
<1>7. CallsAreTrue'
  <2>1. \A d \in Calls : d # c => targets'[d] = targets[d] /\ pc'[d] = pc[d]
    BY <1>4 DEF RequestFunds, StoreTypeOK
  <2>2. pc'[c] = "count" /\ running /\ running'
    BY <1>4 DEF RequestFunds, StoreTypeOK
  <2>3. \A d \in Calls : \A i \in targets[d] : LeafOf(requests'[i]) = LeafOf(requests[i])
    <3>1. \A d \in Calls : targets[d] \subseteq DOMAIN requests
      BY DEF StoreTypeOK
    <3> QED
      BY <1>3, <3>1
  <2>4. UNCHANGED <<list, sent, spent>>
    BY DEF RequestFunds, chain
  <2>5. c \notin Withdrawing
    BY CallsDiffer DEF RequestFunds
  <2>6. \A d \in Withdrawing : targets'[d] = targets[d]
    BY <2>1, <2>5 DEF Calls
  <2>7. \A d \in Calls : pc'[d] # "count" => d # c
    BY <2>2
  <2> QED
    BY <2>1, <2>2, <2>3, <2>4, <2>6, <2>7 DEF CallsAreTrue
<1> QED
  BY <1>5, <1>6, <1>7

LEMMA ShareEarlyKeepsSInv ==
  ASSUME SInv, NEW c \in Calls, ShareEarly(c)
  PROVE  SInv'
<1>1. shared \subseteq shared' /\ shared' \subseteq [call : Requesting, leaf : Leaf]
  BY HandOutType DEF ShareEarly, SInv
<1>2. StoreTypeOK'
  BY <1>1 DEF StoreTypeOK, ShareEarly, SInv, memory, chain, environment
<1>3. StatusIsTrue' /\ CallsAreTrue'
  BY DEF SInv, StatusIsTrue, CallsAreTrue, ShareEarly, memory, chain, environment
<1> QED
  BY <1>2, <1>3 DEF SInv

(* A call that comes to be about some requests, and is to ask for the list *)
(* or has asked for it.                                                    *)
LEMMA TargetsKeepSInv ==
  ASSUME SInv, running, NEW c \in Calls, NEW S \in SUBSET DOMAIN requests,
         NEW where \in {"scanning", "checking", "proving", "failed"},
         where \in {"scanning", "checking"} => c \in Checking,
         c \in Withdrawing => \A i, j \in S : i = j,
         where = "proving" =>
           c \in Withdrawing /\ \A i \in S : LeafOf(requests[i]) \in list,
         targets' = [targets EXCEPT ![c] = S], GoTo(c, where),
         UNCHANGED <<memory, kv, writes, shared, chain, environment>>
  PROVE  SInv'
<1> USE DEF SInv, memory, chain
<1>1. StoreTypeOK'
  BY DEF environment, StoreTypeOK, GoTo
<1>2. StatusIsTrue'
  BY DEF StatusIsTrue
<1>3. /\ pc'[c] = where /\ targets'[c] = S
      /\ \A d \in Calls : d # c => pc'[d] = pc[d] /\ targets'[d] = targets[d]
  BY DEF GoTo, StoreTypeOK
<1>4. CallsAreTrue'
  BY <1>3 DEF CallsAreTrue
<1> QED
  BY <1>1, <1>2, <1>4

LEMMA BeginKeepsSInv ==
  ASSUME SInv, NEW c \in Calls, CheckStatus(c) \/ ScanPayments(c) \/ Withdraw(c)
  PROVE  SInv'
<1>1. CASE CheckStatus(c)
  BY <1>1, TargetsKeepSInv, CallsDiffer DEF CheckStatus, Unless
<1>2. CASE ScanPayments(c)
  <2>1. targets[c] \subseteq DOMAIN requests
    BY DEF SInv, StoreTypeOK
  <2> QED
    BY <1>2, <2>1, TargetsKeepSInv, CallsDiffer DEF ScanPayments, Unless
<1>3. CASE Withdraw(c)
  <2>1. PICK i \in DOMAIN requests :
          /\ targets' = [targets EXCEPT ![c] = {i}]
          /\ GoTo(c, IF LeafOf(requests[i]) \in list THEN "proving" ELSE "failed")
    BY <1>3 DEF Withdraw
  <2> QED
    BY <1>3, <2>1, TargetsKeepSInv DEF Withdraw
<1> QED
  BY <1>1, <1>2, <1>3

(* A status is set to what is true of Chamber.                             *)
LEMMA StatusKeepsSInv ==
  ASSUME SInv, running, NEW i \in DOMAIN requests, NEW status \in Status,
         SetStatus(i, status),
         status = "PAID" => LeafOf(requests[i]) \in list,
         status = "WITHDRAWN" => LeafOf(requests[i]) \in spent,
         UNCHANGED <<running, kv, chain>>
  PROVE  /\ requests' \in Seq(Request) /\ DOMAIN requests' = DOMAIN requests
         /\ \A j \in DOMAIN requests : LeafOf(requests'[j]) = LeafOf(requests[j])
         /\ StatusIsTrue'
<1>1. /\ requests' \in Seq(Request) /\ DOMAIN requests' = DOMAIN requests
      /\ \A j \in DOMAIN requests :
           LeafOf(requests'[j]) = LeafOf(requests[j]) /\ (j # i => requests'[j] = requests[j])
      /\ requests'[i].status = status
  BY SetStatusKeeps DEF SInv, StoreTypeOK
<1>2. \A j \in DOMAIN requests :
        /\ requests'[j].status = "PAID" => LeafOf(requests[j]) \in list
        /\ requests'[j].status = "WITHDRAWN" => LeafOf(requests[j]) \in spent
  BY <1>1 DEF SInv, StatusIsTrue
<1> QED
  BY <1>1, <1>2 DEF StatusIsTrue, chain

LEMMA CheckedKeepsSInv ==
  ASSUME SInv, NEW c \in Calls, Checked(c)
  PROVE  SInv'
<1> USE DEF SInv
<1>1. PICK i \in targets[c] :
        /\ IF LeafOf(requests[i]) \in list THEN SetStatus(i, "PAID") ELSE UNCHANGED requests
        /\ targets' = [targets EXCEPT ![c] = @ \ {i}]
  BY DEF Checked
<1>2. i \in DOMAIN requests
  BY DEF StoreTypeOK
<1>3. /\ requests' \in Seq(Request) /\ DOMAIN requests' = DOMAIN requests
      /\ \A j \in DOMAIN requests : LeafOf(requests'[j]) = LeafOf(requests[j])
      /\ StatusIsTrue'
  <2>1. CASE LeafOf(requests[i]) \in list
    BY <1>1, <1>2, <2>1, StatusKeepsSInv DEF Checked, Status
  <2>2. CASE LeafOf(requests[i]) \notin list
    BY <1>1, <2>2 DEF Checked, StatusIsTrue, chain, StoreTypeOK
  <2> QED
    BY <2>1, <2>2
<1>4. StoreTypeOK'
  BY <1>1, <1>3 DEF StoreTypeOK, Checked, chain, environment
<1>5. CallsAreTrue'
  <2>1. \A d \in Calls : targets'[d] \subseteq targets[d] /\ targets[d] \subseteq DOMAIN requests
    BY <1>1 DEF StoreTypeOK
  <2>2. UNCHANGED <<running, pc, list, sent, spent>> /\ running
    BY DEF Checked, chain
  <2>3. \A d \in Withdrawing : \A j, k \in targets'[d] : j = k
    BY <2>1 DEF CallsAreTrue, Calls
  <2>4. \A d \in Calls : \A j \in targets'[d] :
          j \in targets[d] /\ LeafOf(requests'[j]) = LeafOf(requests[j])
    BY <1>3, <2>1
  <2> QED
    BY <2>1, <2>2, <2>3, <2>4 DEF CallsAreTrue
<1> QED
  BY <1>3, <1>4, <1>5

LEMMA SaveCheckedKeepsSInv ==
  ASSUME SInv, NEW c \in Calls, SaveChecked(c)
  PROVE  SInv'
<1> USE DEF SInv
<1>1. /\ writes' \in Seq(CountWrite \cup RequestsWrite)
      /\ pc' = [pc EXCEPT ![c] = "count"]
  BY SaveCountType DEF SaveChecked, StoreTypeOK
<1>2. StoreTypeOK'
  BY <1>1 DEF StoreTypeOK, SaveChecked, memory, chain, environment
<1>3. StatusIsTrue'
  BY DEF StatusIsTrue, SaveChecked, memory, chain
<1>4. CallsAreTrue'
  BY <1>1 DEF CallsAreTrue, SaveChecked, memory, chain, StoreTypeOK
<1> QED
  BY <1>2, <1>3, <1>4

LEMMA SubmitZkpKeepsSInv ==
  ASSUME SInv, NEW c \in Calls, SubmitZkp(c)
  PROVE  SInv'
<1> USE DEF SInv
<1>1. PICK i \in targets[c] :
        IF LeafOf(requests[i]) \in spent
          THEN GoTo(c, "failed") /\ UNCHANGED sent
          ELSE GoTo(c, "sent") /\ sent' = sent \cup {[call |-> c, leaf |-> LeafOf(requests[i])]}
  BY DEF SubmitZkp
<1>2. c \in Withdrawing /\ LeafOf(requests[i]) \in list
  BY DEF CallsAreTrue, SubmitZkp
<1>3. /\ pc' \in [Calls -> {"idle", "scanning", "checking", "proving", "sent", "count",
                           "requests", "done", "failed"}]
      /\ pc'[c] \in {"failed", "sent"}
      /\ \A d \in Calls : d # c => pc'[d] = pc[d]
  BY <1>1 DEF GoTo, StoreTypeOK
<1>4. /\ sent \subseteq sent' /\ sent' \subseteq [call : Withdrawing, leaf : list]
      /\ UNCHANGED <<memory, kv, writes, targets, shared, list, spent>>
  BY <1>1, <1>2 DEF SubmitZkp, StoreTypeOK
<1>5. StoreTypeOK'
  BY <1>3, <1>4 DEF StoreTypeOK, SubmitZkp, memory, environment
<1>6. StatusIsTrue'
  BY <1>4 DEF StatusIsTrue, memory
<1>7. CallsAreTrue'
  <2>1. pc'[c] = "sent" => \A j \in targets[c] :
          [call |-> c, leaf |-> LeafOf(requests[j])] \in sent'
    BY <1>1, <1>2 DEF CallsAreTrue, GoTo, StoreTypeOK
  <2> QED
    BY <1>2, <1>3, <1>4, <2>1 DEF CallsAreTrue, memory
<1> QED
  BY <1>5, <1>6, <1>7

LEMMA WithdrawnKeepsSInv ==
  ASSUME SInv, NEW c \in Calls, Withdrawn(c)
  PROVE  SInv'
<1> USE DEF SInv
<1>1. PICK i \in targets[c] : SetStatus(i, "WITHDRAWN")
  BY DEF Withdrawn
<1>2. i \in DOMAIN requests
  BY DEF StoreTypeOK
<1>3. LeafOf(requests[i]) \in spent
  <2>1. [call |-> c, leaf |-> LeafOf(requests[i])] \notin sent
    BY DEF Withdrawn, Receipt
  <2> QED
    BY <2>1 DEF CallsAreTrue, Withdrawn
<1>4. /\ requests' \in Seq(Request) /\ DOMAIN requests' = DOMAIN requests
      /\ \A j \in DOMAIN requests : LeafOf(requests'[j]) = LeafOf(requests[j])
      /\ StatusIsTrue'
  BY <1>1, <1>2, <1>3, StatusKeepsSInv DEF Withdrawn, Status
<1>5. /\ writes' \in Seq(CountWrite \cup RequestsWrite)
      /\ pc' = [pc EXCEPT ![c] = "count"]
  BY SaveCountType DEF Withdrawn, StoreTypeOK
<1>6. StoreTypeOK'
  BY <1>4, <1>5 DEF StoreTypeOK, Withdrawn, chain, environment
<1>7. CallsAreTrue'
  <2>1. \A d \in Calls : targets[d] \subseteq DOMAIN requests
    BY DEF StoreTypeOK
  <2>2. UNCHANGED <<running, targets, list, sent, spent>> /\ running
    BY DEF Withdrawn, chain
  <2>3. pc'[c] = "count"
    BY <1>5 DEF StoreTypeOK
  <2>4. \A d \in Calls : d # c => pc'[d] = pc[d]
    BY <1>5 DEF StoreTypeOK
  <2> QED
    BY <1>4, <2>1, <2>2, <2>3, <2>4 DEF CallsAreTrue
<1> QED
  BY <1>4, <1>6, <1>7

LEMMA StoreKeepsSInv ==
  ASSUME SInv, NEW n \in DOMAIN writes, Store(n)
  PROVE  SInv'
<1> USE DEF SInv
<1>1. writes' \in Seq(CountWrite \cup RequestsWrite)
  BY RemoveAtKeeps DEF Store, StoreTypeOK
<1>2. kv' \in [mist_tx_count : Nat, mist_requests : {<<>>}]
  <2>1. writes[n] \in CountWrite \cup RequestsWrite
    BY DEF StoreTypeOK
  <2> QED
    BY <2>1 DEF Store, CountWrite, RequestsWrite, StoreTypeOK
<1>3. StoreTypeOK'
  BY <1>1, <1>2 DEF StoreTypeOK, Store, memory, chain
<1>4. StatusIsTrue' /\ CallsAreTrue'
  BY DEF StatusIsTrue, CallsAreTrue, Store, memory, chain
<1> QED
  BY <1>3, <1>4

LEMMA ProcessKeepsSInv ==
  ASSUME SInv, Stop \/ Restart
  PROVE  SInv'
<1> USE DEF SInv
<1>1. CASE Stop
  <2>1. requests' = <<>> /\ requests' \in Seq(Request) /\ DOMAIN requests' = {}
    BY <1>1 DEF Stop
  <2>2. \A c \in Calls : pc'[c] \in {"idle", "done", "failed"} /\ targets'[c] = {}
    BY <1>1 DEF Stop, Abandon
  <2>3. /\ pc' \in [Calls -> {"idle", "done", "failed"}]
        /\ targets' \in [Calls -> SUBSET DOMAIN requests']
    BY <1>1, <2>2 DEF Stop, Abandon
  <2>4. StoreTypeOK'
    BY <1>1, <2>1, <2>3 DEF StoreTypeOK, Stop, chain
  <2>5. StatusIsTrue'
    BY <2>1 DEF StatusIsTrue
  <2>6. CallsAreTrue'
    BY <2>1, <2>2 DEF CallsAreTrue, Calls
  <2> QED
    BY <2>4, <2>5, <2>6
<1>2. CASE Restart
  <2>1. requests' = <<>> /\ txCount' \in Nat /\ requests = <<>>
    BY <1>2 DEF Restart, StoreTypeOK, CallsAreTrue
  <2>2. StoreTypeOK'
    BY <1>2, <2>1 DEF StoreTypeOK, Restart, chain
  <2>3. StatusIsTrue' /\ CallsAreTrue'
    BY <1>2, <2>1 DEF StatusIsTrue, CallsAreTrue, Restart, chain
  <2> QED
    BY <2>2, <2>3
<1> QED
  BY <1>1, <1>2

LEMMA ChainKeepsSInv ==
  ASSUME SInv, Pay \/ MineZkp
  PROVE  SInv'
<1> USE DEF SInv
<1>1. CASE Pay
  <2>1. StoreTypeOK'
    BY <1>1 DEF StoreTypeOK, Pay, memory, environment
  <2>2. StatusIsTrue' /\ CallsAreTrue'
    BY <1>1 DEF StatusIsTrue, CallsAreTrue, Pay, memory, environment
  <2> QED
    BY <2>1, <2>2
<1>2. CASE MineZkp
  <2>1. PICK tx \in sent : sent' = sent \ {tx} /\ spent' = spent \cup {tx.leaf}
    BY <1>2 DEF MineZkp
  <2>2. tx.leaf \in list
    BY DEF StoreTypeOK
  <2>3. StoreTypeOK'
    BY <1>2, <2>1, <2>2 DEF StoreTypeOK, MineZkp, memory, environment
  <2>4. StatusIsTrue' /\ CallsAreTrue'
    BY <1>2, <2>1 DEF StatusIsTrue, CallsAreTrue, MineZkp, memory, environment
  <2> QED
    BY <2>3, <2>4
<1> QED
  BY <1>1, <1>2

LEMMA SInvHolds == StoreSpec => []SInv
<1>1. StoreInit => SInv
  BY DEF StoreInit, SInv, StoreTypeOK, StatusIsTrue, CallsAreTrue, Calls
<1>2. SInv /\ [StoreNext]_storeVars => SInv'
  <2> SUFFICES ASSUME SInv, [StoreNext]_storeVars
               PROVE  SInv'
    OBVIOUS
  <2>1. ASSUME NEW c \in Calls, Begin(c)
        PROVE  SInv'
    BY <2>1, RequestFundsKeepsSInv, BeginKeepsSInv DEF Begin
  <2>2. ASSUME NEW c \in Calls, Continue(c)
        PROVE  SInv'
    BY <2>2, SaveRequestsKeepsSInv, CheckedKeepsSInv, SaveCheckedKeepsSInv,
       SubmitZkpKeepsSInv, WithdrawnKeepsSInv DEF Continue
  <2>3. CASE UNCHANGED storeVars
    BY <2>3 DEF storeVars, memory, chain, environment, SInv, StoreTypeOK, StatusIsTrue, CallsAreTrue
  <2> QED
    BY <2>1, <2>2, <2>3, ShareEarlyKeepsSInv, StoreKeepsSInv, ProcessKeepsSInv,
       ChainKeepsSInv DEF StoreNext
<1> QED
  BY <1>1, <1>2, PTL DEF StoreSpec

(* The variables of MistStore have their types: calls are about requests   *)
(* in memory, Chamber's list only grows by what was handed out, and what   *)
(* is nullified is on it.                                                  *)
THEOREM StoreTypeCorrect == StoreSpec => []StoreTypeOK
<1>1. SInv => StoreTypeOK
  BY DEF SInv
<1> QED
  BY <1>1, SInvHolds, PTL

(* A request that MISTActions reports as paid is on Chamber's list, and    *)
(* one it reports as withdrawn is nullified, whichever checks, withdrawals *)
(* and restarts interleave.                                                *)
THEOREM StatusCorrect == StoreSpec => []StatusIsTrue
<1>1. SInv => StatusIsTrue
  BY DEF SInv
<1> QED
  BY <1>1, SInvHolds, PTL

-----------------------------------------------------------------------------
(* FreshInv is kept by each kind of step, with a store that is reliable.   *)

LEMMA Indices ==
  ASSUME SInv
  PROVE  /\ \A c \in Requesting : c \in Calls /\ targets[c] \subseteq DOMAIN requests
         /\ \A r \in shared : r.call \in Requesting /\ r.leaf.index \in Nat
         /\ \A i \in DOMAIN requests : requests[i].index \in Nat
<1>1. \A c \in Requesting : c \in Calls /\ targets[c] \subseteq DOMAIN requests
  BY DEF SInv, StoreTypeOK, Calls
<1>2. \A r \in shared : r.call \in Requesting /\ r.leaf.index \in Nat
  <2>1. \A r \in shared : r.call \in Requesting /\ r.leaf \in Leaf
    BY DEF SInv, StoreTypeOK
  <2> QED
    BY <2>1 DEF Leaf
<1>3. \A i \in DOMAIN requests : requests[i].index \in Nat
  <2>1. \A i \in DOMAIN requests : requests[i] \in Request
    BY DEF SInv, StoreTypeOK
  <2> QED
    BY <2>1 DEF Request
<1> QED
  BY <1>1, <1>2, <1>3

(* A step that is not about the counter, nor of a call that makes a        *)
(* request.                                                                *)
LEMMA OtherStepsKeepFresh ==
  ASSUME SInv, FreshInv,
         UNCHANGED <<running, txCount, kv, writes, shared>>,
         \A i \in DOMAIN requests : requests'[i].index = requests[i].index,
         \A c \in Requesting : targets'[c] = targets[c] /\ pc'[c] = pc[c],
         \A c \in Calls : pc'[c] = "idle" => pc[c] = "idle"
  PROVE  FreshInv'
<1>1. \A c \in Requesting : targets[c] \subseteq DOMAIN requests /\ c \in Calls
  BY Indices
<1>2. \A r \in shared : r.call \in Requesting
  BY Indices
<1>3. IdleWrites'
  BY DEF FreshInv, IdleWrites, Waiting
<1>4. SharedIsBelow' /\ DoneAreFresh'
  BY <1>2 DEF FreshInv, SharedIsBelow, DoneAreFresh, Above, AboveFrom, IsCount
<1>5. SharedIsTarget'
  BY <1>1, <1>2 DEF FreshInv, SharedIsTarget, Active
<1>6. SavingIsFresh'
  <2>1. \A c \in Requesting : Active(c)' <=> Active(c)
    BY DEF Active
  <2>2. \A index : Above(index)' <=> Above(index)
    BY DEF Above, AboveFrom, IsCount
  <2>3. \A n, index : AboveFrom(n, index)' <=> AboveFrom(n, index)
    BY DEF AboveFrom, IsCount
  <2> QED
    BY <1>1, <1>2, <2>1, <2>2, <2>3 DEF FreshInv, SavingIsFresh, IsCount, CountPending
<1> QED
  BY <1>3, <1>4, <1>5, <1>6 DEF FreshInv

(* A write that is given to the store, of a counter above the index or of  *)
(* requests, is behind the others.                                         *)
LEMMA AppendWrite ==
  ASSUME SInv, NEW w \in CountWrite \cup RequestsWrite, writes' = Append(writes, w),
         UNCHANGED kv, NEW index \in Nat, w.key = "mist_tx_count" => w.value > index
  PROVE  /\ Above(index) => Above(index)'
         /\ \A n \in DOMAIN writes : AboveFrom(n, index) => AboveFrom(n, index)'
         /\ AboveFrom(Len(writes) + 1, index)'
<1>1. /\ DOMAIN writes' = DOMAIN writes \cup {Len(writes) + 1}
      /\ \A m \in DOMAIN writes : writes'[m] = writes[m]
      /\ writes'[Len(writes) + 1] = w
  BY AppendKeeps DEF SInv, StoreTypeOK
<1>2. DOMAIN writes = 1..Len(writes) /\ Len(writes) \in Nat
  BY DEF SInv, StoreTypeOK
<1> QED
  BY <1>1, <1>2 DEF Above, AboveFrom, IsCount

(* A save by a call that makes no request writes the counter as it is.     *)
LEMMA SavingKeepsFresh ==
  ASSUME SInv, FreshInv, HasStore, running, NEW c \in Calls \ Requesting,
         SaveCount(c, txCount),
         UNCHANGED <<running, txCount, kv, targets, shared>>,
         \A i \in DOMAIN requests : requests'[i].index = requests[i].index
  PROVE  FreshInv'
<1> DEFINE w == [call |-> c, key |-> "mist_tx_count", value |-> txCount]
<1>1. /\ writes' = Append(writes, w) /\ w \in CountWrite \cup RequestsWrite
      /\ pc' = [pc EXCEPT ![c] = "count"]
  BY SaveCountType DEF SaveCount, SInv, StoreTypeOK, CountWrite
<1>2. /\ DOMAIN writes' = DOMAIN writes \cup {Len(writes) + 1}
      /\ \A n \in DOMAIN writes : writes'[n] = writes[n]
      /\ writes'[Len(writes) + 1] = w
  BY <1>1, AppendKeeps DEF SInv, StoreTypeOK
<1>3. /\ \A d \in Calls : d # c => pc'[d] = pc[d]
      /\ pc'[c] = "count"
  BY <1>1 DEF SInv, StoreTypeOK
<1>4. /\ \A d \in Requesting : targets[d] \subseteq DOMAIN requests /\ d \in Calls /\ d # c
      /\ \A r \in shared : r.call \in Requesting /\ r.leaf.index \in Nat
      /\ \A i \in DOMAIN requests : requests[i].index \in Nat
  BY Indices
<1>5. \A index \in Nat : index < txCount =>
        /\ Above(index) => Above(index)'
        /\ \A n \in DOMAIN writes : AboveFrom(n, index) => AboveFrom(n, index)'
  BY <1>1, AppendWrite DEF SInv, StoreTypeOK
<1>6. IdleWrites'
  BY <1>2, <1>3 DEF FreshInv, IdleWrites, Waiting
<1>7. SharedIsBelow' /\ DoneAreFresh'
  BY <1>3, <1>4, <1>5 DEF FreshInv, SharedIsBelow, DoneAreFresh
<1>8. SharedIsTarget'
  BY <1>3, <1>4 DEF FreshInv, SharedIsTarget, Active
<1>9. SavingIsFresh'
  BY <1>2, <1>3, <1>4, <1>5 DEF FreshInv, SavingIsFresh, Active, IsCount, CountPending
<1> QED
  BY <1>6, <1>7, <1>8, <1>9 DEF FreshInv

(* A request takes the next index, and the counter above it is to be saved *)
(* behind all others.                                                      *)
LEMMA RequestFundsKeepsFresh ==
  ASSUME SInv, FreshInv, HasStore, NEW c \in Calls, RequestFunds(c)
  PROVE  FreshInv'
<1> DEFINE w == [call |-> c, key |-> "mist_tx_count", value |-> txCount + 1]
<1> DEFINE new == Len(requests) + 1
<1>1. /\ c \in Requesting /\ pc[c] = "idle" /\ running /\ running'
      /\ txCount \in Nat /\ txCount' = txCount + 1
      /\ UNCHANGED <<kv, shared>>
      /\ targets' = [targets EXCEPT ![c] = {new}]
  BY DEF RequestFunds, SInv, StoreTypeOK
<1>2. /\ writes' = Append(writes, w) /\ w \in CountWrite \cup RequestsWrite
      /\ pc' = [pc EXCEPT ![c] = "count"]
  BY <1>1 DEF RequestFunds, SaveCount, CountWrite, GoTo
<1>3. /\ DOMAIN writes' = DOMAIN writes \cup {Len(writes) + 1}
      /\ \A n \in DOMAIN writes : writes'[n] = writes[n]
      /\ writes'[Len(writes) + 1] = w
  BY <1>2, AppendKeeps DEF SInv, StoreTypeOK
<1>4. /\ \A d \in Calls : d # c => pc'[d] = pc[d] /\ targets'[d] = targets[d]
      /\ pc'[c] = "count" /\ targets'[c] = {new}
  BY <1>1, <1>2 DEF SInv, StoreTypeOK
<1>5. /\ \A i \in DOMAIN requests : requests'[i] = requests[i]
      /\ requests'[new].index = txCount
  <2>1. PICK asset \in Asset :
          requests' = Append(requests, [index |-> txCount, asset |-> asset, status |-> "PENDING"])
    BY DEF RequestFunds, Keep
  <2>2. [index |-> txCount, asset |-> asset, status |-> "PENDING"] \in Request
    BY <1>1 DEF Request, Status
  <2> QED
    BY <2>1, <2>2, AppendKeeps DEF SInv, StoreTypeOK
<1>6. /\ \A d \in Requesting : targets[d] \subseteq DOMAIN requests /\ d \in Calls
      /\ \A r \in shared : r.call \in Requesting /\ r.leaf.index \in Nat
      /\ \A i \in DOMAIN requests : requests[i].index \in Nat
  BY Indices
<1>7. \A index \in Nat : index < txCount + 1 =>
        /\ Above(index) => Above(index)'
        /\ \A n \in DOMAIN writes : AboveFrom(n, index) => AboveFrom(n, index)'
        /\ AboveFrom(Len(writes) + 1, index)'
  BY <1>1, <1>2, AppendWrite
<1>8. \A n \in DOMAIN writes : writes[n].call # c
  BY <1>1 DEF FreshInv, IdleWrites, Waiting
<1>9. /\ DOMAIN writes = 1..Len(writes) /\ Len(writes) \in Nat
       /\ writes'[Len(writes) + 1].value = txCount + 1
       /\ writes'[Len(writes) + 1].key = "mist_tx_count"
       /\ writes'[Len(writes) + 1].call = c
  BY <1>3 DEF SInv, StoreTypeOK
<1>10. IdleWrites'
  BY <1>3, <1>4 DEF FreshInv, IdleWrites, Waiting
<1>11. SharedIsBelow' /\ SharedIsTarget' /\ DoneAreFresh'
  <2>1. \A r \in shared : r.call # c /\ r.call \in Requesting
    BY <1>1, <1>6 DEF FreshInv, SharedIsTarget
  <2>2. SharedIsBelow' /\ DoneAreFresh'
    BY <1>1, <1>4, <1>6, <1>7, <2>1 DEF FreshInv, SharedIsBelow, DoneAreFresh
  <2>3. SharedIsTarget'
    BY <1>1, <1>4, <1>5, <1>6, <2>1 DEF FreshInv, SharedIsTarget, Active
  <2> QED
    BY <2>2, <2>3
<1>12. SavingIsFresh'
  <2> SUFFICES ASSUME NEW d \in Requesting, NEW i \in targets'[d], Active(d)'
               PROVE  /\ requests'[i].index < txCount'
                      /\ \A r \in shared' :
                           pc'[r.call] = "done" => r.leaf.index # requests'[i].index
                      /\ \A e \in Requesting : \A j \in targets'[e] :
                           Active(e)' /\ e # d => requests'[j].index # requests'[i].index
                      /\ \A n \in DOMAIN writes' :
                           writes'[n].call = d /\ IsCount(n)' =>
                             AboveFrom(n, requests[i].index)'
                      /\ ~CountPending(d)' => Above(requests[i].index)'
    BY DEF SavingIsFresh
  <2>1. CASE d = c
    <3>1. requests'[i].index = txCount
      BY <1>4, <1>5, <2>1
    <3>2. \A e \in Requesting : \A j \in targets'[e] :
            Active(e)' /\ e # d => requests'[j].index # txCount
      BY <1>1, <1>4, <1>5, <1>6, <2>1 DEF FreshInv, SavingIsFresh, Active
    <3>3. \A n \in DOMAIN writes' :
            writes'[n].call = d /\ IsCount(n)' => AboveFrom(n, requests[i].index)'
      BY <1>1, <1>3, <1>9, <1>8, <2>1, <3>1 DEF AboveFrom
    <3>4. CountPending(d)'
      BY <1>3, <2>1 DEF CountPending, IsCount
    <3>5. \A r \in shared' : pc'[r.call] = "done" => r.leaf.index # txCount
      BY <1>1, <1>4, <1>6 DEF FreshInv, SharedIsBelow
    <3> QED
      BY <1>1, <3>1, <3>2, <3>3, <3>4, <3>5
  <2>2. CASE d # c
    <3>1. /\ i \in targets[d] /\ i \in DOMAIN requests /\ Active(d)
          /\ requests'[i].index = requests[i].index
      BY <1>4, <1>5, <1>6, <2>2 DEF Active
    <3>2. requests[i].index < txCount /\ requests[i].index \in Nat
      BY <1>6, <3>1 DEF FreshInv, SavingIsFresh
    <3>3. \A e \in Requesting : \A j \in targets'[e] :
            Active(e)' /\ e # d => requests'[j].index # requests'[i].index
      BY <1>1, <1>4, <1>5, <1>6, <3>1, <3>2 DEF FreshInv, SavingIsFresh, Active
    <3>4. \A n \in DOMAIN writes' :
            writes'[n].call = d /\ IsCount(n)' => AboveFrom(n, requests[i].index)'
      <4> SUFFICES ASSUME NEW n \in DOMAIN writes', writes'[n].call = d, IsCount(n)',
                          NEW m \in DOMAIN writes', m >= n, IsCount(m)'
                   PROVE  writes'[m].value > requests'[i].index
        BY DEF AboveFrom
      <4>1. n \in DOMAIN writes /\ writes[n].call = d /\ IsCount(n)
        BY <1>3, <1>9, <2>2 DEF IsCount
      <4>2. AboveFrom(n, requests[i].index)
        BY <3>1, <4>1 DEF FreshInv, SavingIsFresh
      <4> QED
        BY <1>1, <1>3, <1>9, <3>1, <3>2, <4>2 DEF AboveFrom, IsCount
    <3>5. ~CountPending(d)' => Above(requests[i].index)'
      <4> SUFFICES ASSUME ~CountPending(d)'
                   PROVE  Above(requests[i].index)'
        OBVIOUS
      <4>1. ~CountPending(d)
        BY <1>3 DEF CountPending, IsCount
      <4>2. Above(requests[i].index)
        BY <3>1, <4>1 DEF FreshInv, SavingIsFresh
      <4> QED
        BY <1>1, <1>3, <1>9, <3>1, <3>2, <4>2 DEF Above, AboveFrom, IsCount
    <3>6. \A r \in shared' :
            pc'[r.call] = "done" => pc[r.call] = "done" /\ r.leaf.index # requests[i].index
      BY <1>1, <1>4, <1>6, <3>1 DEF FreshInv, SavingIsFresh
    <3> QED
      BY <1>1, <3>1, <3>2, <3>3, <3>4, <3>5, <3>6
  <2> QED
    BY <2>1, <2>2
<1> QED
  BY <1>10, <1>11, <1>12 DEF FreshInv

(* A call whose save is over hands out a request that no other has the     *)
(* index of, and whose counter is stored or behind other writes.           *)
LEMMA FinishKeepsFresh ==
  ASSUME SInv, FreshInv, NEW c \in Calls, Active(c), running, ~Waiting(c), Finish(c),
         UNCHANGED <<memory, kv, targets>>
  PROVE  FreshInv'
<1>1. /\ UNCHANGED <<running, txCount, requests, kv, targets, writes>>
      /\ pc' = [pc EXCEPT ![c] = "done"]
  BY DEF Finish, memory, GoTo
<1>2. /\ \A d \in Calls : d # c => pc'[d] = pc[d]
      /\ pc'[c] = "done"
  BY <1>1 DEF SInv, StoreTypeOK
<1>3. /\ \A d \in Requesting : targets[d] \subseteq DOMAIN requests /\ d \in Calls
      /\ \A r \in shared : r.call \in Requesting /\ r.leaf.index \in Nat
      /\ \A i \in DOMAIN requests : requests[i].index \in Nat
  BY Indices
<1>4. \A r \in shared' :
        \/ r \in shared
        \/ c \in Requesting /\ r.call = c /\ \E i \in targets[c] : r.leaf.index = requests[i].index
  BY DEF Finish, HandOut, LeafOf
<1>5. c \in Requesting => \A i \in targets[c] :
        /\ requests[i].index < txCount /\ Above(requests[i].index)
        /\ \A r \in shared : pc[r.call] = "done" => r.leaf.index # requests[i].index
        /\ \A d \in Requesting : \A j \in targets[d] :
             Active(d) /\ d # c => requests[j].index # requests[i].index
  BY DEF FreshInv, SavingIsFresh, CountPending, Waiting
<1>6. \A index : Above(index) => Above(index)'
  BY <1>1 DEF Above, AboveFrom, IsCount
<1>7. IdleWrites'
  BY <1>1, <1>2 DEF FreshInv, IdleWrites, Waiting
<1>8. \A r \in shared' :
        \/ r \in shared /\ r.call # c
        \/ c \in Requesting /\ r.call = c /\ \E i \in targets[c] : r.leaf.index = requests[i].index
  BY <1>3, <1>4 DEF FreshInv, SharedIsTarget
<1>9. SharedIsTarget'
  BY <1>1, <1>2, <1>3, <1>8 DEF FreshInv, SharedIsTarget, Active
<1>10. SharedIsBelow'
  <2> SUFFICES ASSUME NEW r \in shared', pc'[r.call] = "done"
               PROVE  Above(r.leaf.index)' /\ (running' => r.leaf.index < txCount')
    BY DEF SharedIsBelow
  <2>1. CASE r \in shared /\ r.call # c
    BY <1>1, <1>2, <1>3, <1>6, <2>1 DEF FreshInv, SharedIsBelow, Calls
  <2>2. CASE c \in Requesting /\ r.call = c /\ \E i \in targets[c] : r.leaf.index = requests[i].index
    BY <1>1, <1>5, <1>6, <2>2
  <2> QED
    BY <1>8, <2>1, <2>2
<1>11. \A r \in shared' : pc'[r.call] = "done" =>
         \/ r \in shared /\ pc[r.call] = "done"
         \/ c \in Requesting /\ r.call = c /\ \E i \in targets[c] : r.leaf.index = requests[i].index
  BY <1>2, <1>3, <1>8 DEF Calls
<1>12. SavingIsFresh'
  <2>1. \A d \in Requesting : Active(d)' => Active(d) /\ d # c
    BY <1>2, <1>3 DEF Active
  <2>2. \A d \in Requesting : \A i \in targets[d] : Active(d)' =>
          \A r \in shared' : pc'[r.call] = "done" => r.leaf.index # requests[i].index
    <3> SUFFICES ASSUME NEW d \in Requesting, NEW i \in targets[d], Active(d)',
                        NEW r \in shared', pc'[r.call] = "done"
                 PROVE  r.leaf.index # requests[i].index
      OBVIOUS
    <3>1. CASE r \in shared /\ pc[r.call] = "done"
      BY <2>1, <3>1 DEF FreshInv, SavingIsFresh
    <3>2. CASE c \in Requesting /\ \E j \in targets[c] : r.leaf.index = requests[j].index
      BY <1>5, <2>1, <3>2
    <3> QED
      BY <1>11, <3>1, <3>2
  <2>3. \A n, index : AboveFrom(n, index)' <=> AboveFrom(n, index)
    BY <1>1 DEF AboveFrom, IsCount
  <2> QED
    BY <1>1, <1>6, <2>1, <2>2, <2>3 DEF FreshInv, SavingIsFresh, IsCount, CountPending
<1>13. DoneAreFresh'
  <2> SUFFICES ASSUME NEW r \in shared', NEW s \in shared', r.call # s.call,
                      pc'[r.call] = "done", pc'[s.call] = "done"
               PROVE  r.leaf.index # s.leaf.index
    BY DEF DoneAreFresh
  <2>1. CASE r \in shared /\ pc[r.call] = "done" /\ s \in shared /\ pc[s.call] = "done"
    BY <2>1 DEF FreshInv, DoneAreFresh
  <2>2. CASE r.call = c
    BY <1>5, <1>8, <1>11, <2>2
  <2>3. CASE s.call = c
    BY <1>5, <1>8, <1>11, <2>3
  <2> QED
    BY <1>11, <2>1, <2>2, <2>3
<1> QED
  BY <1>7, <1>9, <1>10, <1>12, <1>13 DEF FreshInv

(* A request that is shared early is one its call is about.                *)
LEMMA ShareEarlyKeepsFresh ==
  ASSUME SInv, FreshInv, NEW c \in Calls, ShareEarly(c)
  PROVE  FreshInv'
<1>1. /\ UNCHANGED <<running, txCount, requests, kv, writes, pc, targets>>
      /\ Active(c) /\ c \in Requesting
  BY DEF ShareEarly, memory, Active
<1>2. \A r \in shared' :
        \/ r \in shared
        \/ r.call = c /\ \E i \in targets[c] : r.leaf.index = requests[i].index
  BY <1>1 DEF ShareEarly, HandOut, LeafOf
<1>3. \A r \in shared' : pc[r.call] = "done" => r \in shared
  BY <1>1, <1>2 DEF Active
<1>4. IdleWrites'
  BY <1>1 DEF FreshInv, IdleWrites, Waiting
<1>5. SharedIsBelow' /\ SharedIsTarget'
  <2>1. SharedIsBelow'
    BY <1>1, <1>3 DEF FreshInv, SharedIsBelow, Above, AboveFrom, IsCount
  <2>2. SharedIsTarget'
    BY <1>1, <1>2 DEF FreshInv, SharedIsTarget, Active
  <2> QED
    BY <2>1, <2>2
<1>6. SavingIsFresh'
  BY <1>1, <1>3 DEF FreshInv, SavingIsFresh, Active, Above, AboveFrom, IsCount, CountPending
<1>7. DoneAreFresh'
  BY <1>1, <1>3 DEF FreshInv, DoneAreFresh
<1> QED
  BY <1>4, <1>5, <1>6, <1>7 DEF FreshInv

LEMMA SaveRequestsKeepsFresh ==
  ASSUME SInv, FreshInv, NEW c \in Calls, SaveRequests(c) \/ Saved(c)
  PROVE  FreshInv'
<1>1. /\ Active(c) /\ running /\ ~Waiting(c)
      /\ UNCHANGED <<memory, kv, targets>>
  BY DEF SaveRequests, Saved, Active
<1>2. CASE Finish(c)
  BY <1>1, <1>2, FinishKeepsFresh
<1>3. CASE /\ GoTo(c, "requests")
           /\ writes' = Append(writes, [call |-> c, key |-> "mist_requests", value |-> <<>>])
           /\ UNCHANGED shared
  <2> DEFINE w == [call |-> c, key |-> "mist_requests", value |-> <<>>]
  <2>1. w \in CountWrite \cup RequestsWrite /\ w.key # "mist_tx_count"
    BY DEF RequestsWrite
  <2>2. /\ DOMAIN writes' = DOMAIN writes \cup {Len(writes) + 1}
        /\ \A n \in DOMAIN writes : writes'[n] = writes[n]
        /\ writes'[Len(writes) + 1] = w
    BY <1>3, <2>1, AppendKeeps DEF SInv, StoreTypeOK
  <2>3. \A n \in DOMAIN writes' :
          IsCount(n)' <=> n \in DOMAIN writes /\ IsCount(n)
    BY <2>1, <2>2, AppendKeeps DEF SInv, StoreTypeOK, IsCount
  <2>4. /\ UNCHANGED <<running, txCount, requests, kv, targets, shared>>
        /\ \A d \in Calls : pc'[d] = "idle" => pc[d] = "idle" /\ d # c
        /\ \A d \in Calls : Active(d)' <=> Active(d)
    BY <1>1, <1>3 DEF memory, GoTo, SInv, StoreTypeOK, Active
  <2>5. IdleWrites'
    BY <2>2, <2>4 DEF FreshInv, IdleWrites, Waiting
  <2>6. \A r \in shared : r.call \in Calls /\ (pc'[r.call] = "done" => pc[r.call] = "done")
    BY <1>3, Indices DEF GoTo, SInv, StoreTypeOK
  <2>7. SharedIsBelow' /\ DoneAreFresh'
    BY <2>2, <2>3, <2>4, <2>6 DEF FreshInv, SharedIsBelow, DoneAreFresh, Above, AboveFrom
  <2>8. SharedIsTarget'
    BY <2>4, <2>6 DEF FreshInv, SharedIsTarget
  <2>9. SavingIsFresh'
    <3>1. \A d \in Requesting : d \in Calls
      BY DEF Calls
    <3> QED
      BY <2>2, <2>3, <2>4, <2>6, <3>1 DEF FreshInv, SavingIsFresh, CountPending, Above, AboveFrom
  <2> QED
    BY <2>5, <2>7, <2>8, <2>9 DEF FreshInv
<1> QED
  BY <1>2, <1>3 DEF SaveRequests, Saved, SaveThrows

(* The store carries out its first write: if that is a counter, it is      *)
(* above what it has to be, and so are those behind it.                    *)
LEMMA StoreKeepsFresh ==
  ASSUME SInv, FreshInv, Store(1), faults = 0, faults' = 0
  PROVE  FreshInv'
<1>1. /\ 1 \in DOMAIN writes /\ writes' = RemoveAt(writes, 1)
      /\ kv' = [kv EXCEPT ![writes[1].key] = writes[1].value]
      /\ UNCHANGED <<running, txCount, requests, pc, targets, shared>>
  BY DEF Store, Fault, memory
<1>2. /\ DOMAIN writes = 1..Len(writes) /\ Len(writes) \in Nat
      /\ DOMAIN writes' = 1..(Len(writes) - 1)
      /\ \A n \in DOMAIN writes' : n + 1 \in DOMAIN writes /\ writes'[n] = writes[n + 1]
  BY <1>1, RemoveFirstShifts DEF SInv, StoreTypeOK
<1>3. /\ IsCount(1) => kv'.mist_tx_count = writes[1].value
      /\ ~IsCount(1) => kv'.mist_tx_count = kv.mist_tx_count
  BY <1>1 DEF SInv, StoreTypeOK, IsCount
<1>4. \A index \in Nat : Above(index) => Above(index)'
  BY <1>1, <1>2, <1>3 DEF Above, AboveFrom, IsCount
<1>5. \A n \in DOMAIN writes' : \A index \in Nat :
        AboveFrom(n + 1, index) => AboveFrom(n, index)'
  BY <1>2 DEF AboveFrom, IsCount
<1>6. /\ \A c \in Requesting : targets[c] \subseteq DOMAIN requests
      /\ \A r \in shared : r.leaf.index \in Nat
      /\ \A i \in DOMAIN requests : requests[i].index \in Nat
  BY Indices
<1>7. IdleWrites'
  BY <1>1, <1>2 DEF FreshInv, IdleWrites, Waiting
<1>8. SharedIsBelow' /\ SharedIsTarget' /\ DoneAreFresh'
  BY <1>1, <1>4, <1>6 DEF FreshInv, SharedIsBelow, SharedIsTarget, DoneAreFresh, Active
<1>9. SavingIsFresh'
  <2> SUFFICES ASSUME NEW c \in Requesting, NEW i \in targets[c], Active(c)
               PROVE  /\ \A n \in DOMAIN writes' :
                           writes'[n].call = c /\ IsCount(n)' =>
                             AboveFrom(n, requests[i].index)'
                      /\ ~CountPending(c)' => Above(requests[i].index)'
    BY <1>1 DEF FreshInv, SavingIsFresh, Active
  <2> DEFINE index == requests[i].index
  <2>1. index \in Nat /\ requests'[i].index = index
    BY <1>1, <1>6
  <2>2. \A n \in DOMAIN writes : writes[n].call = c /\ IsCount(n) => AboveFrom(n, index)
    BY DEF FreshInv, SavingIsFresh
  <2>3. ASSUME NEW n \in DOMAIN writes', writes'[n].call = c, IsCount(n)'
        PROVE  AboveFrom(n, index)'
    <3>1. AboveFrom(n + 1, index)
      BY <1>2, <2>2, <2>3 DEF IsCount
    <3> QED
      BY <1>2, <2>1, <3>1 DEF AboveFrom, IsCount
  <2>4. ASSUME ~CountPending(c)'
        PROVE  Above(index)'
    <3>1. CASE CountPending(c)
      <4>1. PICK n \in DOMAIN writes : writes[n].call = c /\ IsCount(n)
        BY <3>1 DEF CountPending
      <4>2. n = 1
        <5>1. n # 1 => n - 1 \in DOMAIN writes' /\ writes'[n - 1] = writes[n]
          BY <1>2
        <5> QED
          BY <2>4, <4>1, <5>1 DEF CountPending, IsCount
      <4>3. AboveFrom(1, index)
        BY <2>2, <4>1, <4>2
      <4>4. kv'.mist_tx_count > index
        BY <1>1, <1>3, <4>1, <4>2, <4>3 DEF AboveFrom
      <4>5. AboveFrom(1, index)'
        BY <1>2, <2>1, <4>3 DEF AboveFrom, IsCount
      <4> QED
        BY <2>1, <4>4, <4>5 DEF Above, AboveFrom, IsCount
    <3>2. CASE ~CountPending(c)
      <4>1. Above(index)
        BY <3>2 DEF FreshInv, SavingIsFresh
      <4>2. kv'.mist_tx_count > index
        BY <1>1, <1>3, <4>1 DEF Above, AboveFrom
      <4>3. AboveFrom(1, index)'
        BY <1>2, <2>1, <4>1 DEF Above, AboveFrom, IsCount
      <4> QED
        BY <2>1, <4>2, <4>3 DEF Above, AboveFrom, IsCount
    <3> QED
      BY <3>1, <3>2
  <2> QED
    BY <2>3, <2>4
<1> QED
  BY <1>7, <1>8, <1>9 DEF FreshInv

(* The process stops with writes in flight, and what it loads when it is   *)
(* started again is above what was handed out.                             *)
LEMMA ProcessKeepsFresh ==
  ASSUME SInv, FreshInv, Stop \/ Restart, faults = 0, faults' = 0
  PROVE  FreshInv'
<1>1. \A r \in shared : r.call \in Requesting /\ r.call \in Calls
  BY Indices DEF Calls
<1>2. CASE Stop
  <2>1. /\ running' = FALSE
        /\ \A c \in Calls : targets'[c] = {} /\ pc'[c] \in {"idle", "done", "failed"}
        /\ \A c \in Calls : pc'[c] = "idle" <=> pc[c] = "idle"
        /\ UNCHANGED <<kv, writes, shared>>
    BY <1>2 DEF Stop, Abandon
  <2>2. IdleWrites'
    BY <2>1 DEF FreshInv, IdleWrites, Waiting
  <2>3. \A c \in Calls : pc'[c] = "done" => pc[c] = "done"
    BY <1>2 DEF Stop, Abandon
  <2>4. SharedIsBelow' /\ DoneAreFresh'
    BY <1>1, <2>1, <2>3 DEF FreshInv, SharedIsBelow, DoneAreFresh, Above, AboveFrom, IsCount
  <2>5. SharedIsTarget'
    BY <1>1, <2>1 DEF FreshInv, SharedIsTarget, Active
  <2>6. SavingIsFresh'
    BY <2>1 DEF SavingIsFresh, Calls
  <2> QED
    BY <2>2, <2>4, <2>5, <2>6 DEF FreshInv
<1>3. CASE Restart
  <2>1. /\ txCount' = kv.mist_tx_count
        /\ \A c \in Calls : targets[c] = {}
        /\ UNCHANGED <<kv, writes, pc, targets, shared>>
    BY <1>3 DEF Restart, Unread, Fault, SInv, CallsAreTrue
  <2>2. IdleWrites'
    BY <2>1 DEF FreshInv, IdleWrites, Waiting
  <2>3. SharedIsBelow' /\ DoneAreFresh'
    BY <2>1 DEF FreshInv, SharedIsBelow, DoneAreFresh, Above, AboveFrom, IsCount
  <2>4. SharedIsTarget'
    <3>1. \A r \in shared : ~Active(r.call)
      BY <1>1, <2>1 DEF FreshInv, SharedIsTarget
    <3> QED
      BY <2>1, <3>1 DEF FreshInv, SharedIsTarget, Active
  <2>5. SavingIsFresh'
    BY <2>1 DEF SavingIsFresh, Calls
  <2> QED
    BY <2>2, <2>3, <2>4, <2>5 DEF FreshInv
<1> QED
  BY <1>2, <1>3

LEMMA FreshStep ==
  ASSUME SInv, FreshInv, HasStore, faults = 0, faults' = 0, [StoreNext]_storeVars
  PROVE  FreshInv'
<1>1. ASSUME NEW c \in Calls, CheckStatus(c) \/ ScanPayments(c) \/ Withdraw(c)
      PROVE  FreshInv'
  <2>1. /\ UNCHANGED <<running, txCount, requests, kv, writes, shared>>
        /\ c \notin Requesting
        /\ targets' = [targets EXCEPT ![c] = targets'[c]]
        /\ pc' = [pc EXCEPT ![c] = pc'[c]] /\ pc'[c] # "idle"
    BY <1>1, CallsDiffer
    DEF CheckStatus, ScanPayments, Withdraw, Unless, GoTo, memory, SInv, StoreTypeOK
  <2>2. \A d \in Calls : d # c => targets'[d] = targets[d] /\ pc'[d] = pc[d]
    BY <2>1 DEF SInv, StoreTypeOK
  <2> QED
    BY <2>1, <2>2, OtherStepsKeepFresh DEF Calls
<1>2. ASSUME NEW c \in Calls, Checked(c) \/ SubmitZkp(c)
      PROVE  FreshInv'
  <2>1. /\ UNCHANGED <<running, txCount, kv, writes, shared>>
        /\ c \notin Requesting
    BY <1>2, CallsDiffer DEF Checked, SubmitZkp, memory, SInv, CallsAreTrue
  <2>2. /\ \A d \in Calls : d # c => targets'[d] = targets[d] /\ pc'[d] = pc[d]
        /\ pc'[c] # "idle"
    BY <1>2 DEF Checked, SubmitZkp, GoTo, SInv, StoreTypeOK
  <2>3. \A i \in DOMAIN requests : requests'[i].index = requests[i].index
    <3>1. \A i \in targets[c] : i \in DOMAIN requests
      BY DEF SInv, StoreTypeOK
    <3> QED
      BY <1>2, <3>1, SetStatusKeeps
      DEF Checked, SubmitZkp, memory, Status, SInv, StoreTypeOK
  <2> QED
    BY <2>1, <2>2, <2>3, OtherStepsKeepFresh DEF Calls
<1>3. ASSUME NEW c \in Calls, SaveChecked(c) \/ Withdrawn(c)
      PROVE  FreshInv'
  <2>1. /\ c \in Calls \ Requesting /\ running /\ SaveCount(c, txCount)
        /\ UNCHANGED <<running, txCount, kv, targets, shared>>
    BY <1>3, CallsDiffer DEF SaveChecked, Withdrawn, memory, SInv, CallsAreTrue
  <2>2. \A i \in DOMAIN requests : requests'[i].index = requests[i].index
    <3>1. \A i \in targets[c] : i \in DOMAIN requests
      BY DEF SInv, StoreTypeOK
    <3> QED
      BY <1>3, <3>1, SetStatusKeeps
      DEF SaveChecked, Withdrawn, memory, Status, SInv, StoreTypeOK
  <2> QED
    BY <2>1, <2>2, SavingKeepsFresh
<1>4. ASSUME NEW c \in Calls, ShareEarly(c)
      PROVE  FreshInv'
  BY <1>4, ShareEarlyKeepsFresh
<1>5. ASSUME NEW n \in DOMAIN writes, Store(n)
      PROVE  FreshInv'
  <2>1. n = 1
    BY <1>5 DEF Store, Fault
  <2> QED
    BY <1>5, <2>1, StoreKeepsFresh
<1>6. CASE Pay \/ MineZkp \/ UNCHANGED storeVars
  BY <1>6, OtherStepsKeepFresh DEF Pay, MineZkp, storeVars, memory
<1> QED
  BY <1>1, <1>2, <1>3, <1>4, <1>5, <1>6, RequestFundsKeepsFresh, SaveRequestsKeepsFresh,
     ProcessKeepsFresh DEF StoreNext, Begin, Continue

(* Failures are only added, and the settings stay. *)
LEMMA FaultsOnlyGrow ==
  ASSUME faults \in Nat, [StoreNext]_storeVars
  PROVE  /\ faults' = faults \/ faults' = faults + 1
         /\ UNCHANGED settings
<1>1. ASSUME NEW c \in Calls, Begin(c) \/ Continue(c) \/ ShareEarly(c)
      PROVE  (faults' = faults \/ faults' = faults + 1) /\ UNCHANGED settings
  BY <1>1 DEF Begin, RequestFunds, CheckStatus, ScanPayments, Withdraw, Continue, SaveRequests,
     Saved, Checked, SaveChecked, SubmitZkp, Withdrawn, ShareEarly, Fault, environment
<1>2. ASSUME NEW n \in DOMAIN writes, Store(n)
      PROVE  (faults' = faults \/ faults' = faults + 1) /\ UNCHANGED settings
  BY <1>2 DEF Store, Fault
<1>3. CASE Stop \/ Restart \/ Pay \/ MineZkp \/ UNCHANGED storeVars
  BY <1>3 DEF Stop, Restart, Unread, Fault, Pay, MineZkp, storeVars, environment
<1> QED
  BY <1>1, <1>2, <1>3 DEF StoreNext

(* Requests of calls that did not fail: of calls that are over, of calls   *)
(* that save, or of one of each.                                           *)
LEMMA FreshFollows ==
  ASSUME SInv, FreshInv
  PROVE  Fresh
<1> SUFFICES ASSUME NEW r \in shared, NEW s \in shared, r.call # s.call,
                    pc[r.call] # "failed", pc[s.call] # "failed"
             PROVE  r.leaf.index # s.leaf.index
  BY DEF Fresh
<1>1. \A q \in shared : q.call \in Requesting /\ q.call \in Calls
  BY Indices DEF Calls
<1>2. \A q \in shared : pc[q.call] \in {"count", "requests", "done", "failed"}
  BY <1>1, CallsDiffer DEF SInv, StoreTypeOK, CallsAreTrue, FreshInv, SharedIsTarget
<1>3. \A q \in shared : Active(q.call) =>
        \E i \in targets[q.call] : q.leaf.index = requests[i].index
  BY DEF FreshInv, SharedIsTarget
<1>4. CASE pc[r.call] = "done" /\ pc[s.call] = "done"
  BY <1>4 DEF FreshInv, DoneAreFresh
<1>5. CASE Active(r.call) /\ pc[s.call] = "done"
  BY <1>1, <1>3, <1>5 DEF FreshInv, SavingIsFresh
<1>6. CASE pc[r.call] = "done" /\ Active(s.call)
  BY <1>1, <1>3, <1>6 DEF FreshInv, SavingIsFresh
<1>7. CASE Active(r.call) /\ Active(s.call)
  BY <1>1, <1>3, <1>7 DEF FreshInv, SavingIsFresh
<1> QED
  BY <1>2, <1>4, <1>5, <1>6, <1>7 DEF Active

(* With a store that is reliable no two requests have one index - hence    *)
(* never one secret - whatever saves are in flight when the process stops: *)
(* the counter is saved before the call is over, and the store keeps the   *)
(* order.  A request shared before its save is over is settled with it.    *)
THEOREM FreshCorrect == StoreSpec => []ReliablyFresh
<1> DEFINE Inv == faults \in Nat /\ (HasStore /\ faults = 0 => FreshInv)
<1>1. StoreInit => Inv
  BY DEF StoreInit, FreshInv, IdleWrites, Waiting, SharedIsTarget, SharedIsBelow, SavingIsFresh,
     DoneAreFresh, Calls
<1>2. SInv /\ Inv /\ [StoreNext]_storeVars => Inv'
  <2> SUFFICES ASSUME SInv, Inv, [StoreNext]_storeVars
               PROVE  Inv'
    OBVIOUS
  <2>1. faults' \in Nat /\ (faults' = 0 => faults = 0) /\ HasStore' = HasStore
    BY FaultsOnlyGrow DEF HasStore
  <2> QED
    BY <2>1, FreshStep
<1>3. SInv /\ Inv => ReliablyFresh
  BY FreshFollows DEF ReliablyFresh
<1> QED
  BY <1>1, <1>2, <1>3, SInvHolds, PTL DEF StoreSpec
=============================================================================
