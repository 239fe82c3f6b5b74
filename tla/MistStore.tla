------------------------------ MODULE MistStore ------------------------------
(***************************************************************************)
(* What MISTActions remembers: the counter its keys are derived from, the  *)
(* requests it has made and their status, and the store it saves them to   *)
(* and loads them from.  Its callers are the tools of one agent, a         *)
(* withdrawal by the SDK, and the agent's process, which may stop and be   *)
(* started again.                                                          *)
(*                                                                         *)
(* An action is what the code does between two awaits, the store carrying  *)
(* out a write, or a transaction of Chamber.                               *)
(***************************************************************************)
EXTENDS Naturals, Sequences, SequencesExt

CONSTANTS
  Requesting, Checking, Withdrawing,
                   \* the calls made: requestPayment, checkStatus or
                   \* scanPayments, and withdrawEvm
  Asset,           \* what a request asks for: a token and an amount
  Settings,        \* which settings of 0G an agent's .env may hold
  MaxRestarts,     \* bound on restarts of the process
  MaxFaults        \* bound on the store's failures

Calls == Requesting \cup Checking \cup Withdrawing

ASSUME CallsDiffer ==
  Requesting \cap (Checking \cup Withdrawing) = {} /\ Checking \cap Withdrawing = {}
ASSUME BoundsAssumption == MaxRestarts \in Nat /\ MaxFaults \in Nat

ZeroGConfig == {"privateKey", "rpcUrl", "indexerUrl", "kvRpcUrl", "flowAddress", "streamId"}

ASSUME SettingsAssumption == Settings \subseteq SUBSET ZeroGConfig

Status == {"PENDING", "PAID", "WITHDRAWN"}

(* A transaction: the index its secret is derived from, and its asset.     *)
Leaf == [index : Nat, asset : Asset]
LeafOf(request) == [index |-> request.index, asset |-> request.asset]

VARIABLES
  running,      \* whether the process runs
  txCount,      \* MISTActions.txCount
  requests,     \* MISTActions.requests
  kv,           \* what load finds under mist_tx_count and mist_requests; for
                \* an absent value, what the constructor leaves there
  writes,       \* writes the store has been given and not carried out
  pc,           \* where each call is
  targets,      \* the requests, by position, a call is about
  shared,       \* requests handed out to payers, with the calls that made them
  list,         \* Chamber's transactions, of those requests
  sent,         \* handleZkp transactions sent and not mined
  spent,        \* transactions nullified
  settings,     \* what of ZeroGConfig the agent's .env holds
  restarts, faults

memory == <<running, txCount, requests>>
chain  == <<list, sent, spent>>
environment == <<settings, restarts, faults>>
storeVars == <<memory, kv, writes, pc, targets, shared, chain, environment>>

(* MISTActions is given a StorageAdapter only with both of these: the other *)
(* settings have defaults, and without one of these they are ignored.      *)
HasStore == {"kvRpcUrl", "flowAddress"} \subseteq settings

GoTo(c, where) == pc' = [pc EXCEPT ![c] = where]

Fault == faults < MaxFaults /\ faults' = faults + 1

SetStatus(i, status) == requests' = [requests EXCEPT ![i].status = status]

-----------------------------------------------------------------------------
(* save: the counter is written first, then the requests.                  *)

(* A call goes on once its save is over: a request goes to whoever asked.  *)
HandOut(c) ==
  shared' = IF c \in Requesting
              THEN shared \cup { [call |-> c, leaf |-> LeafOf(requests[i])] : i \in targets[c] }
              ELSE shared

(* Mutant: the counter is saved as it was before the call. *)
SaveStaleCount(c, count) ==
  /\ GoTo(c, "count")
  /\ writes' = IF HasStore
                 THEN Append(writes, [call |-> c, key |-> "mist_tx_count", value |-> txCount])
                 ELSE writes

(* The first write of a save, with the counter the call leaves.            *)
SaveCount(c, count) ==
  /\ GoTo(c, "count")
  /\ writes' = IF HasStore
                 THEN Append(writes, [call |-> c, key |-> "mist_tx_count", value |-> count])
                 ELSE writes

Waiting(c) == \E i \in DOMAIN writes : writes[i].call = c

Finish(c) ==
  /\ GoTo(c, "done")
  /\ HandOut(c)
  /\ UNCHANGED writes

(* Mutant: the exception reaches the tool. *)
Rethrow(c) == GoTo(c, "failed") /\ UNCHANGED <<writes, shared>>

(* persistMistState logs the exception of a save and goes on.  withdrawZkp  *)
(* does not await its save: a process that ends for it is one that stops.  *)
SaveThrows(c) == Finish(c)

(* JSON.stringify throws on a request, whose amount is a BigInt: the       *)
(* requests are written only if there are none.                            *)
SaveRequests(c) ==
  /\ running /\ pc[c] = "count" /\ ~Waiting(c)
  /\ \/ ~HasStore /\ Finish(c)
     \/ HasStore /\ requests # <<>> /\ SaveThrows(c)
     \/ /\ HasStore /\ requests = <<>>
        /\ GoTo(c, "requests")
        /\ writes' = Append(writes, [call |-> c, key |-> "mist_requests", value |-> <<>>])
        /\ UNCHANGED shared
  /\ UNCHANGED <<memory, kv, targets, chain, environment>>

Saved(c) ==
  /\ running /\ pc[c] = "requests" /\ ~Waiting(c)
  /\ Finish(c)
  /\ UNCHANGED <<memory, kv, targets, chain, environment>>

(* The store carries out its first write - or a later one before it, or    *)
(* it fails, which its adapter logs and does not report.                   *)
Store(n) ==
  /\ n \in DOMAIN writes
  /\ writes' = RemoveAt(writes, n)
  /\ \/ /\ kv' = [kv EXCEPT ![writes[n].key] = writes[n].value]
        /\ IF n = 1 THEN UNCHANGED faults ELSE Fault
     \/ Fault /\ UNCHANGED kv
  /\ UNCHANGED <<memory, pc, targets, shared, chain, settings, restarts>>

-----------------------------------------------------------------------------
(* The calls.                                                              *)

(* Mutant: a new request is returned, but not kept. *)
ReturnOnly(request) == UNCHANGED requests

Keep(request) == requests' = Append(requests, request)

(* requestPayment: requestFunds, then save.                                *)
RequestFunds(c) ==
  /\ running /\ c \in Requesting /\ pc[c] = "idle"
  /\ \E asset \in Asset :
       Keep([index |-> txCount, asset |-> asset, status |-> "PENDING"])
  /\ txCount' = txCount + 1
  /\ targets' = [targets EXCEPT ![c] = {Len(requests) + 1}]
  /\ SaveCount(c, txCount + 1)
  /\ UNCHANGED <<running, kv, shared, chain, environment>>

(* The request is known under its alias before it is saved: a sendPeer     *)
(* that runs meanwhile shares it.                                          *)
ShareEarly(c) ==
  /\ running /\ c \in Requesting /\ pc[c] \in {"count", "requests"}
  /\ HandOut(c)
  /\ UNCHANGED <<memory, kv, writes, pc, targets, chain, environment>>

(* checkStatus asks for the list, unless the request is withdrawn.         *)
Unless(c, positions) ==
  /\ targets' = [targets EXCEPT ![c] = { i \in positions : requests[i].status # "WITHDRAWN" }]
  /\ GoTo(c, "checking")

CheckStatus(c) ==
  /\ running /\ c \in Checking /\ pc[c] = "idle"
  /\ \E i \in DOMAIN requests : Unless(c, {i})
  /\ UNCHANGED <<memory, kv, writes, shared, chain, environment>>

(* scanPayments: the pending requests are picked before a read of the list *)
(* and checked after it.                                                   *)
ScanPayments(c) ==
  /\ running /\ c \in Checking
  /\ \/ /\ pc[c] = "idle"
        /\ targets' = [targets EXCEPT ![c] =
                         { i \in DOMAIN requests : requests[i].status = "PENDING" }]
        /\ GoTo(c, "scanning")
     \/ pc[c] = "scanning" /\ Unless(c, targets[c])
  /\ UNCHANGED <<memory, kv, writes, shared, chain, environment>>

(* The list arrives that one of the checks has asked for.                  *)
Checked(c) ==
  /\ running /\ pc[c] = "checking"
  /\ \E i \in targets[c] :
       /\ IF LeafOf(requests[i]) \in list THEN SetStatus(i, "PAID") ELSE UNCHANGED requests
       /\ targets' = [targets EXCEPT ![c] = @ \ {i}]
  /\ UNCHANGED <<running, txCount, kv, writes, pc, shared, chain, environment>>

(* With all checks done, the tool saves.                                   *)
SaveChecked(c) ==
  /\ running /\ pc[c] = "checking" /\ targets[c] = {}
  /\ SaveCount(c, txCount)
  /\ UNCHANGED <<memory, kv, targets, shared, chain, environment>>

(* withdrawEvm proves against the list it has read, which has to hold the  *)
(* request.                                                                *)
Withdraw(c) ==
  /\ running /\ c \in Withdrawing /\ pc[c] = "idle"
  /\ \E i \in DOMAIN requests :
       /\ targets' = [targets EXCEPT ![c] = {i}]
       /\ GoTo(c, IF LeafOf(requests[i]) \in list THEN "proving" ELSE "failed")
  /\ UNCHANGED <<memory, kv, writes, shared, chain, environment>>

(* The gas estimate of handleZkp throws if the request is spent.           *)
SubmitZkp(c) ==
  /\ running /\ pc[c] = "proving"
  /\ \E i \in targets[c] :
       IF LeafOf(requests[i]) \in spent
         THEN GoTo(c, "failed") /\ UNCHANGED sent
         ELSE GoTo(c, "sent") /\ sent' = sent \cup {[call |-> c, leaf |-> LeafOf(requests[i])]}
  /\ UNCHANGED <<memory, kv, writes, targets, shared, list, spent, environment>>

(* Mutant: the receipt is not awaited. *)
AnyReceipt(c) == TRUE

Receipt(c) == \A tx \in sent : tx.call # c

(* After the receipt the status is set, and save is called.                *)
Withdrawn(c) ==
  /\ running /\ pc[c] = "sent" /\ Receipt(c)
  /\ \E i \in targets[c] : SetStatus(i, "WITHDRAWN")
  /\ SaveCount(c, txCount)
  /\ UNCHANGED <<running, txCount, kv, targets, shared, chain, environment>>

-----------------------------------------------------------------------------
(* The process, and Chamber.                                               *)

Abandon ==
  /\ pc' = [c \in Calls |-> IF pc[c] \in {"idle", "done"} THEN pc[c] ELSE "failed"]
  /\ targets' = [c \in Calls |-> {}]

Stop ==
  /\ running /\ restarts < MaxRestarts
  /\ running' = FALSE
  /\ txCount' = 0
  /\ requests' = <<>>
  /\ Abandon
  /\ restarts' = restarts + 1
  /\ UNCHANGED <<kv, writes, shared, chain, settings, faults>>

(* A read that fails is an absent value.                                   *)
Unread == HasStore /\ Fault

(* init and load.                                                          *)
Restart ==
  /\ ~running
  /\ running' = TRUE
  /\ requests' = kv.mist_requests
  /\ \/ txCount' = kv.mist_tx_count /\ UNCHANGED faults
     \/ Unread /\ txCount' = 0
  /\ UNCHANGED <<kv, writes, pc, targets, shared, chain, settings, restarts>>

(* A payer deposits a request; Chamber takes one deposit of a secret.      *)
Payable(leaf) == \A tx \in list : tx.index # leaf.index

Pay ==
  /\ \E r \in shared : Payable(r.leaf) /\ list' = list \cup {r.leaf}
  /\ UNCHANGED <<memory, kv, writes, pc, targets, shared, sent, spent, environment>>

(* handleZkp is mined; of two of one transaction, the second reverts.      *)
MineZkp ==
  /\ \E tx \in sent : sent' = sent \ {tx} /\ spent' = spent \cup {tx.leaf}
  /\ UNCHANGED <<memory, kv, writes, pc, targets, shared, list, environment>>

StoreInit ==
  /\ running = TRUE /\ txCount = 0 /\ requests = <<>>
  /\ kv = [mist_tx_count |-> 0, mist_requests |-> <<>>] /\ writes = <<>>
  /\ pc = [c \in Calls |-> "idle"] /\ targets = [c \in Calls |-> {}]
  /\ shared = {} /\ list = {} /\ sent = {} /\ spent = {}
  /\ settings \in Settings /\ restarts = 0 /\ faults = 0

(* What a call does next, once it has begun.                               *)
Continue(c) ==
  \/ SaveRequests(c) \/ Saved(c)
  \/ Checked(c) \/ SaveChecked(c)
  \/ SubmitZkp(c) \/ Withdrawn(c)

Begin(c) == RequestFunds(c) \/ CheckStatus(c) \/ ScanPayments(c) \/ Withdraw(c)

StoreNext ==
  \/ \E c \in Calls : Begin(c) \/ Continue(c) \/ ShareEarly(c)
  \/ \E n \in DOMAIN writes : Store(n)
  \/ Stop \/ Restart \/ Pay \/ MineZkp

(* Awaited promises resolve, and the store carries out its writes or fails. *)
StoreFairness ==
  /\ \A c \in Calls : WF_storeVars(Continue(c) \/ ScanPayments(c))
  /\ WF_storeVars(Store(1))
  /\ WF_storeVars(MineZkp)

StoreSpec == StoreInit /\ [][StoreNext]_storeVars /\ StoreFairness

-----------------------------------------------------------------------------
(* Properties.                                                             *)

Request == [index : Nat, asset : Asset, status : Status]

CountWrite    == [call : Calls, key : {"mist_tx_count"}, value : Nat]
RequestsWrite == [call : Calls, key : {"mist_requests"}, value : {<<>>}]

(* Calls are about requests in memory, and writes are of calls.            *)
StoreTypeOK ==
  /\ running \in BOOLEAN /\ txCount \in Nat
  /\ requests \in Seq(Request)
  /\ kv \in [mist_tx_count : Nat, mist_requests : {<<>>}]
  /\ writes \in Seq(CountWrite \cup RequestsWrite)
  /\ pc \in [Calls -> {"idle", "scanning", "checking", "proving", "sent", "count",
                       "requests", "done", "failed"}]
  /\ targets \in [Calls -> SUBSET DOMAIN requests]
  /\ shared \subseteq [call : Requesting, leaf : Leaf]
  /\ sent \subseteq [call : Withdrawing, leaf : list]
  /\ spent \subseteq list /\ list \subseteq { r.leaf : r \in shared }
  /\ settings \in Settings

(* A call's requests are settled unless the process stopped before the     *)
(* call was over.                                                          *)
Fresh ==
  \A r, s \in shared :
    r.call # s.call /\ pc[r.call] # "failed" /\ pc[s.call] # "failed" =>
      r.leaf.index # s.leaf.index

(* Two requests never have one index - hence never one secret - whatever   *)
(* saves are in progress when the process stops, as long as the store is   *)
(* reliable.  Only a request that was shared before its save was over, by  *)
(* a process that stopped before then, may have its index taken again.     *)
ReliablyFresh == HasStore /\ faults = 0 => Fresh

(* What a request's status says of Chamber is true: of a list that may be  *)
(* old by now, of a receipt whose status is not read.                      *)
StatusIsTrue ==
  \A i \in DOMAIN requests :
    /\ requests[i].status = "PAID" => LeafOf(requests[i]) \in list
    /\ requests[i].status = "WITHDRAWN" => LeafOf(requests[i]) \in spent

(* A save that fails, in the store or before it, does not keep a request   *)
(* from being handed out: only the end of the process does.                *)
RequestsAreHandedOut ==
  \A c \in Requesting : pc[c] = "count" ~> pc[c] = "done" \/ ~running

(* A request whose save is over is there again after a restart, as long as *)
(* the store does not fail.                                                *)
RequestsSurvive ==
  running /\ faults = 0 =>
    \A r \in shared :
      pc[r.call] = "done" => \E i \in DOMAIN requests : LeafOf(requests[i]) = r.leaf
=============================================================================
