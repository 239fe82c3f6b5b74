# MIST agents in TLA+

A TLA+ development of *Agents with MIST*: the shielded pool contract `Chamber`, the Merkle tree it
keeps in storage and its hash, the `Escrow` contract and circuit on top of it, the SDK's flows, what it
remembers and the provers it loads, the runner whose agents swap by messages and tool calls, and the plugin
that makes workflow steps of the same operations. TLC checks the modules on small instances; TLAPS proves
most of their safety properties for every value of the constants.

Paths are relative to `src/`.

## 1. Inventory

### Components

| Component | State | Operations | Talks to |
| --- | --- | --- | --- |
| `contracts/src/StoredMerkle.sol` | one mapping holding the nodes of every level, each level's length, the height | `append`, `initStorage`, `computeProof`, `verifyProof` | inherited by Chamber |
| `contracts/src/Chamber.sol` | `txArray`, `merkleRoots`, `assets` by secret, `nullified`, the verifier's address | `deposit`, `withdrawNoZk`, `seekAndHideNoZk`, `handleZkp`, `recalculateMerkleRoot`, `setVerifier`, queries | ERC-20 tokens, `ChamberVerifier` |
| `contracts/src/Escrow.sol` | none; it is an account, and emits `EscrowConsumed` | `consumeEscrow` | `EscrowVerifier`, `Chamber.handleZkp` |
| `zk/escrow` | none | the escrow circuit: `Define`, `CheckMerkleRoot`, witness construction | its proofs reach `Escrow` |
| MIST circuit (outside the repository) | none | proves a spend | its proofs reach `Chamber` |
| `contracts/src/Poseidon.sol`, `frontend/src/lib/poseidon2.ts` | none | `hash2`, `hash3` | called by the contracts and the frontend |
| Groth16 verifiers | none | pairing check | called by the contracts |
| `sdk/src` (`MISTActions`) | `txCount`, `requests`, in memory and through a `StorageAdapter` | `requestFunds`, `deposit`, `escrowFund`, `escrowClaim`, `checkStatus`, `scanPayments`, `withdrawZkp`, `withdrawEvm`, `save`, `load` | a `ChainAdapter` (send a transaction, read `txArray`), the prover |
| `sdk/src/gnark` | the loaded escrow prover, and functions on `globalThis` that two provers share | `init`, `getWasmInstance`, `proveEscrow` | the two WebAssembly provers; called by `MISTActions.init` |
| `runner/src` | registered requests of the agent and its peers, the history, the turn mutex, a final result, the log | `runTurn`, the tools, `finalize`, the HTTP endpoint for peers' messages, starting and shutting down | the model, `MISTActions`, other agents, 0G storage |
| `plugins/mist` | none between steps: every step builds its own `MISTActions` | seven workflow steps around the SDK | `MISTActions`, an organization's wallet |
| `frontend/`, `agent/axl/`, `scripts/` | user interface; node binary and start scripts | | the contracts; the agents' network |

### Behaviours that are hard

*One Ethereum transaction runs alone.* So the contracts have no interleaving inside an operation;
between operations every order of every account's calls is possible, and what a caller prepared
off chain (a Merkle proof, a zero-knowledge proof) is old when it arrives. Four things make the
contracts hard:

- one transaction can be spent by its preimage or by a proof, and both paths must name one nullifier;
- proofs refer to roots of the past, and one call can append twice;
- `consumeEscrow` combines two independent proofs;
- an append updates one path of a stored tree, and a rebuild writes the whole of it over the old one.

*The SDK and the runner are concurrent and not atomic.* A flow such as `escrowClaim` is several
transactions with waits between them; any of them can fail, and an agent or a peer can stop in
between. Requests are persisted in several writes, and messages are acknowledged before they are
processed. The tools of one step of a turn run concurrently, also after one of them has thrown and ended the
turn; the steps of one workflow server share a process, and those of one organization a wallet. Loading the
escrow prover overwrites a global function of the MIST prover, across an await.

### What makes each component correct

| Component | Properties |
| --- | --- |
| Stored tree | every stored node is the root of the leaves below it; every proof verifies, on chain and, padded, in the circuit; appends and rebuilds implement an append-only log |
| Chamber | a root is accepted if and only if the list once had it; every step conserves value; the contract can always pay what is unspent |
| Escrow | an escrow is consumed only when both sides of the swap are in the pool; nobody else is paid from it; a funded one can be claimed |
| SDK flows | a retried or interrupted flow never pays twice, and can be completed |
| Persistence | no request's key is derived twice, across restarts; a request's status is true |
| Hash | the in-place computation is that of the matrices; it permutes states |
| Provers | once nobody loads, the MIST prover is where MIST proofs are asked for |
| Runner | an alias means one request to both agents; one's own is one's own; an acknowledged message reaches the model; agents that message each other do not wait for each other; a finalized agent stays quiet |
| Workflow steps | a step that reports success has done what it says; a claim that has paid gets its escrow; every step ends |

The list of hazards, each at its line, is in `PROJECT.json`; the few no property covers say why.

## 2. Modules

```
   Accumulator            the abstract append-only log
     ^       ^
     |       |  implemented by
StoredMerkle |  <- StoredMerkleProofs           the tree, node by node, and the proofs
     ^       |
MCStoredMerkle -> Poseidon2                     an instance for TLC; the hash of the nodes
     ^       |
     |       |
Poseidon2Proofs
             |
  Notes <- Chamber <- Escrow <- Swap            the pool; the escrow on top of it;
             ^  ^       ^  ^      ^             the agents' flows that use both
             |  MCChamber  MCEscrow  MCSwap     instances for TLC
        ChamberProofs <- EscrowProofs <- SwapProofs

  MistStore <- MistStoreProofs
                         the SDK's counter, requests and store, across restarts

  AgentRunner <- AgentRunnerProofs
      ^                  agents' messages, turns, tools and aliases
  MCAgentRunner

  Prover <- Workflow <- MCWorkflow
               ^         the provers of a process; the steps that share them
         WorkflowProofs
```

### Accumulator

What the tree promises: a log that only grows, and the set of roots it ever had. A root *is* the list
of leaves it commits to, which is what collision resistance gives.

### StoredMerkle

`contracts/src/StoredMerkle.sol` with its storage laid out as in the code: `store[level, index]`,
`len[level]`, `height`. `Appended` is `append`: at each level on the way up the node is either updated
in place or appended (`SlotAt`), an odd node is hashed with its left neighbour and an even one carried
up (`NodeAbove`), until a level has a single node. `Built` is `initStorage`: it writes the levels it
computes and leaves everything else in storage, so a value left over from another tree would be seen.
`ComputeProof` skips the levels where a node has no sibling. The actions are `AddNewTx`
(`Chamber._addNewTx`) and `RecalculateMerkleRoot`. The module also models the two other places that
must agree with the tree: the SDK's padding of a proof with zeros, and the circuit's check over a
fixed number of levels.

`hash2` of a sorted pair is a term over the set of its arguments. Sorting is thus absorbed, except
that zero, the padding, sorts first and is not hashed. Loops over levels and proofs are recursive functions.
`HeightAssumption` says that the levels of storage are enough for the bound on leaves; the code's mapping has
all levels.

### Notes

The hashes a transaction is made of — `hash2(key, owner)`, `hash3(secret, asset, amount)`, and the
nullifier, which is the same with `key + 1` — as injective terms. A key is a base and what was added to
it. A root is again the list of its leaves, and `Leaves(root)` the set of them.

### Chamber

`contracts/src/Chamber.sol`, one action per external operation that changes state.

| Code | Model |
| --- | --- |
| `txArray` | `txArray`, of transactions as records |
| the stored tree | `tree`, the leaves it commits to, justified by `StoredMerkle` |
| `merkleRoots` | the set of its true keys |
| `assets[secret]` | a function from secrets, amount 0 where unset |
| `nullified` | the set of its true keys |
| `_addNewTx` | `AddNewTxs`, which records the root of *each* append |
| `_locateTransaction` | `LocateTransaction` |
| `_spendTransaction` | `SpendTransaction` |
| `deposit`, `seekAndHideNoZk`, `withdrawNoZk`, `handleZkp`, `setVerifier`, `recalculateMerkleRoot` | the actions of those names |
| ERC-20 (OpenZeppelin) | `Move`, `Approve`, `TransferFrom` |

A `require` is a guard: a reverted call leaves no trace. `withdrawNoZk` calls the contract from
itself, so the sender its callee sees is Chamber. A zero-knowledge proof is accepted exactly when the
statement its circuit proves (`MistProof`) holds; the MIST circuit is not in the repository and is
modelled from how the SDK and the contract use it: the spent transaction is in the root, the amounts
add up, and `authDone` is proved only for an owner who is a MIST identity. The inputs of a proof
range over all transactions of all roots, all ways of splitting the amount and all recipients.

### Escrow

Extends Chamber with `consumeEscrow`, the escrow circuit (`EscrowProof`) and the inputs the SDK's
`escrowClaim` builds. The escrow's key is `hash3(blinding, senderTx, recipientSecret)`. The circuit does
not ask for the owner to be the Escrow contract, so neither does `Terms`. `Claim` lets anybody call
`consumeEscrow` with the terms of any escrow, and a MIST proof for *any* transaction with any split:
what ties the two together is the code's two equalities alone. `consumed` is the set of
`EscrowConsumed` events, which the code emits and does not store.

### Swap

The tools `payRequest`, `escrowFund` and `escrowClaim` of the runner and the flows of `MISTActions` they
call, on the contracts of `Escrow`. An action is what a flow does between two awaits.

| Code | Model |
| --- | --- |
| a tool call of the model | an element of `ToolCall`, its arguments in `Args`, its place in `pc` |
| `deposit`'s two transactions | the steps `"approve"` and `"deposit"` |
| `walletClient.sendTransaction` | `Submit`: viem estimates the gas on the present state, and throws if the call would revert there; otherwise the transaction is in the agent's `mempool` |
| an account's nonces | the order of `mempool[agent]`; `Mine` takes its head, and executes or reverts it *then* |
| `waitForTransactionReceipt` | `Awaiting`; the receipt's status is logged and not looked at, so that `Mine` moves its tool call on either way |
| `checkStatus`, `escrowClaim`'s read after its five seconds' wait | `CheckEscrow`, `Read`; `Answer` is the list, or an old one |
| an exception, or the process stopping | `Throw`: what has been sent stays sent, and nobody awaits it any more |
| the model calling the tool again | `Start` from `"failed"` |

Tool calls of one agent run concurrently (the model may make several in a step), so they share the
allowance of their account. The contracts' guards come from `Escrow` and `Chamber`:
`CanDeposit` and `CanConsume` decide both the gas estimate and whether a mined transaction reverts.

What the tool calls are about is a constant. `EscrowSecretAssumption` only says that the secrets of their
escrows are among the model's. `RequestsAreSeparate` is what `requestFunds` provides, a new key for each
request: two calls that deposit under one secret have the same arguments, and nobody deposits under the secret
of the request a swap pays. It is no assumption of the module but a hypothesis of the two theorems that need it,
and `MCSwap` checks that its instance satisfies it.

### MistStore

What a `MISTActions` remembers and what of it survives the process: `txCount`, `requests` with their
status, and the store. Its callers are the tools `requestPayment`, `checkRequestStatus` and
`showBalance`, and the SDK's `withdrawEvm`; several may be in progress. Chamber is reduced to
which requests are paid and which are spent.

| Code | Model |
| --- | --- |
| `requestFunds` and the save that follows it up to its first await | `RequestFunds` |
| `save`: two `store.set`, one after the other | `SaveCount`, `SaveRequests`, `Saved`; `pc` is where the call is |
| `JSON.stringify` of a request's data, which throws on its BigInt amount | the guard of `SaveRequests`: requests are only ever written when there are none |
| `persistMistState`, which logs the exception | `SaveThrows` |
| `ZeroGKVStorageAdapter.set` in progress | `writes`; `Store` carries one out, or loses it (the adapter logs and reports nothing), or does a later one first |
| `checkStatus`: the test for `WITHDRAWN`, an await, then the assignment | `CheckStatus`, `Checked`; `ScanPayments` does it for all pending requests |
| `withdrawEvm`: read, prove, send, receipt, status, save | `Withdraw`, `SubmitZkp`, `MineZkp`, `Withdrawn` |
| the process ending, and `Agent.create` with `load` | `Stop`, which leaves writes and transactions that have been sent on their way, and `Restart` |
| a peer paying a request it was given | `Pay` |

A key is its index, which with the owner determines it; a request is handed out (`shared`) when its
tool returns it, or before by a concurrent `sendPeer` (`ShareEarly`). Whether there is a store at all depends
on the agent's `settings`: `parseOptionalZeroG` gives one only with the two that have no default (`HasStore`).

### AgentRunner

The processes of the agents: server, turns and tools, up to and around what the tools do on the chain, which is
`Swap`. The model's answers are arbitrary: any number of calls of any tools with any aliases.

| Code | Model |
| --- | --- |
| `main`: building the agent and listening, then logging, then the initial task | `Boot`, `Kickoff`; `Config` is what an agent is configured with |
| a signal, a crash; a log that cannot be appended to, whose promise nobody awaits | `Stop`, `LogFails` |
| `fetch` of the peer, `POST /message`, `{ ok: true }` | `posts`, `Receive`, `Refused`, `ReplyLost` |
| `Agent.mutex`, a chain of promises | `queue`, whose turns run one at a time; `BeginTurn` is what a turn does before its first await |
| `generateText` with `maxSteps` | `turn` and `steps`: `"inferring"`, `"calling"` while the tools of an answer begin, `"waiting"` until all of them have ended |
| `Agent.requests`, `registerOwnRequest`, `registerPeerRequest`, `getRequest`, `serializeRequest` | `requests`, `NewEntry`, `AsPeers` with `SetAll`, `Uses`, `Pick` |
| a tool in progress | an element of `calls` with the entries it has looked up (`uses`) and where it is |
| an exception in a tool | `Throw`: the turn fails and releases the mutex; other tools go on as orphans |
| `finalize`, and the tests of `finalized` | `SetFinalized`, `Accepts`, `StepOf` |

The tools of one answer begin one after the other with nothing in between, since each runs up to its first
await when it is called: while `turn` is `"calling"`, nothing else of the process takes a step (`Awaiting`).

### Prover

`sdk/src/gnark/index.ts`: both provers register functions on `globalThis`, and both one named `prove`. `init`
loads the MIST prover, remembers its `prove`, loads the escrow prover, and puts `prove` back. An action is what
a call does between two awaits: `CallInit`, `GetWasmInstance`, `RunGo`, `Loaded` (the timer), and `InitThrows`.
`overlaps` is a history variable: where other calls were when one more began to load.

### Workflow

The plugin's seven steps as nodes of workflow graphs, which one server process runs for several
organizations. `Args` is what the graphs are: each node's step, organization, and the nodes it takes its inputs
from. A node begins when those are done (`Begin`), builds its `MISTActions`, which initializes the provers of
`Prover` (`BuildMistActions`, `InInit`, `Built`), and goes through its operation.

| Code | Model |
| --- | --- |
| `buildMistActions` with no `StorageAdapter` | `TxCount`: each step's counter begins at 0 |
| `signer.sendTransaction` and `populated.wait()` of ethers | `SendTransaction`: an estimate that throws, or an entry of the organization's `pending`; `Mine`, after which `Receipt` moves the step on; on a revert `wait` throws (`Revert`) |
| `MISTActions.deposit`, `escrowFund`, `escrowClaim` | `approve`, `deposit`, `read`, `consume`, in `pc` |
| `_getTxArray` | `Seen`; a node that lags behind is a fault of `CheckRequestStatus`, or a throwing await |
| `stepHandler`'s catch, `maxRetries = 0` | `"failed"`, from which nothing goes on |
| the server process ending | `Restart`, with which the provers are gone (`Unload`) |

### Poseidon2

`hash2` and `hash3` twice over: as `Poseidon.sol` and its port to the frontend compute them, in place, in three
loops over one array of keys, and as a reference that numbers the rounds and multiplies by matrices. The field,
the numbers of rounds and the keys are parameters.

## 3. Runs

| Run | Bounds | What it shows |
| --- | --- | --- |
| `storedmerkle` | 2 leaf values, 9 leaves, circuit depth 3; the hash over the field of 13 with 3, 8 and 3 rounds | in every order of appends and rebuilds, every node is the root of its leaves, levels halve, proofs verify on chain and in the circuit, and the tree implements `Accumulator`; the nodes' hash is the reference's and permutes, for all inputs |
| `chamber` | 2 accounts and 1 identity, 1 token, 1 key with 3 owners, amounts below 3, 4 transactions | types; roots are exactly the list's; nothing comes from nowhere; the contract stays solvent; each step conserves value; the list implements `Accumulator` |
| `chamber_duplicate` | as above | *violation*: see finding 1 |
| `escrow` | 2 parties and the Escrow contract, 2 tokens, 2 escrows on different terms, amounts below 2, 4 transactions | consumed escrows are settled; escrows are spent on their terms; a funded one is claimable |
| `swap` | 3 tool calls: Alice's `escrowFund`, Bob's `escrowClaim`, Bob's `payRequest` in the token he swaps; 2 throwing awaits or stale answers | calls made again pay once, and only for an escrow that is there; an escrow gets funded; an undisturbed swap settles |
| `swap_retry` | 1 throwing await | *violation*: see finding 2 |
| `swap_receipt` | no throwing await | *violation*: see finding 3 |
| `miststore` | with a store and with settings that do not make one; 2 requests, a check or scan, a withdrawal, 2 restarts, 1 failure of the store | a reliable store keeps keys fresh; statuses are true; failing saves do not keep a request from its payer |
| `miststore_lost` | 1 restart, no failure | *violation*: see finding 4 |
| `agentrunner` | the repository's 2 agents, of which Bob has a `task.md`; an alias each; 3 tool calls, 2 steps a turn; 1 fault: an exception, a lost reply, a process that ends | aliases agree; owners are right; a finalized agent stays quiet; sends complete; what is acknowledged is heard |
| `workflow` | 2 organizations, 8 nodes: a swap with its two requests and blinding, another payment of one of them, a status, a balance; 2 faults: throwing awaits, stale answers, restarts | success is true; the MIST prover is put back; claims that have paid consume; every step ends |
| `workflow_fresh` | 2 requests of one organization, one payment, no fault | *violation*: see finding 5 |

**Why the bounds are enough.** Nine leaves go through every shape of tree up to 2^3 + 1: full, with a
carried node at each level, and with each new level being added; a circuit depth of 3 puts the limit of
`PaddedProofsPassCircuit` inside the run, at 8 of the 9 leaves. Equal leaves occur, two values over nine
positions. In `chamber`, four transactions are enough for two deposits and the two appends of a
`handleZkp`, for a spend of a transaction that a spend appended, and for a proof against a root between
two appends; Alice's two units allow a whole, a partial and an empty withdrawal. An address and an
identity as owner separate the two spend paths, and an owner not the caller the two kinds of sender. In
`escrow`, four transactions hold an escrow, the expected payment and the two appends of the claim; the
second escrow, on other terms, is what a claim could confuse with the first. `Room` is the only guard
the models add, and it bounds `MaxTx`. In `swap`, five transactions are all that the three calls can append;
two faults are enough for a call to fail after its approve and again after its deposit, or for two calls
to fail, with the transactions they sent still to be mined. In `miststore`, two restarts let a write of
the first process be carried out under the third; two requests are what one key could be shared by. In
`agentrunner`, three calls let an agent share a request, get it back from its peer and share it again, let two
tools run concurrently with a third that outlives its turn, and let both agents send at once while a third
message comes late; two steps make a turn's last step a different one from its first. In `workflow`, four nodes
and more load the provers at once, an organization pays twice in one token at a time, and a claim waits for a
fund of the other organization; two faults let a step fail after its approve, with its transaction still to be
mined under another's, or under a new process. The field of 13 is small enough for all pairs and triples of
elements, has a prime for which the fifth power is injective, as the code's has, and the rounds are more than
one of each kind; the keys differ from one index to the next.

**Deadlock** is checked in the runs of the contracts: `recalculateMerkleRoot` can always be called. `swap`,
`miststore`, `agentrunner` and `workflow` may stop: when every call and step is done, or no more calls,
faults and restarts are left within the bounds.

**Fairness.** The contracts promise nothing about who calls them, and their properties are safety
properties: `FundedEscrowIsClaimable` says that a call *would succeed*, not that somebody makes it.
`SwapSpec` assumes that a sent transaction is eventually mined (weak fairness of `Mined`, for each
account), that what a flow awaits is answered, and that an agent whose tool call failed makes it again
(weak fairness of `Proceed`, for each call). The first two are what the Ethereum node and the runtime
do; the third is a decision of the model, which nothing in the code forces: the liveness properties
are about agents that keep trying, the strongest case for `PaidSwapSettles` to hold in. Nothing is assumed of `Throw`.
`StoreSpec` assumes that awaited promises resolve, that the store carries out its first write or fails,
and that transactions are mined; nothing about calls beginning, payers, stops and restarts.
`RunnerFairness` is that of an event loop, for each agent: as long as something is ready (the model has
answered, an awaited promise has resolved, a message has arrived) one of these things happens; which of them is
open. It assumes that the inference service answers, or fails, and nothing of processes being started, tools
being called or faults. `WorkflowFairness` assumes the same of the server, for all its steps together, and that an
organization's sent transactions are mined; nothing of a node beginning.

### The properties

- `NodesAreSubtreeRoots` compares the tree's node-by-node updates with `ReferenceRoot`, which splits the
  list at the largest power of two below its length and shares no code with them.
- `RootsAreSnapshots` has both directions: a proof made from any answer of `getTxArray`, however
  old, is accepted, and nothing outside the list can be proved.
- `Solvent`: for each token, the unspent transactions sum to no more than Chamber's balance, so that they
  can be withdrawn in any order. It needs the nullifiers of both spend paths to agree.
- `EveryStepConserves`: a step that sets a nullifier spends one transaction of the list, not spent
  before, and its amount is what leaves plus what is appended; a step that does not appends
  what comes in.
- `ConsumedIsSettled` is the atomicity of the swap: with the event, the transaction the creator
  expects and the recipient's payment are both in Chamber.
- `EscrowsAreSpentOnTerms`: an escrow owned by the Escrow contract leaves the pool by
  `consumeEscrow` on its terms, or by its preimage to the Escrow contract. No call of
  anybody pays a third account from it.
- `FundedEscrowIsClaimable`: from any list that has both, the inputs `escrowClaim` builds are
  accepted, whatever was appended since.
- `PaysOnce`: the balance of an agent is what it had, less one amount for each of its payments that is in the
  list: no interleaving of calls, failures and retries pays one request twice.
- `ClaimPaysFunded`: `escrowClaim` reads the list in one await and pays in a later one; the payment
  is never made without the escrow in the list, nor from a late transaction of a failed call.
- `EscrowGetsFunded`: however often `escrowFund` fails and whatever it has left behind (allowances,
  transactions nobody awaits), keeping at it gets the escrow funded, if the agent's other calls do
  not use the same token.
- `UndisturbedSwapSettles`: with no throwing await and no stale answer the swap settles, even while
  another payment of the same token overwrites its allowance.
- `ReliablyFresh`: two requests handed out never have one index, wherever the process stops, as long as
  the store loses nothing and keeps its writes in order. It is the order inside `requestPayment` (count,
  save, hand out) that makes it so; writes of a process that has stopped, and land later, are covered.
- `StatusIsTrue`: `PAID` means that Chamber has the request, however old the list was; `WITHDRAWN` that
  it is spent, although the receipt's status is not read: after a successful gas estimate only another
  spend of the same request can make `handleZkp` revert.
- `RequestsAreHandedOut`: no failure of the store or of `save` blocks a `requestPayment`.
- `AliasesAgree`: agents that name their own requests differently mean one request by an alias, in what they
  have registered, in what is queued or on its way, and in what tools in progress began with; so a peer's message that
  arrives under a running flow never makes an alias mean something else. It holds only as long as no agent
  forgets, and takes an alias of its own again: then it would not.
- `OwnersAreRight`: a request that has been to the peer and back does not count as the agent's own unless it is.
- `FinalizedStaysQuiet`: turns that were queued before `finalize` still run, and infer nothing.
- `SendsComplete`: the reason the server gives for acknowledging at once, that two agents in turns of their own
  do not wait for each other.
- `AckedIsHeard`: whatever becomes of a turn, the queue behind it is worked off.
- `SuccessIsTrue`: the plugin's steps wait for receipts that throw; so, unlike in finding 3, what is reported
  as paid is on the list, although the organization's other steps may take the allowance in between.
- `ProverIsMist`, `PaidClaimsConsume`: calls of `init` may overlap; if none begins to load while another waits for
  its timer, the MIST prover is put back, however they interleave. Otherwise `prove` may stay the escrow
  prover's, and a claim that has paid fails to make its MIST proof. The properties say exactly that: `overlaps` is
  their one exception, besides faults.
- `StepsEnd`: also steps whose transactions are queued behind those of failed ones.
- `NodesHashAsReference`, `NodeHashesPermute`: evaluated once, in the initial state.

## 4. Findings

1. `chamber_duplicate`: the duplicate check of `deposit` (`// Check no duplicate`,
   "transaction already exists") looks at `assets`, which only `deposit` writes. A transaction that
   a spend appended can be deposited again; the two copies share one nullifier, and one of them can
   be spent.
2. `swap_retry`: `escrowClaim` pays the creator's request in a transaction before the one that consumes
   the escrow. If an await between them throws, the tool fails, and made again it begins with the same
   deposit, which reverts as "transaction already exists". No tool consumes an escrow
   without that deposit. The repository's README calls the swap atomic; `consumeEscrow` is.
   (`FundedIsClaimable` says the contracts would accept the claim: it is the flow that does not get there.)
3. `swap_receipt`: Bob's `payRequest` and `escrowClaim` approve the same token, each for itself; the
   first deposit uses up the allowance the other estimated its gas with, and the other is mined as a
   revert. Its receipt's status is only logged, after the message `sendTransaction.confirmed`, and the tool
   completes without having paid.
4. `miststore_lost`: `save` says "Persist current state" and writes the requests with `JSON.stringify`, which
   throws on their BigInt amounts. Only the counter is ever stored; after a restart an agent's requests, and with
   them their statuses, are gone (`deriveRequest` can rebuild one from its index, amount and token). `RequestsSurvive`
   is about requests whose save is over: in the trace the counter is stored, `SaveRequests` throws, which is logged, and the
   request is handed out before the process stops. Had `save` written the requests, the same run would find no violation.
5. `workflow_fresh`: every workflow step builds its own `MISTActions`, without a store, whose counter begins at 0.
   Two requests of one wallet then share a secret, and Chamber takes one deposit of a secret: once one is paid,
   the other cannot be. The repository's README calls each request fresh and unlinkable.

## 5. Proofs

All by TLAPS, for any sets of leaves, accounts, tokens, keys, secrets, verifiers, calls, agents, aliases, configurations,
organizations and graphs, any initial balances and allowances, any field, numbers of rounds and keys of the hash, and
any bounds, from the assumptions the modules name: Chamber is not one of the calling accounts; an identity is no address;
the Escrow contract is not Chamber's contract owner; a call is of one kind; zero is no leaf, and storage has levels enough
for the leaves; the secrets of the agents' escrows are in play; the other constants have their types.

**`ChamberProofs`.** The inductive invariant is

    IInv == TypeOK /\ TreeIsCurrent /\ RootsAreSnapshots /\ NothingFromNowhere

`RootsAreSnapshots` is not inductive alone: an append records the roots of the *stored tree*, and they
are prefixes of the list only if the tree holds the list (`TreeIsCurrent`, which `recalculateMerkleRoot`
keeps for the opposite reason). The steps go through three kinds of lemma: what a nullifier
determines (`NullifierInjective`: adding one to a key is injective, so a nullifier belongs to one
transaction), what `AddNewTxs`, `Move` and `SpendTransaction` do, and one lemma per operation, each
showing `IInv'` and `Conserves` together.

| Theorem | Statement |
| --- | --- |
| `TypeCorrect` | `Spec => []TypeOK` |
| `RootsCorrect` | `Spec => []RootsAreSnapshots` |
| `NothingFromNowhereCorrect` | `Spec => []NothingFromNowhere` |
| `Conservation` | `Spec => EveryStepConserves` |
| `Solvency` | `Spec => []Solvent` |
| `Refinement` | `Spec => Log!Spec`: Chamber implements `Accumulator` |

`Solvent` is about a sum over a set. The model's `Total` adds up transactions one at a time, in an arbitrary order; what the proof
needs is that the order does not matter. `TotalFirst` is the recursion; `TotalSplit` and `TotalAdd`, that any
transaction can be taken first, hold because of a set of transactions with the fewest elements for which
they do not, one could take away another (`MinimalSubset`). Then a spend takes its transaction out of the sum
(`SpendReducesTotal`), an append adds at most its own (`AppendAddsToTotal`: a duplicate of a spent transaction adds nothing), and
`Conserves`, which every operation is shown to satisfy, relates the two to the balance.

**`EscrowProofs`.** `EInv == IInv /\ ConsumedIsSettled`. `consumeEscrow` preserves `IInv` as an
instance of `handleZkp`; `ConsumedIsSettled` is preserved by every call because neither a transaction
nor a nullifier ever disappears, and established by a claim because the escrow's nullifier determines
its transaction, hence its terms.

| Theorem | Statement |
| --- | --- |
| `ConsumedCorrect` | `EscrowSpec => []ConsumedIsSettled` |
| `SpentOnTerms` | `EscrowSpec => EscrowsAreSpentOnTerms` |
| `FundedIsClaimable` | `EscrowSpec => []FundedEscrowIsClaimable` |
| `SolventWithEscrows` | `EscrowSpec => []Solvent` |
| `EscrowImplementsLog` | `EscrowSpec => Log!Spec` |

**`SwapProofs`.** What the flows send is executed by steps of the contracts, so `EInv` holds below them
(`ContractsAdvance` is what a step of the flows does to the contracts, if anything). The inductive invariant is

    SInv == EInv /\ FlowTypeOK /\ SwapTypeOK /\ OnlyClaimsConsume

`PaysOnce` is inductive only together with the fact that what is deposited is registered (`DepositsAreRegistered`): it is
Chamber's duplicate check, and not the flows, which may send a payment again after its receipt was lost, that makes
them pay once. `ClaimPaysFunded` needs `ClaimsAreChecked`: a claim that is past `checkStatus`, *or has left a
transaction in the mempool when it failed*, has its escrow in the list. Both need `RequestsAreSeparate`: two calls that
deposit one transaction but differ in the escrow they look for would refute the second, and two agents paying one
request the first.

| Theorem | Statement |
| --- | --- |
| `SwapTypeCorrect` | `SwapSpec => []SwapTypeOK` |
| `SwapsAreSafe` | `SwapSpec => [](Solvent /\ ConsumedIsSettled)` |
| `SwapsImplementLog` | `SwapSpec => Log!Spec` |
| `PaidOnce` | `RequestsAreSeparate` implies `SwapSpec => []PaysOnce` |
| `ClaimsPayFunded` | `RequestsAreSeparate` implies `SwapSpec => []ClaimPaysFunded` |

**`StoredMerkleProofs`.** For any leaves, any number of them, and any circuit depth. The inductive invariant is

    TreeInv == TypeOK /\ LevelsHalve /\ NothingAbove /\ LeavesAreStored /\ NodesJoin

`NodesJoin` says that each node is made of the one or two below it. An append keeps it because
the path it rewrites runs along the right edge: the slot it takes at a level is the level's last (so what it overwrites is no other node's), and nothing is above the
top (`NothingAbove`: otherwise a new level would begin with a stale length). A rebuild computes the same levels from
the leaves, so it changes nothing. That a node is the *reference's* root of its leaves (`EveryNodeIsARoot`) then follows by
induction on levels: the reference splits a node's leaves exactly where its children meet, since a node at level `l` has
`2^l` leaves below it, but the last, which has the rest. A proof, followed level by level, passes through the
ancestors of its leaf (`EveryProofVerifies`); it has at most one sibling per level, hence fits the circuit as long as
the tree does, and hashing with a zero changes nothing (`PaddedProofsPass`). For the log: what `merkleRoots` holds are the
reference roots of the list's prefixes, and no other (`RootsAreKnown`).

| Theorem | Statement |
| --- | --- |
| `TreeInvariance` | `Spec => []TreeInv` |
| `TreeTypeCorrect`, `LevelsAreHalved` | `Spec => []TypeOK`, `Spec => []LevelsHalve` |
| `EveryNodeIsARoot` | `Spec => []NodesAreSubtreeRoots` |
| `RootsAreKnown` | `Spec => []RootsKnown`: a root is accepted exactly if some prefix of the list has it |
| `EveryProofVerifies`, `PaddedProofsPass` | `Spec => []ProofsVerify`, `Spec => []PaddedProofsPassCircuit` |
| `TreeImplementsLog` | `Spec => Log!Spec` |

**`MistStoreProofs`.** `StatusIsTrue` needs to know what the calls in progress know: a call that proves is
about a request on Chamber's list, and one whose transaction is no longer in flight about a request that is
spent; a stopped process has no calls. That is `CallsAreTrue`, and `SInv == StoreTypeOK /\ StatusIsTrue /\
CallsAreTrue` is inductive.

`ReliablyFresh` needs more, as long as the store has not failed (`FreshInv`). What a later process will start
from is decided by the stored counter *and* by the writes in flight, in their order. So: every index handed
out is below the stored counter and below every counter in flight (`SharedIsBelow`); and an index that is
about to be handed out is below every counter from its own call's write on, or, when that has been carried
out, below the stored counter too (`SavingIsFresh`). A call whose save is over has no write in flight, so it
hands out an index that is below all of them. A process that stops in between leaves only writes behind, and
the next one begins above everything that was handed out.

| Theorem | Statement |
| --- | --- |
| `StoreTypeCorrect` | `StoreSpec => []StoreTypeOK` |
| `StatusCorrect` | `StoreSpec => []StatusIsTrue` |
| `FreshCorrect` | `StoreSpec => []ReliablyFresh` |

**`AgentRunnerProofs`.** `RunnerTypeOK` is inductive: it says also that a turn's message stays in its queue
until it is in the history, and that a process that is down has no calls. `OwnersAreRight` follows from what may enter
`requests`: an entry an agent makes, or one of a message, relabelled. `AliasesAgree` is stated over all tables
of entries there are; its invariant `AliasInv` says what all of them refer to: an alias in any table is one of the
agent's that made the request, and is registered there for the same one. A new request goes under an alias its agent
does not know, hence one that is in no table at all. `FinalizedStaysQuiet` is about one step, by cases.

| Theorem | Statement |
| --- | --- |
| `RunnerTypeCorrect` | `RunnerSpec => []RunnerTypeOK` |
| `OwnersCorrect` | `RunnerSpec => []OwnersAreRight` |
| `AliasesCorrect` | `RunnerSpec => []AliasesAgree` |
| `FinalizedQuiet` | `RunnerSpec => FinalizedStaysQuiet` |

**`WorkflowProofs`, the provers.** `PInv` is `ProverTypeOK` and what is remembered: unless a call began to load while another
waited for its timer, every call that loads has the MIST prover's `prove` to put back, and there is one to put
back as long as the escrow prover's is in its place. The steps' invariant has it as a part.

| Theorem | Statement |
| --- | --- |
| `ProverCorrect` | `ProverSpec => []ProverIsMist` |

**`WorkflowProofs`, the steps.** The inductive invariant is

    WInv == Typed /\ PInv /\ AllPlaced /\ Queued /\ AllKnown /\ ClaimsDiffer /\ Undisturbed

A step has at most one transaction pending, in its organization's queue, and waits for that one (`AllPlaced`,
`Queued`); so, when it has moved on, what it sent is on the chain, and the list only grows (`AllKnown`), which is
`SuccessIsTrue`. For `PaidClaimsConsume`: two claims that have paid have not paid one request (`ClaimsDiffer`),
since Chamber takes one deposit of a secret; so no claim consumes another's escrow, and without faults an escrow
that is consumed is so by a claim that is done. And a step whose initialization is over has found the escrow prover
cached, so that, without overlapping loads, nobody loads any more and `prove` is the MIST prover's (`Undisturbed`).

| Theorem | Statement |
| --- | --- |
| `WorkflowTypeCorrect` | `WorkflowSpec => []WorkflowTypeOK` |
| `SuccessCorrect` | `WorkflowSpec => []SuccessIsTrue` |
| `PaidClaimsCorrect` | `WorkflowSpec => PaidClaimsConsume` |

**`Poseidon2Proofs`.** `hash2` and `hash3` are the reference's for every field, all keys and all numbers of rounds.
Per layer: sums reduced after each addition are the rows of the matrices (`External2` to `Internal3`), and squaring
twice the fifth power (`SBoxIsFifth`). Per round: the keys a round begins at, counted from the full rounds before it
(`KeysOfRound`), are in the array. Per loop: from the reference's state `R[off]` a loop ends in `R[off + n]`
(`FullLoop2` to `PartialLoop3`), so the three in a row end in the last one.

That the rounds permute the states needs number theory, which the module derives from `FieldAssumption`: what is not a
multiple of a prime has an inverse (`InverseExists`, `Euclid`); a number other than 1 with 1 as its fifth power would
group the other elements in fives (`BlocksOfFive`), but `Field % 5 # 1`; hence the fifth power is injective
(`FifthInjective`). A linear layer is so if its determinant (3 or 5 for two elements, 4 or 7 for three) is not 0 in the
field, hence `Field > 7`, as the code's is; for 7 TLC finds two states that become one. From equal results one
goes back, round by round, to equal inputs (`ReferenceInjective`).

| Theorem | Statement |
| --- | --- |
| `HashesCorrect` | `HashesAreReference` |
| `NodesAreHashed` | `Spec => []NodesHashAsReference` |
| `StatesPermuted` | `PermutesStates`, if `Field > 7` |
| `NodesPermute` | `Spec => []NodeHashesPermute`, if `Field > 7` |

**Only model-checked.** The liveness properties (`EscrowGetsFunded`, `UndisturbedSwapSettles`, `RequestsAreHandedOut`,
`SendsComplete`, `AckedIsHeard`, `StepsEnd`), since they rest on fairness. Every other
property of a passing run is a theorem. Where values are defined by recursion, there is no induction theorem to cite (the library's
take an operator as a parameter): the proofs derive the induction they need, over a set of numbers, from the well-foundedness
of `<`, and show first that a function satisfying the recursion exists.

## 6. What is assumed, and what is left out

- Hashes do not collide, and keys of different derivations never differ by a small number: `key + 1`
  does not reach another key's value, nor wrap around the field.
- The Groth16 verifiers accept exactly the statements of their circuits.
- Tokens behave as OpenZeppelin's ERC-20. `Ownable` is `setVerifier`'s guard; transfers of ownership are
  not modelled.
- **`append` and `initStorage` are public in `StoredMerkle.sol`, and Chamber inherits them.** `Chamber.tla`
  models the operations Chamber itself declares; all of its results are under the assumption
  that the two are called only from within Chamber. The component is therefore listed as partly
  modelled. `StoredMerkle` rebuilds the whole list, as Chamber does; given a shorter one than before,
  `initStorage` would leave the lengths of higher levels as they are.
- An escrow can be withdrawn by its preimage to its owner, the Escrow contract, which has no operation to move
  tokens (`EscrowsAreSpentOnTerms` allows for it).
- Amounts are natural numbers below `MAX_AMOUNT_SUPPORTED`, as `deposit` requires, so no sum overflows.
- Two concurrent `sendTransaction`s that get the same nonce are not modelled apart: one of them
  throws, as `Throw` does. The order of different accounts' transactions is arbitrary.
- `payload` arguments and events of Chamber are left out: no operation reads them.
- TLC checks `Poseidon2` over a small field with keys of its own: the code's 254-bit keys and its 50 partial rounds
  are out of its reach, and covered by `HashesCorrect` and `StatesPermuted` only. Hashes that collide only on equal inputs remain an assumption everywhere else.
- `Workflow`: an organization can pay whatever its steps deposit, everybody pays one amount of each token, and
  ethers' `wait` throws on the receipt of a reverted transaction (the signer is one of the host application).
  `proveEscrow`'s own `init` is not modelled apart: by then the prover is cached. The awaits between the claim's
  reading of the list and its proofs are one step (`ProveClaim`).
- What a property excepts, no other one covers: an index taken twice after a stop in the middle of a save, a failure of
  the store or without a store; `prove` after overlapping calls of `init`; a message acknowledged by a process
  that then ends; aliases of agents that name their requests alike. These are in the models, and the hazards' notes say so.
- `AgentRunner`: what the model says, and so whether it calls a tool at all, is arbitrary; so a turn that failed
  midway, of which the history shows nothing, is followed by any other. Both agents are told to name their requests
  differently; nothing in the code makes them, hence the condition of `AliasesAgree`.
- `toTokenUnits` computes with floating-point numbers; amounts are small naturals here. `requestFunds` always
  takes 18 decimals, while `plugins/mist/index.ts` speaks of the token's.
- Not modelled: the generated Groth16 verifiers and the WebAssembly of the provers, which are arithmetic; typed
  bindings of the contracts (`sdk/src/contracts`) and the vendored `wasm_exec.js`; the frontend, whose mounted swap card
  is a mock-up without effects, and whose wallet views, which only read, are not mounted; sums for display
  (`balance.ts`, the sums of `show-balance.ts`); `deriveRequest` and `exportState`, which nothing calls; deployment and build
  scripts and the AXL binary.

## 7. Plan

Done: `Accumulator`, `StoredMerkle`, `Poseidon2`, `Notes`, `Chamber`, `Escrow`, `Swap`, `MistStore`, `AgentRunner`,
`Prover`, `Workflow`, and proofs of all their safety properties.

1. An abstract `AtomicSwap` that `Swap` implements as long as no await throws.
2. The composition of `AgentRunner` with `Swap`: tool calls that messages lead to, on the requests their aliases
   stand for.
3. Withdrawals of part of an amount and to others in `MistStore`, which the SDK offers and no tool calls.
4. The escrow's derivation as `Escrow.sol`'s header, `contracts/README.md` and the SDK's
   `contracts/escrow.ts` each describe it, against the circuit's.
