------------------------------ MODULE Workflow ------------------------------
(***************************************************************************)
(* The workflow plugin: payments and escrow swaps as the steps of workflow *)
(* graphs, which one server process runs for several organizations.  A     *)
(* step builds a MISTActions of its own, with no store, calls one of its   *)
(* operations with what earlier steps have put out, and answers with       *)
(* success or with an error; no step is run twice.                         *)
(*                                                                         *)
(* An action is what a step does between two awaits, or the mining of a    *)
(* transaction.  An organization can pay whatever its steps deposit, and   *)
(* everybody pays one amount of each token.                                *)
(***************************************************************************)
EXTENDS Prover, Naturals, Sequences, SequencesExt

CONSTANTS
  Organization,
  Asset,          \* a token and the amount paid of it
  Args,           \* what each node is: its step, its organization, the nodes
                  \* it takes its inputs from, and those it comes after
  MaxFaults       \* bound on throwing awaits, stale answers and restarts

(* The nodes of the workflow graphs.  Each builds its MISTActions once.     *)
Node == Caller

(* Steps by what they take: nothing; one request; both sides' requests and *)
(* a blinding; or only what there is.                                      *)
Makes        == {"generate-blinding", "request-payment"}
TakesRequest == {"pay-request", "check-request-status"}
TakesEscrow  == {"escrow-fund", "escrow-claim"}
Shows        == {"show-balance"}

Step == Makes \cup TakesRequest \cup TakesEscrow \cup Shows

ASSUME WorkflowAssumption ==
  /\ Args \in [Node -> [step : Step, org : Organization, asset : Asset,
                        creator : Node, recipient : Node, blinding : Node,
                        after : SUBSET Node]]
  /\ MaxFaults \in Nat

VARIABLES
  pc,           \* where each step is
  status,       \* the status each check-request-status puts out
  list,         \* Chamber's transactions
  allowance,    \* what organizations allow Chamber to take
  consumed,     \* the escrows consumed
  pending,      \* each organization's sent transactions, in nonce order
  faults

chainVars == <<list, allowance, consumed, pending>>
workflowVars == <<pc, status, chainVars, faults, proverVars>>

StepOf(n) == Args[n].step
OrgOf(n)  == Args[n].org

GoTo(n, where) == pc' = [pc EXCEPT ![n] = where]

Running(n) == pc[n] \notin {"idle", "done", "failed"}

Fault == faults < MaxFaults /\ faults' = faults + 1

-----------------------------------------------------------------------------
(* What steps put out and take.                                            *)

(* The counter of a MISTActions that has just been built.                  *)
TxCount == 0

(* The request a request-payment node puts out.                            *)
RequestOf(n) ==
  [secret |-> <<"request", OrgOf(n), TxCount>>, asset |-> Args[n].asset]

CreatorRequest(n)   == RequestOf(Args[n].creator)
RecipientRequest(n) == RequestOf(Args[n].recipient)

(* The escrow of a fund and of a claim; a blinding is known by its node.   *)
EscrowOf(n) ==
  [secret |-> <<"escrow", Args[n].blinding, CreatorRequest(n), RecipientRequest(n).secret>>,
   asset |-> RecipientRequest(n).asset]

Deposited(n) == IF StepOf(n) = "escrow-fund" THEN EscrowOf(n) ELSE CreatorRequest(n)

(* The nodes a node comes after.                                           *)
Inputs(n) ==
  Args[n].after \cup
  CASE StepOf(n) \in TakesRequest -> {Args[n].creator}
    [] StepOf(n) \in TakesEscrow  -> {Args[n].creator, Args[n].recipient, Args[n].blinding}
    [] OTHER -> {}

-----------------------------------------------------------------------------
(* The chain.                                                              *)

(* What an up-to-date node answers getTxArray with contains txs.           *)
Seen(txs) == txs \subseteq list

(* Whether a transaction of n would succeed now.                           *)
CanExecute(n, step) ==
  CASE step = "approve" -> TRUE
    [] step = "deposit" ->
         /\ \A tx \in list : tx.secret # Deposited(n).secret
         /\ <<OrgOf(n), Deposited(n).asset>> \in allowance
    [] step = "consume" ->
         {EscrowOf(n), CreatorRequest(n)} \subseteq list /\ EscrowOf(n) \notin consumed

Execute(n, step) ==
  \/ /\ step = "approve"
     /\ allowance' = allowance \cup {<<OrgOf(n), Deposited(n).asset>>}
     /\ UNCHANGED <<list, consumed>>
  \/ /\ step = "deposit"
     /\ list' = list \cup {Deposited(n)}
     /\ allowance' = allowance \ {<<OrgOf(n), Deposited(n).asset>>}
     /\ UNCHANGED consumed
  \/ /\ step = "consume"
     /\ consumed' = consumed \cup {EscrowOf(n)}
     /\ UNCHANGED <<list, allowance>>

(* Where a step goes on after a transaction.                               *)
After(n, step) ==
  CASE step = "approve" -> "deposit"
    [] step = "deposit" -> IF StepOf(n) = "escrow-claim" THEN "read" ELSE "done"
    [] step = "consume" -> "done"

Mined(org) ==
  /\ pending[org] # <<>>
  /\ pending' = [pending EXCEPT ![org] = Tail(@)]

Receipt(n, where) == IF Running(n) THEN GoTo(n, where) ELSE UNCHANGED pc

(* Mutant: the status of the receipt is not looked at. *)
RevertUnseen(n, step) == Receipt(n, After(n, step))

(* wait throws on the receipt of a transaction that has reverted.          *)
Revert(n, step) == Receipt(n, "failed")

Mine(org) ==
  /\ Mined(org)
  /\ LET n    == Head(pending[org]).node
         step == Head(pending[org]).step
     IN  \/ /\ CanExecute(n, step)
            /\ Execute(n, step)
            /\ Receipt(n, After(n, step))
         \/ /\ ~CanExecute(n, step)
            /\ Revert(n, step)
            /\ UNCHANGED <<list, allowance, consumed>>
  /\ UNCHANGED <<status, faults, proverVars>>

-----------------------------------------------------------------------------
(* Steps.                                                                  *)

(* Nodes run once their inputs are there.  A blinding takes no await.      *)
Begin(n) ==
  /\ pc[n] = "idle" /\ \A m \in Inputs(n) : pc[m] = "done"
  /\ GoTo(n, IF StepOf(n) = "generate-blinding" THEN "done" ELSE "context")
  /\ UNCHANGED <<status, chainVars, faults, proverVars>>

(* The organization and its wallet are looked up, and the SDK initialized. *)
BuildMistActions(n) ==
  /\ pc[n] = "context"
  /\ GoTo(n, "building")
  /\ CallInit(n)
  /\ UNCHANGED <<status, chainVars, faults>>

FirstOf(n) ==
  CASE StepOf(n) = "request-payment" -> "done"
    [] StepOf(n) \in {"pay-request", "escrow-fund"} -> "approve"
    [] OTHER -> "check"

(* There is a MISTActions, and one of its operations begins.               *)
Built(n) ==
  /\ pc[n] = "building" /\ init[n] = "over"
  /\ GoTo(n, FirstOf(n))
  /\ UNCHANGED <<status, chainVars, faults, proverVars>>

InInit(n) ==
  /\ pc[n] = "building"
  /\ InitProceeds(n)
  /\ UNCHANGED <<pc, status, chainVars, faults>>

Sent(n) == [node |-> n, step |-> pc[n]]

(* Mutant: a step does not wait for what it has sent. *)
NeverAwaiting(n) == FALSE

Awaiting(n) == Contains(pending[OrgOf(n)], Sent(n))

(* A transaction is estimated, which throws if it would revert now, and    *)
(* sent; the step waits for it.                                            *)
SendTransaction(n) ==
  /\ pc[n] \in {"approve", "deposit", "consume"} /\ ~Awaiting(n)
  /\ IF CanExecute(n, pc[n])
       THEN pending' = [pending EXCEPT ![OrgOf(n)] = Append(@, Sent(n))] /\ UNCHANGED pc
       ELSE GoTo(n, "failed") /\ UNCHANGED pending
  /\ UNCHANGED <<status, list, allowance, consumed, faults, proverVars>>

(* The list arrives; a node that lags behind does not show all of it.      *)
CheckRequestStatus(n) ==
  /\ pc[n] = "check" /\ StepOf(n) = "check-request-status"
  /\ GoTo(n, "done")
  /\ \/ Seen({CreatorRequest(n)}) /\ status' = [status EXCEPT ![n] = "PAID"] /\ UNCHANGED faults
     \/ ~Seen({CreatorRequest(n)}) /\ UNCHANGED <<status, faults>>
     \/ Fault /\ UNCHANGED status
  /\ UNCHANGED <<chainVars, proverVars>>

(* A MISTActions that has just been built has no requests to sum up.       *)
ShowBalance(n) ==
  /\ pc[n] = "check" /\ StepOf(n) = "show-balance"
  /\ GoTo(n, "done")
  /\ UNCHANGED <<status, chainVars, faults, proverVars>>

(* escrowClaim begins with the status of the escrow.                       *)
CheckEscrow(n) ==
  /\ pc[n] = "check" /\ StepOf(n) = "escrow-claim"
  /\ GoTo(n, IF Seen({EscrowOf(n)}) THEN "approve" ELSE "failed")
  /\ UNCHANGED <<status, chainVars, faults, proverVars>>

(* After its deposit it reads the list, and proves.  The MIST proof is     *)
(* made by whatever `prove` is.                                            *)
ProveClaim(n) ==
  /\ pc[n] = "read"
  /\ GoTo(n, IF Seen({EscrowOf(n), CreatorRequest(n)}) /\ prove = "mist"
               THEN "consume" ELSE "failed")
  /\ UNCHANGED <<status, chainVars, faults, proverVars>>

(* An await throws; the step answers with the error.  What it has sent     *)
(* stays sent.                                                             *)
Throws(n) ==
  /\ Running(n)
  /\ \/ pc[n] = "building" /\ InitThrows(n)
     \/ pc[n] # "building" /\ UNCHANGED proverVars
  /\ Fault
  /\ GoTo(n, "failed")
  /\ UNCHANGED <<status, chainVars>>

(* The server process ends, and another takes over: also when the escrow   *)
(* prover has not registered itself by the time the timer fires, since     *)
(* nobody catches what the timer throws.                                   *)
Restart ==
  /\ \E n \in Node : Running(n)
  /\ Fault
  /\ pc' = [n \in Node |-> IF Running(n) THEN "failed" ELSE pc[n]]
  /\ Unload
  /\ UNCHANGED <<status, chainVars>>

-----------------------------------------------------------------------------

WorkflowInit ==
  /\ pc = [n \in Node |-> "idle"]
  /\ status = [n \in Node |-> "PENDING"]
  /\ list = {} /\ allowance = {} /\ consumed = {}
  /\ pending = [org \in Organization |-> <<>>]
  /\ faults = 0
  /\ ProverInit

Proceed(n) ==
  \/ BuildMistActions(n) \/ InInit(n) \/ Built(n)
  \/ SendTransaction(n) \/ CheckRequestStatus(n) \/ ShowBalance(n)
  \/ CheckEscrow(n) \/ ProveClaim(n)

WorkflowNext ==
  \/ \E n \in Node : Begin(n) \/ Proceed(n) \/ Throws(n)
  \/ \E org \in Organization : Mine(org)
  \/ Restart

(* The event loop goes on while anything is ready, and each organization's *)
(* sent transactions are mined.                                            *)
WorkflowFairness ==
  /\ WF_workflowVars(\E n \in Node : Proceed(n))
  /\ \A org \in Organization : WF_pending(Mined(org))

WorkflowSpec == WorkflowInit /\ [][WorkflowNext]_workflowVars /\ WorkflowFairness

-----------------------------------------------------------------------------
(* Properties.                                                             *)

(* A step is initialized once, before its operation; only a step in        *)
(* progress waits for a transaction, and for one.                          *)
WorkflowTypeOK ==
  /\ pc \in [Node -> {"idle", "context", "building", "approve", "deposit", "check",
                      "read", "consume", "done", "failed"}]
  /\ status \in [Node -> {"PENDING", "PAID"}]
  /\ pending \in [Organization -> Seq([node : Node, step : {"approve", "deposit", "consume"}])]
  /\ faults \in 0..MaxFaults
  /\ ProverTypeOK
  /\ \A n \in Node :
       /\ pc[n] = "building" \/ init[n] \in {"idle", "over"}
       /\ \A org \in Organization : \A i, j \in DOMAIN pending[org] :
            pending[org][i].node = n /\ pending[org][j].node = n =>
              i = j /\ OrgOf(n) = org /\ (~Running(n) \/ pending[org][i].step = pc[n])

(* A step that answers with success has done what it says, whatever the    *)
(* organization's other steps send in between and whatever fails.          *)
SuccessIsTrue ==
  \A n \in Node :
    pc[n] = "done" =>
      /\ StepOf(n) \in {"pay-request", "escrow-fund"} => Deposited(n) \in list
      /\ StepOf(n) = "escrow-claim" => CreatorRequest(n) \in list /\ EscrowOf(n) \in consumed
      /\ status[n] = "PAID" => CreatorRequest(n) \in list

(* A claim that has paid gets its escrow, unless an await throws, or the   *)
(* escrow prover was loaded twice at a time.                               *)
PaidClaimsConsume ==
  [][ \A n \in Node :
        pc[n] \in {"read", "consume"} /\ pc'[n] = "failed" =>
          faults' > 0 \/ overlaps' # {} ]_workflowVars

(* Every step comes to an end, also those that load one prover at a time,  *)
(* or wait behind transactions of steps that have failed.                  *)
StepsEnd == <>[](\A n \in Node : ~Running(n))

(* A request that has been put out can be paid, unless it is paid.         *)
HandedOutIsPayable ==
  \A n \in Node :
    StepOf(n) = "request-payment" /\ pc[n] = "done" =>
      RequestOf(n) \in list \/ \A tx \in list : tx.secret # RequestOf(n).secret
=============================================================================
