--------------------------- MODULE WorkflowProofs ---------------------------
(***************************************************************************)
(* Proofs about Workflow, for any graphs of steps: that a step's success   *)
(* is true, and that a claim that has paid gets its escrow.  Before that,  *)
(* proofs about the prover that its steps load, for any calls of init.     *)
(***************************************************************************)
EXTENDS Workflow, SequenceTheorems, TLAPS

-----------------------------------------------------------------------------
(* The prover.                                                             *)

(* As long as no call begins to load while another sleeps: every call that *)
(* loads has the MIST prover's `prove` to put back, and the escrow         *)
(* prover's is only there while a call sleeps that will put it back.       *)
BackupsAreMist ==
  "booting" \notin overlaps =>
    /\ \A c \in Caller : init[c] \in {"loading", "booting"} => backup[c] = "mist"
    /\ prove = "escrow" => At("booting") # {}
    /\ cached => prove # "none"

PInv == ProverTypeOK /\ BackupsAreMist

LEMMA PInvInit == ProverInit => PInv
  BY DEF ProverInit, PInv, ProverTypeOK, BackupsAreMist, Prover, InitPhase, At

LEMMA PInvGetWasmInstance ==
  ASSUME PInv, NEW c \in Caller, GetWasmInstance(c) PROVE PInv'
<1>1. ProverTypeOK'
  BY DEF PInv, ProverTypeOK, Prover, InitPhase, GetWasmInstance, At
<1>2. ASSUME "booting" \notin overlaps'
      PROVE  /\ \A d \in Caller : init'[d] \in {"loading", "booting"} => backup'[d] = "mist"
             /\ prove' = "escrow" => At("booting")' # {}
             /\ cached' => prove' # "none"
  <2>1. /\ "booting" \notin overlaps
        /\ ~cached => At("booting") = {}
    BY <1>2 DEF GetWasmInstance, At
  <2>2. At("booting")' = At("booting")
    BY DEF PInv, ProverTypeOK, GetWasmInstance, At
  <2>3. PICK registered \in Prover :
          /\ InitWasm(registered)
          /\ prove' = registered
          /\ backup' = [backup EXCEPT ![c] = registered]
    BY DEF GetWasmInstance
  <2>4. ~cached => registered = "mist"
    BY <2>1, <2>3 DEF PInv, BackupsAreMist, Prover, InitWasm
  <2> QED BY <2>1, <2>2, <2>3, <2>4
        DEF PInv, ProverTypeOK, BackupsAreMist, Prover, InitWasm, GetWasmInstance
<1> QED BY <1>1, <1>2 DEF PInv, BackupsAreMist

LEMMA PInvInitProceeds ==
  ASSUME PInv, NEW c \in Caller, InitProceeds(c) PROVE PInv'
<1>1. CASE GetWasmInstance(c) BY <1>1, PInvGetWasmInstance
<1>2. CASE RunGo(c)
  BY <1>2 DEF PInv, ProverTypeOK, BackupsAreMist, Prover, InitPhase, RunGo, At
<1>3. CASE Loaded(c)
  BY <1>3 DEF PInv, ProverTypeOK, BackupsAreMist, Prover, InitPhase, Loaded, At
<1> QED BY <1>1, <1>2, <1>3 DEF InitProceeds

LEMMA PInvCallInit ==
  ASSUME PInv, NEW c \in Caller, CallInit(c) \/ InitThrows(c) PROVE PInv'
<1>1. ProverTypeOK'
  BY DEF PInv, ProverTypeOK, Prover, InitPhase, CallInit, InitThrows
<1>2. At("booting")' = At("booting")
  BY DEF PInv, ProverTypeOK, CallInit, InitThrows, At
<1> QED BY <1>1, <1>2 DEF PInv, ProverTypeOK, BackupsAreMist, CallInit, InitThrows

LEMMA PInvUnload == ASSUME PInv, Unload PROVE PInv'
  BY DEF PInv, ProverTypeOK, BackupsAreMist, Prover, InitPhase, Unload, At

LEMMA PInvUnchanged == ASSUME PInv, UNCHANGED proverVars PROVE PInv'
  BY DEF PInv, ProverTypeOK, BackupsAreMist, proverVars, At

LEMMA PInvImplies == PInv => ProverIsMist
  BY DEF PInv, ProverTypeOK, BackupsAreMist, ProverIsMist, Prover

LEMMA PInvStep == PInv /\ [ProverNext]_proverVars => PInv'
  BY PInvInitProceeds, PInvCallInit, PInvUnload, PInvUnchanged DEF ProverNext

(* The provers' registrations and every call of init keep their types.     *)
THEOREM ProverTypeCorrect == ProverSpec => []ProverTypeOK
<1>1. PInv => ProverTypeOK BY DEF PInv
<1> QED BY <1>1, PInvInit, PInvStep, PTL DEF ProverSpec

(* However many calls of init overlap, the MIST prover's `prove` is back   *)
(* when they are over - unless one began to load while another slept.      *)
THEOREM ProverCorrect == ProverSpec => []ProverIsMist
  BY PInvInit, PInvStep, PInvImplies, PTL DEF ProverSpec

-----------------------------------------------------------------------------
(* The invariant.                                                          *)

Phases == {"idle", "context", "building", "approve", "deposit", "check",
           "read", "consume", "done", "failed"}

Sendable == {"approve", "deposit", "consume"}

Sending == [node : Node, step : Sendable]

Typed ==
  /\ pc \in [Node -> Phases]
  /\ status \in [Node -> {"PENDING", "PAID"}]
  /\ pending \in [Organization -> Seq(Sending)]
  /\ faults \in 0..MaxFaults

(* Which steps are where, and whether their MISTActions is there.          *)
Placed(n, where, initialized) ==
  /\ where \in {"context", "building"} => StepOf(n) # "generate-blinding"
  /\ where = "check" =>
       StepOf(n) \in {"check-request-status", "show-balance", "escrow-claim"}
  /\ where \in {"approve", "deposit"} =>
       StepOf(n) \in {"pay-request", "escrow-fund", "escrow-claim"}
  /\ where \in {"read", "consume"} => StepOf(n) = "escrow-claim"
  /\ where = "building" \/ initialized \in {"idle", "over"}
  /\ where \in {"check", "approve", "deposit", "read", "consume"} => initialized = "over"

AllPlaced == \A n \in Node : Placed(n, pc[n], init[n])

(* A step has at most one transaction among its organization's, and if it  *)
(* is in progress it waits for that one.                                   *)
Queued ==
  \A org \in Organization : \A i \in DOMAIN pending[org] :
    LET n == pending[org][i].node IN
      /\ OrgOf(n) = org
      /\ pc[n] \in {pending[org][i].step, "done", "failed"}
      /\ \A j \in DOMAIN pending[org] : pending[org][j].node = n => i = j

(* What a step knows of Chamber's list.                                    *)
Known(n, where) ==
  /\ where = "done" /\ StepOf(n) \in {"pay-request", "escrow-fund"} => Deposited(n) \in list
  /\ StepOf(n) = "escrow-claim" =>
       /\ where \in {"approve", "deposit", "read", "consume"} => EscrowOf(n) \in list
       /\ where \in {"read", "consume", "done"} => CreatorRequest(n) \in list
       /\ where = "done" => EscrowOf(n) \in consumed

AllKnown ==
  \A n \in Node : Known(n, pc[n]) /\ (status[n] = "PAID" => CreatorRequest(n) \in list)

(* Two claims never pay one request: the second deposit reverts.           *)
Claiming(n) == StepOf(n) = "escrow-claim" /\ pc[n] \in {"read", "consume", "done"}

ClaimsDiffer ==
  \A m, n \in Node :
    Claiming(m) /\ Claiming(n) /\ CreatorRequest(m) = CreatorRequest(n) => m = n

(* Without faults: what is consumed is so by a claim that is over, what is *)
(* sent is waited for, and an initialized step has found the prover there. *)
Undisturbed ==
  faults = 0 =>
    /\ \A escrow \in consumed :
         \E n \in Node : Claiming(n) /\ pc[n] = "done" /\ EscrowOf(n) = escrow
    /\ \A org \in Organization : \A i \in DOMAIN pending[org] :
         Running(pending[org][i].node)
    /\ \A n \in Node : init[n] = "over" => cached
    /\ overlaps = {} =>
         \A m, n \in Node :
           init[m] \in {"loading", "booting"} =>
             ~cached /\ (init[n] \in {"loading", "booting"} => m = n)

WInv ==
  Typed /\ PInv /\ AllPlaced /\ Queued /\ AllKnown /\ ClaimsDiffer /\ Undisturbed

-----------------------------------------------------------------------------
(* What follows from it.                                                   *)

LEMMA ArgsType ==
  ASSUME NEW n \in Node
  PROVE  /\ StepOf(n) \in Step /\ OrgOf(n) \in Organization
         /\ Args[n].creator \in Node /\ Args[n].recipient \in Node
  BY WorkflowAssumption DEF StepOf, OrgOf

LEMMA TypeFollows == WInv => WorkflowTypeOK
<1> SUFFICES ASSUME WInv PROVE WorkflowTypeOK
  OBVIOUS
<1> USE DEF WInv
<1>1. ASSUME NEW n \in Node PROVE pc[n] = "building" \/ init[n] \in {"idle", "over"}
  BY DEF AllPlaced, Placed
<1>2. ASSUME NEW n \in Node, NEW org \in Organization,
             NEW i \in DOMAIN pending[org], NEW j \in DOMAIN pending[org],
             pending[org][i].node = n, pending[org][j].node = n
      PROVE  i = j /\ OrgOf(n) = org /\ (~Running(n) \/ pending[org][i].step = pc[n])
  BY <1>2 DEF Queued, Running
<1>3. /\ pc \in [Node -> Phases] /\ status \in [Node -> {"PENDING", "PAID"}]
      /\ pending \in [Organization -> Seq(Sending)] /\ faults \in 0..MaxFaults
      /\ ProverTypeOK
  BY DEF Typed, PInv
<1> HIDE DEF WInv
<1>4. \A n \in Node : \A org \in Organization : \A i, j \in DOMAIN pending[org] :
        pending[org][i].node = n /\ pending[org][j].node = n =>
          i = j /\ OrgOf(n) = org /\ (~Running(n) \/ pending[org][i].step = pc[n])
  BY <1>2
<1> QED
  BY <1>1, <1>3, <1>4, Zenon DEF WorkflowTypeOK, Phases, Sending, Sendable

LEMMA SuccessFollows == WInv => SuccessIsTrue
<1> SUFFICES ASSUME WInv, NEW n \in Node, pc[n] = "done"
             PROVE  /\ StepOf(n) \in {"pay-request", "escrow-fund"} => Deposited(n) \in list
                    /\ StepOf(n) = "escrow-claim" =>
                         CreatorRequest(n) \in list /\ EscrowOf(n) \in consumed
                    /\ status[n] = "PAID" => CreatorRequest(n) \in list
  BY DEF SuccessIsTrue
<1> QED
  BY DEF WInv, AllKnown, Known

LEMMA InitHolds == WorkflowInit => WInv
<1> SUFFICES ASSUME WorkflowInit PROVE WInv
  OBVIOUS
<1> USE DEF WorkflowInit
<1>1. Typed
  BY WorkflowAssumption DEF Typed, Phases
<1>2. PInv
  BY PInvInit
<1>3. AllPlaced /\ Queued /\ AllKnown /\ ClaimsDiffer
  BY DEF AllPlaced, Placed, Queued, AllKnown, Known, ClaimsDiffer, Claiming, ProverInit, Node
<1>4. Undisturbed
  BY DEF Undisturbed, ProverInit, Node
<1> QED
  BY <1>1, <1>2, <1>3, <1>4 DEF WInv

-----------------------------------------------------------------------------
(* Steps that send nothing.                                                *)

(* A step that is not waiting for a transaction has sent none.             *)
Quiet(n) ==
  \/ pc[n] \in {"idle", "context", "building", "check", "read"}
  \/ pc[n] \in Sendable /\ ~Awaiting(n)

LEMMA NothingSent ==
  ASSUME WInv, NEW n \in Node, Quiet(n),
         NEW org \in Organization, NEW i \in DOMAIN pending[org]
  PROVE  pending[org][i].node # n
<1> SUFFICES ASSUME pending[org][i].node = n
             PROVE  FALSE
  OBVIOUS
<1>1. pending[org] \in Seq(Sending) /\ pending[org][i] \in Sending
  BY DEF WInv, Typed
<1>2. OrgOf(n) = org /\ pending[org][i].step = pc[n]
  BY <1>1 DEF WInv, Queued, Quiet, Sending, Sendable
<1>3. pending[org][i] = Sent(n) /\ pc[n] \in Sendable
  BY <1>1, <1>2 DEF Sent, Sending
<1> QED
  BY <1>1, <1>2, <1>3 DEF Awaiting, Contains, Quiet, Sendable

(* A step moves; the chain is left alone.                                  *)
LEMMA MoveKeeps ==
  ASSUME WInv, NEW n \in Node, NEW where \in Phases,
         pc' = [pc EXCEPT ![n] = where],
         UNCHANGED chainVars, PInv',
         status' \in [Node -> {"PENDING", "PAID"}], faults' \in 0..MaxFaults,
         \A m \in Node : m # n => init'[m] = init[m],
         Placed(n, where, init'[n]), Known(n, where),
         \A m \in Node : status'[m] = "PAID" => CreatorRequest(m) \in list,
         where = "failed" \/ pc[n] \in {"idle", "context", "building", "check", "read"},
         Claiming(n)' => Claiming(n), Undisturbed'
  PROVE  WInv'
<1> USE DEF chainVars
<1>1. Typed'
  BY DEF WInv, Typed
<1>2. AllPlaced'
  BY DEF WInv, Typed, AllPlaced
<1>3. Queued'
  <2> SUFFICES ASSUME NEW org \in Organization, NEW i \in DOMAIN pending[org]
               PROVE  LET m == pending[org][i].node IN
                        /\ OrgOf(m) = org
                        /\ pc'[m] \in {pending[org][i].step, "done", "failed"}
                        /\ \A j \in DOMAIN pending[org] : pending[org][j].node = m => i = j
    BY DEF Queued
  <2>1. pending[org][i] \in Sending
    BY DEF WInv, Typed
  <2>2. pending[org][i].node = n => where = "failed"
    BY NothingSent DEF Quiet
  <2> QED
    BY <2>1, <2>2 DEF WInv, Typed, Queued, Sending
<1>4. AllKnown'
  <2> SUFFICES ASSUME NEW m \in Node PROVE Known(m, pc'[m])
    BY DEF AllKnown, Known, CreatorRequest, RequestOf, EscrowOf, RecipientRequest, Deposited
  <2> QED
    BY DEF WInv, Typed, AllKnown
<1>5. ClaimsDiffer'
  <2>1. \A m \in Node : Claiming(m)' => Claiming(m)
    BY DEF WInv, Typed, Claiming
  <2> QED
    BY <2>1 DEF WInv, ClaimsDiffer
<1> QED
  BY <1>1, <1>2, <1>3, <1>4, <1>5 DEF WInv

LEMMA MoveUndisturbed ==
  ASSUME WInv, NEW n \in Node, NEW where \in Phases,
         pc' = [pc EXCEPT ![n] = where],
         UNCHANGED <<chainVars, faults, cached, overlaps>>,
         Quiet(n),
         \/ UNCHANGED init
         \/ init[n] = "idle" /\ init' = [init EXCEPT ![n] = "mist"]
  PROVE  Undisturbed'
<1> SUFFICES ASSUME faults = 0
             PROVE  Undisturbed'
  BY DEF Undisturbed
<1> USE DEF chainVars
<1>1. \A escrow \in consumed :
         \E m \in Node : Claiming(m)' /\ pc'[m] = "done" /\ EscrowOf(m) = escrow
  BY DEF WInv, Undisturbed, Typed, Claiming, Quiet, Sendable
<1>2. ASSUME NEW org \in Organization, NEW i \in DOMAIN pending[org]
      PROVE  Running(pending[org][i].node)'
  <2>1. pending[org][i] \in Sending /\ pending[org][i].node # n
    BY NothingSent DEF WInv, Typed
  <2> QED
    BY <2>1 DEF WInv, Typed, Undisturbed, Running, Sending
<1>3. \A m \in Node : init'[m] = "over" => cached
  BY DEF WInv, PInv, ProverTypeOK, Undisturbed, Node
<1>4. overlaps = {} =>
         \A l, m \in Node :
           init'[l] \in {"loading", "booting"} =>
             ~cached /\ (init'[m] \in {"loading", "booting"} => l = m)
  BY DEF WInv, PInv, ProverTypeOK, Undisturbed, Node
<1> QED
  BY <1>1, <1>2, <1>3, <1>4 DEF Undisturbed, EscrowOf, CreatorRequest, RecipientRequest, RequestOf

LEMMA BeginKeeps == ASSUME WInv, NEW n \in Node, Begin(n) PROVE WInv'
<1> DEFINE where == IF StepOf(n) = "generate-blinding" THEN "done" ELSE "context"
<1>1. /\ pc[n] = "idle" /\ pc' = [pc EXCEPT ![n] = where] /\ where \in Phases
      /\ UNCHANGED <<status, chainVars, faults, proverVars>>
  BY DEF Begin, GoTo, Phases
<1>2. PInv' /\ Undisturbed'
  BY <1>1, PInvUnchanged, MoveUndisturbed DEF WInv, proverVars, Quiet
<1>3. Placed(n, where, init'[n]) /\ Known(n, where)
  BY <1>1 DEF WInv, AllPlaced, Placed, Known, proverVars
<1>4. Claiming(n)' => Claiming(n)
  BY <1>1 DEF WInv, Typed, Claiming
<1>5. \A m \in Node : status'[m] = "PAID" => CreatorRequest(m) \in list
  BY <1>1 DEF WInv, AllKnown
<1> HIDE DEF where
<1> QED
  BY <1>1, <1>2, <1>3, <1>4, <1>5, MoveKeeps DEF WInv, Typed, proverVars

LEMMA BuildKeeps == ASSUME WInv, NEW n \in Node, BuildMistActions(n) PROVE WInv'
<1>1. /\ pc[n] = "context" /\ pc' = [pc EXCEPT ![n] = "building"] /\ "building" \in Phases
      /\ CallInit(n)
      /\ UNCHANGED <<status, chainVars, faults>>
  BY DEF BuildMistActions, GoTo, Phases
<1>2. PInv'
  BY <1>1, PInvCallInit DEF WInv, Node
<1>3. Undisturbed'
  BY <1>1, MoveUndisturbed DEF CallInit, Quiet
<1>4. Placed(n, "building", init'[n]) /\ Known(n, "building")
  BY <1>1 DEF WInv, AllPlaced, Placed, Known
<1>5. Claiming(n)' => Claiming(n)
  BY <1>1 DEF WInv, Typed, Claiming
<1>6. \A m \in Node : m # n => init'[m] = init[m]
  BY <1>1 DEF WInv, PInv, ProverTypeOK, CallInit, Node
<1> QED
  BY <1>1, <1>2, <1>3, <1>4, <1>5, <1>6, MoveKeeps DEF WInv, Typed, AllKnown

LEMMA BuiltKeeps == ASSUME WInv, NEW n \in Node, Built(n) PROVE WInv'
<1> DEFINE where == FirstOf(n)
<1>1. /\ pc[n] = "building" /\ init[n] = "over" /\ pc' = [pc EXCEPT ![n] = where]
      /\ UNCHANGED <<status, chainVars, faults, proverVars>>
  BY DEF Built, GoTo
<1>2. StepOf(n) # "generate-blinding"
  BY <1>1 DEF WInv, AllPlaced, Placed
<1>3. /\ where \in {"done", "approve", "check"}
      /\ where = "done" => StepOf(n) = "request-payment"
      /\ where = "approve" => StepOf(n) \in {"pay-request", "escrow-fund"}
      /\ where = "check" =>
           StepOf(n) \in {"check-request-status", "show-balance", "escrow-claim"}
  BY <1>2, ArgsType DEF FirstOf, Step, Makes, TakesRequest, TakesEscrow, Shows
<1> HIDE DEF where
<1>4. PInv' /\ Undisturbed'
  BY <1>1, <1>3, PInvUnchanged, MoveUndisturbed DEF WInv, proverVars, Quiet, Phases
<1>5. Placed(n, where, init'[n]) /\ Known(n, where)
  BY <1>1, <1>3 DEF WInv, AllPlaced, Placed, Known, proverVars
<1>6. Claiming(n)' => Claiming(n)
  BY <1>1, <1>3 DEF WInv, Typed, Claiming
<1>7. \A m \in Node : status'[m] = "PAID" => CreatorRequest(m) \in list
  BY <1>1 DEF WInv, AllKnown
<1> QED
  BY <1>1, <1>3, <1>4, <1>5, <1>6, <1>7, MoveKeeps DEF WInv, Typed, proverVars, Phases

(* What is over after one look at the chain.                               *)
LEMMA LookKeeps ==
  ASSUME WInv, NEW n \in Node,
         CheckRequestStatus(n) \/ ShowBalance(n) \/ CheckEscrow(n) \/ ProveClaim(n)
  PROVE  WInv'
<1>1. PICK where \in Phases :
        /\ pc' = [pc EXCEPT ![n] = where]
        /\ where \in {"done", "approve", "consume", "failed"}
        /\ where = "done" => StepOf(n) \in {"check-request-status", "show-balance"}
        /\ where = "approve" => StepOf(n) = "escrow-claim" /\ EscrowOf(n) \in list
        /\ where = "consume" => pc[n] = "read" /\ {EscrowOf(n), CreatorRequest(n)} \subseteq list
  <2>1. CASE CheckRequestStatus(n) \/ ShowBalance(n)
    BY <2>1 DEF CheckRequestStatus, ShowBalance, GoTo, Phases
  <2>2. CASE CheckEscrow(n)
    BY <2>2 DEF CheckEscrow, Seen, GoTo, Phases
  <2>3. CASE ProveClaim(n)
    BY <2>3 DEF ProveClaim, Seen, GoTo, Phases
  <2> QED
    BY <2>1, <2>2, <2>3
<1>2. pc[n] \in {"check", "read"} /\ UNCHANGED <<chainVars, proverVars>>
  BY DEF CheckRequestStatus, ShowBalance, CheckEscrow, ProveClaim
<1>3. /\ status' \in [Node -> {"PENDING", "PAID"}]
      /\ \A m \in Node : status'[m] = "PAID" => CreatorRequest(m) \in list
  BY DEF WInv, Typed, AllKnown, CheckRequestStatus, ShowBalance, CheckEscrow, ProveClaim, Seen
<1>4. UNCHANGED faults \/ (faults < MaxFaults /\ faults' = faults + 1)
  BY DEF CheckRequestStatus, ShowBalance, CheckEscrow, ProveClaim, Fault
<1>5. faults' \in 0..MaxFaults
  BY <1>4, WorkflowAssumption DEF WInv, Typed
<1>6. PInv'
  BY <1>2, PInvUnchanged DEF WInv
<1>7. Undisturbed'
  <2>1. CASE UNCHANGED faults
    BY <1>1, <1>2, <2>1, MoveUndisturbed DEF proverVars, Quiet
  <2>2. CASE faults' = faults + 1
    BY <2>2 DEF WInv, Typed, Undisturbed
  <2> QED
    BY <1>4, <2>1, <2>2
<1>8. Placed(n, where, init'[n]) /\ Known(n, where)
  BY <1>1, <1>2 DEF WInv, AllPlaced, Placed, Known, proverVars
<1>9. Claiming(n)' => Claiming(n)
  BY <1>1, <1>2 DEF WInv, Typed, Claiming
<1> QED
  BY <1>1, <1>2, <1>3, <1>5, <1>6, <1>7, <1>8, <1>9, MoveKeeps DEF proverVars

LEMMA InInitKeeps == ASSUME WInv, NEW n \in Node, InInit(n) PROVE WInv'
<1>1. pc[n] = "building" /\ InitProceeds(n) /\ UNCHANGED <<pc, status, chainVars, faults>>
  BY DEF InInit
<1>2. PInv'
  BY <1>1, PInvInitProceeds DEF WInv, Node
<1>3. \A m \in Node : m # n => init'[m] = init[m]
  BY <1>1 DEF WInv, PInv, ProverTypeOK, InitProceeds, GetWasmInstance, RunGo, Loaded, Node
<1>4. AllPlaced'
  BY <1>1, <1>3 DEF WInv, AllPlaced, Placed
<1>5. Typed' /\ Queued' /\ AllKnown' /\ ClaimsDiffer'
  BY <1>1 DEF WInv, chainVars, Typed, Queued, AllKnown, Known, ClaimsDiffer, Claiming,
       EscrowOf, CreatorRequest, RecipientRequest, RequestOf, Deposited
<1>6. Undisturbed'
  <2> SUFFICES ASSUME faults = 0 PROVE Undisturbed'
    BY <1>1 DEF Undisturbed
  <2>1. /\ \A m \in Node : init'[m] = "over" => cached'
        /\ overlaps' = {} =>
             \A l, m \in Node :
               init'[l] \in {"loading", "booting"} =>
                 ~cached' /\ (init'[m] \in {"loading", "booting"} => l = m)
    <3>1. CASE GetWasmInstance(n)
      BY <3>1 DEF WInv, PInv, ProverTypeOK, Undisturbed, GetWasmInstance, At, Node
    <3>2. CASE RunGo(n)
      BY <3>2 DEF WInv, PInv, ProverTypeOK, Undisturbed, RunGo, Node
    <3>3. CASE Loaded(n)
      BY <3>3 DEF WInv, PInv, ProverTypeOK, Undisturbed, Loaded, Node
    <3> QED
      BY <1>1, <3>1, <3>2, <3>3 DEF InitProceeds
  <2> QED
    BY <1>1, <2>1 DEF WInv, Undisturbed, chainVars, Claiming, Running,
         EscrowOf, CreatorRequest, RecipientRequest, RequestOf
<1> QED
  BY <1>2, <1>4, <1>5, <1>6 DEF WInv

-----------------------------------------------------------------------------
(* Faults.                                                                 *)

LEMMA ThrowsKeeps == ASSUME WInv, NEW n \in Node, Throws(n) PROVE WInv'
<1>1. /\ Running(n) /\ pc' = [pc EXCEPT ![n] = "failed"] /\ "failed" \in Phases
      /\ UNCHANGED <<status, chainVars>>
      /\ faults < MaxFaults /\ faults' = faults + 1
  BY DEF Throws, GoTo, Fault, Phases
<1>2. PInv' /\ \A m \in Node : m # n => init'[m] = init[m]
  BY PInvCallInit, PInvUnchanged
     DEF Throws, WInv, PInv, ProverTypeOK, InitThrows, proverVars, Node
<1>3. init'[n] \in {"idle", "over"}
  BY DEF Throws, WInv, PInv, ProverTypeOK, AllPlaced, Placed, InitThrows, proverVars, Node
<1>4. faults' \in 0..MaxFaults /\ Undisturbed'
  BY <1>1, WorkflowAssumption DEF WInv, Typed, Undisturbed
<1>5. Placed(n, "failed", init'[n]) /\ Known(n, "failed") /\ (Claiming(n)' => Claiming(n))
  BY <1>1, <1>3 DEF WInv, Typed, Placed, Known, Claiming
<1> QED
  BY <1>1, <1>2, <1>4, <1>5, MoveKeeps DEF WInv, Typed, AllKnown

LEMMA RestartKeeps == ASSUME WInv, Restart PROVE WInv'
<1>1. /\ pc' = [n \in Node |-> IF Running(n) THEN "failed" ELSE pc[n]]
      /\ init' = [n \in Node |-> IF init[n] = "idle" THEN "idle" ELSE "over"]
      /\ Unload /\ UNCHANGED <<status, chainVars>>
      /\ faults < MaxFaults /\ faults' = faults + 1
  BY DEF Restart, Unload, Fault, Node
<1>2. PInv'
  BY <1>1, PInvUnload DEF WInv
<1>3. Typed' /\ Undisturbed'
  BY <1>1, WorkflowAssumption DEF WInv, Typed, Undisturbed, chainVars, Phases
<1>4. ASSUME NEW n \in Node
      PROVE  pc'[n] = "failed" \/ (pc'[n] = pc[n] /\ pc[n] \in {"idle", "done", "failed"})
  BY <1>1 DEF Running
<1>5. AllPlaced'
  BY <1>1, <1>4 DEF AllPlaced, Placed
<1>6. Queued'
  <2> SUFFICES ASSUME NEW org \in Organization, NEW i \in DOMAIN pending[org]
               PROVE  LET m == pending[org][i].node IN
                        /\ OrgOf(m) = org
                        /\ pc'[m] \in {pending[org][i].step, "done", "failed"}
                        /\ \A j \in DOMAIN pending[org] : pending[org][j].node = m => i = j
    BY <1>1 DEF Queued, chainVars
  <2>1. pending[org][i] \in Sending
    BY DEF WInv, Typed
  <2> QED
    BY <1>4, <2>1 DEF WInv, Queued, Sending
<1>7. AllKnown'
  <2>1. \A n \in Node : Known(n, pc'[n]) /\ (status[n] = "PAID" => CreatorRequest(n) \in list)
    BY <1>4 DEF WInv, AllKnown, Known
  <2> QED
    BY <1>1, <2>1 DEF AllKnown, Known, chainVars,
         EscrowOf, CreatorRequest, RecipientRequest, RequestOf, Deposited
<1>8. ClaimsDiffer'
  BY <1>4 DEF WInv, ClaimsDiffer, Claiming
<1> QED
  BY <1>2, <1>3, <1>5, <1>6, <1>7, <1>8 DEF WInv

-----------------------------------------------------------------------------
(* Transactions.                                                           *)

LEMMA SendKeeps == ASSUME WInv, NEW n \in Node, SendTransaction(n) PROVE WInv'
<1>1. /\ pc[n] \in Sendable /\ ~Awaiting(n) /\ OrgOf(n) \in Organization
      /\ UNCHANGED <<status, list, allowance, consumed, faults, proverVars>>
      /\ Sent(n) \in Sending
  BY ArgsType DEF SendTransaction, Sendable, Sending, Sent
<1>2. PInv'
  BY <1>1, PInvUnchanged DEF WInv
<1>3. CASE CanExecute(n, pc[n])
  <2> DEFINE org == OrgOf(n)
  <2>1. pending' = [pending EXCEPT ![org] = Append(@, Sent(n))] /\ UNCHANGED pc
    BY <1>3 DEF SendTransaction
  <2>2. /\ pending[org] \in Seq(Sending)
        /\ Append(pending[org], Sent(n)) \in Seq(Sending)
    BY <1>1 DEF WInv, Typed
  <2>3. Typed'
    BY <1>1, <2>1, <2>2 DEF WInv, Typed
  <2>4. ASSUME NEW o \in Organization, NEW i \in DOMAIN pending'[o]
        PROVE  \/ i \in DOMAIN pending[o] /\ pending'[o][i] = pending[o][i]
               \/ o = org /\ i = Len(pending[o]) + 1 /\ pending'[o][i] = Sent(n)
    BY <1>1, <2>1, <2>2 DEF WInv, Typed
  <2>5. ASSUME NEW o \in Organization, NEW i \in DOMAIN pending[o]
        PROVE  pending[o][i].node # n
    BY <1>1, NothingSent DEF Quiet
  <2> HIDE DEF org
  <2>6. Queued'
    <3> SUFFICES ASSUME NEW o \in Organization, NEW i \in DOMAIN pending'[o]
                 PROVE  LET m == pending'[o][i].node IN
                          /\ OrgOf(m) = o
                          /\ pc[m] \in {pending'[o][i].step, "done", "failed"}
                          /\ \A j \in DOMAIN pending'[o] : pending'[o][j].node = m => i = j
      BY <2>1 DEF Queued
    <3>1. CASE i \in DOMAIN pending[o] /\ pending'[o][i] = pending[o][i]
      BY <3>1, <2>4, <2>5 DEF WInv, Queued, Sent
    <3>2. CASE o = org /\ i = Len(pending[o]) + 1 /\ pending'[o][i] = Sent(n)
      BY <3>2, <2>4, <2>5 DEF Sent, org
    <3> QED
      BY <2>4, <3>1, <3>2
  <2>7. AllPlaced' /\ AllKnown' /\ ClaimsDiffer'
    BY <1>1, <2>1 DEF WInv, proverVars, AllPlaced, Placed, AllKnown, Known, ClaimsDiffer,
         Claiming, EscrowOf, CreatorRequest, RecipientRequest, RequestOf, Deposited
  <2>8. Undisturbed'
    <3> SUFFICES ASSUME faults = 0 PROVE Undisturbed'
      BY <1>1 DEF Undisturbed
    <3>1. ASSUME NEW o \in Organization, NEW i \in DOMAIN pending'[o]
          PROVE  Running(pending'[o][i].node)
      BY <1>1, <2>1, <2>4 DEF WInv, Undisturbed, Running, Sent, Sendable
    <3> QED
      BY <1>1, <2>1, <3>1 DEF WInv, Undisturbed, proverVars, Claiming, Running,
           EscrowOf, CreatorRequest, RecipientRequest, RequestOf
  <2> QED
    BY <1>2, <2>3, <2>6, <2>7, <2>8 DEF WInv
<1>4. CASE ~CanExecute(n, pc[n])
  <2>1. pc' = [pc EXCEPT ![n] = "failed"] /\ UNCHANGED chainVars /\ "failed" \in Phases
    BY <1>1, <1>4 DEF SendTransaction, GoTo, chainVars, Phases
  <2>2. Undisturbed'
    BY <1>1, <2>1, MoveUndisturbed DEF proverVars, Quiet
  <2>3. Placed(n, "failed", init'[n]) /\ Known(n, "failed") /\ (Claiming(n)' => Claiming(n))
    BY <1>1, <2>1 DEF WInv, Typed, AllPlaced, Placed, Known, Claiming, proverVars, Sendable
  <2> QED
    BY <1>1, <1>2, <2>1, <2>2, <2>3, MoveKeeps DEF WInv, Typed, AllKnown, proverVars
<1> QED
  BY <1>3, <1>4

LEMMA MineKeeps == ASSUME WInv, NEW org \in Organization, Mine(org) PROVE WInv'
<1>1. /\ pending[org] \in Seq(Sending) /\ pending[org] # <<>>
      /\ pending' = [pending EXCEPT ![org] = Tail(@)]
      /\ UNCHANGED <<status, faults, proverVars>>
  BY DEF Mine, Mined, WInv, Typed
<1>2. PICK n \in Node, step \in Sendable :
        /\ 1 \in DOMAIN pending[org]
        /\ Head(pending[org]) = pending[org][1]
        /\ pending[org][1].node = n /\ pending[org][1].step = step
  <2>1. 1 \in DOMAIN pending[org] /\ Head(pending[org]) = pending[org][1]
    BY <1>1
  <2>2. pending[org][1] \in Sending
    BY <1>1, <2>1
  <2> QED
    BY <2>1, <2>2 DEF Sending
<1>3. pending'[org] \in Seq(Sending)
  BY <1>1 DEF WInv, Typed
<1>4. ASSUME NEW o \in Organization, NEW i \in DOMAIN pending'[o]
      PROVE  \E j \in DOMAIN pending[o] :
               /\ pending'[o][i] = pending[o][j] /\ pending[o][j].node # n
               /\ \A k \in DOMAIN pending'[o] :
                    k # i => \E l \in DOMAIN pending[o] :
                               l # j /\ pending'[o][k] = pending[o][l]
  <2>1. CASE o = org
    <3>1. i + 1 \in DOMAIN pending[org] /\ pending'[org][i] = pending[org][i + 1] /\ i + 1 # 1
      BY <1>1, <2>1 DEF WInv, Typed
    <3>2. \A k \in DOMAIN pending'[org] :
             k + 1 \in DOMAIN pending[org] /\ pending'[org][k] = pending[org][k + 1]
             /\ (k # i => k + 1 # i + 1)
      BY <1>1, <2>1 DEF WInv, Typed
    <3>3. pending[org][i + 1].node # n
      BY <1>2, <3>1 DEF WInv, Queued
    <3> QED
      BY <2>1, <3>1, <3>2, <3>3
  <2>2. CASE o # org
    <3>1. pending'[o] = pending[o]
      BY <1>1, <2>2 DEF WInv, Typed
    <3>2. OrgOf(n) = org /\ (pending[o][i].node = n => OrgOf(n) = o)
      BY <1>2, <3>1 DEF WInv, Queued
    <3> QED
      BY <2>2, <3>1, <3>2
  <2> QED
    BY <2>1, <2>2
<1>5. OrgOf(n) = org /\ pc[n] \in {step, "done", "failed"}
  BY <1>2 DEF WInv, Queued
<1>6. PICK where \in Phases :
        /\ Running(n) => pc' = [pc EXCEPT ![n] = where]
        /\ ~Running(n) => pc' = pc
        /\ \/ where = "failed" /\ UNCHANGED <<list, allowance, consumed>>
           \/ where = After(n, step) /\ CanExecute(n, step) /\ Execute(n, step)
  <2>1. After(n, step) \in Phases /\ "failed" \in Phases
    BY <1>2 DEF After, Sendable, Phases
  <2> QED
    BY <1>2, <2>1 DEF Mine, Receipt, Revert, GoTo
<1>7. \A m \in Node : m # n => pc'[m] = pc[m]
  BY <1>6 DEF WInv, Typed
<1>8. /\ pc'[n] = IF Running(n) THEN where ELSE pc[n]
      /\ Running(n) => pc[n] = step
  BY <1>2, <1>5, <1>6 DEF WInv, Typed, Running
<1>9. /\ where = "failed" => UNCHANGED <<list, consumed>>
      /\ where = "deposit" => step = "approve" /\ UNCHANGED <<list, consumed>>
      /\ where = "read" => /\ step = "deposit" /\ StepOf(n) = "escrow-claim"
                           /\ list' = list \cup {Deposited(n)} /\ UNCHANGED consumed
                           /\ \A tx \in list : tx.secret # Deposited(n).secret
      /\ where = "done" =>
           \/ /\ step = "deposit" /\ StepOf(n) # "escrow-claim"
              /\ list' = list \cup {Deposited(n)} /\ UNCHANGED consumed
           \/ /\ step = "consume"
              /\ UNCHANGED list /\ consumed' = consumed \cup {EscrowOf(n)}
      /\ where \in {"failed", "deposit", "read", "done"}
  BY <1>2, <1>6 DEF After, Execute, CanExecute, Sendable
<1>10. list \subseteq list' /\ consumed \subseteq consumed'
  BY <1>9
<1>11. Typed'
  BY <1>1, <1>3, <1>6 DEF WInv, Typed
<1>12. AllPlaced'
  <2>1. ASSUME NEW m \in Node, m # n PROVE Placed(m, pc[m], init[m])'
    BY <2>1, <1>1, <1>7 DEF WInv, AllPlaced, Placed, proverVars
  <2>2. Placed(n, pc[n], init[n])'
    <3>1. Placed(n, pc[n], init[n]) /\ (Running(n) => Placed(n, step, init[n]))
      BY <1>2, <1>8 DEF WInv, AllPlaced
    <3>2. init'[n] = init[n] /\ pc'[n] \in {pc[n], where}
      BY <1>1, <1>8 DEF proverVars
    <3>3. CASE Running(n)
      BY <1>2, <1>8, <1>9, <3>1, <3>2, <3>3 DEF Placed, Sendable
    <3>4. CASE ~Running(n)
      BY <1>8, <3>1, <3>2, <3>4 DEF Placed
    <3> QED
      BY <3>3, <3>4
  <2> QED
    BY <2>1, <2>2 DEF AllPlaced
<1>13. Queued'
  <2> SUFFICES ASSUME NEW o \in Organization, NEW i \in DOMAIN pending'[o]
               PROVE  LET m == pending'[o][i].node IN
                        /\ OrgOf(m) = o
                        /\ pc'[m] \in {pending'[o][i].step, "done", "failed"}
                        /\ \A k \in DOMAIN pending'[o] : pending'[o][k].node = m => i = k
    BY DEF Queued
  <2>1. PICK j \in DOMAIN pending[o] :
               /\ pending'[o][i] = pending[o][j] /\ pending[o][j].node # n
               /\ \A k \in DOMAIN pending'[o] :
                    k # i => \E l \in DOMAIN pending[o] :
                               l # j /\ pending'[o][k] = pending[o][l]
    BY <1>4
  <2>2. pending[o][j] \in Sending
    BY DEF WInv, Typed
  <2> QED
    BY <2>1, <2>2, <1>7 DEF WInv, Queued, Sending
<1>14. AllKnown'
  <2>1. ASSUME NEW m \in Node, m # n PROVE Known(m, pc[m])'
    BY <2>1, <1>7, <1>10 DEF WInv, AllKnown, Known,
       EscrowOf, CreatorRequest, RecipientRequest, RequestOf, Deposited
  <2>2. Known(n, pc[n])'
    <3>1. Known(n, pc[n]) /\ Placed(n, pc[n], init[n])
      BY <1>2 DEF WInv, AllKnown, AllPlaced
    <3>2. Known(n, pc'[n])
          \/ (where \in {"read", "done"} /\ pc'[n] = where /\ pc[n] = step)
      BY <1>8, <1>9, <3>1 DEF Known
    <3>3. CASE Known(n, pc'[n])
      BY <1>10, <3>3 DEF Known,
         EscrowOf, CreatorRequest, RecipientRequest, RequestOf, Deposited
    <3>4. CASE where \in {"read", "done"} /\ pc'[n] = where /\ pc[n] = step
      BY <1>2, <1>9, <1>10, <3>1, <3>4 DEF Known, Placed, Deposited,
         EscrowOf, CreatorRequest, RecipientRequest, RequestOf
    <3> QED
      BY <3>2, <3>3, <3>4
  <2>3. ASSUME NEW m \in Node PROVE status'[m] = "PAID" => CreatorRequest(m) \in list'
    BY <1>1, <1>10 DEF WInv, AllKnown
  <2> QED
    BY <2>1, <2>2, <2>3 DEF AllKnown, CreatorRequest, RequestOf
<1>15. \A m \in Node : Claiming(m)' =>
          \/ Claiming(m)
          \/ m = n /\ \A l \in Node : Claiming(l) => CreatorRequest(l) # CreatorRequest(n)
  <2>1. ASSUME NEW m \in Node, m # n, Claiming(m)' PROVE Claiming(m)
    BY <2>1, <1>7 DEF Claiming
  <2>2. ASSUME Claiming(n)', ~Claiming(n) PROVE where = "read" /\ step = "deposit"
    BY <2>2, <1>8, <1>9 DEF Claiming
  <2>3. ASSUME where = "read", NEW l \in Node, Claiming(l)
        PROVE  CreatorRequest(l) # CreatorRequest(n)
    BY <2>3, <1>9 DEF WInv, AllKnown, Known, Claiming, Deposited
  <2> QED
    BY <2>1, <2>2, <2>3
<1>16. ClaimsDiffer'
  BY <1>15 DEF WInv, ClaimsDiffer, CreatorRequest, RequestOf
<1>17. Undisturbed'
  <2> SUFFICES ASSUME faults = 0 PROVE Undisturbed'
    BY <1>1 DEF Undisturbed
  <2>1. Running(n) /\ pc[n] = step /\ pc'[n] = where
    BY <1>2, <1>8 DEF WInv, Undisturbed
  <2>2. ASSUME NEW escrow \in consumed'
        PROVE  \E m \in Node : Claiming(m)' /\ pc'[m] = "done" /\ EscrowOf(m) = escrow
    <3>1. CASE escrow \in consumed
      BY <1>2, <1>7, <2>1, <3>1 DEF WInv, Undisturbed, Claiming, Sendable
    <3>2. CASE escrow \notin consumed
      BY <1>2, <1>9, <2>1, <3>2 DEF WInv, AllPlaced, Placed, Claiming
    <3> QED
      BY <3>1, <3>2
  <2>3. ASSUME NEW o \in Organization, NEW i \in DOMAIN pending'[o]
        PROVE  pc'[pending'[o][i].node] \notin {"idle", "done", "failed"}
    <3>1. PICK j \in DOMAIN pending[o] :
            pending'[o][i] = pending[o][j] /\ pending[o][j].node # n
      BY <1>4
    <3>2. pending[o][j] \in Sending
      BY DEF WInv, Typed
    <3> QED
      BY <1>7, <3>1, <3>2 DEF WInv, Undisturbed, Running, Sending
  <2> QED
    BY <1>1, <2>2, <2>3 DEF WInv, Undisturbed, Running, proverVars,
       EscrowOf, CreatorRequest, RecipientRequest, RequestOf
<1>18. PInv'
  BY <1>1, PInvUnchanged DEF WInv
<1> QED
  BY <1>11, <1>12, <1>13, <1>14, <1>16, <1>17, <1>18 DEF WInv

LEMMA WInvStep == WInv /\ [WorkflowNext]_workflowVars => WInv'
<1> SUFFICES ASSUME WInv, [WorkflowNext]_workflowVars PROVE WInv'
  OBVIOUS
<1>1. ASSUME NEW n \in Node, Begin(n) \/ Proceed(n) \/ Throws(n) PROVE WInv'
  BY <1>1, BeginKeeps, BuildKeeps, InInitKeeps, BuiltKeeps, SendKeeps, LookKeeps, ThrowsKeeps
     DEF Proceed
<1>2. CASE UNCHANGED workflowVars
  <2>1. PInv' /\ Typed' /\ AllPlaced' /\ Queued'
    BY <1>2, PInvUnchanged
       DEF workflowVars, chainVars, proverVars, WInv, Typed, AllPlaced, Placed, Queued
  <2>2. AllKnown' /\ ClaimsDiffer' /\ Undisturbed'
    BY <1>2 DEF workflowVars, chainVars, proverVars, WInv, AllKnown, Known, ClaimsDiffer,
       Claiming, Undisturbed, Running,
       EscrowOf, CreatorRequest, RecipientRequest, RequestOf, Deposited
  <2> QED
    BY <2>1, <2>2 DEF WInv
<1> QED
  BY <1>1, <1>2, MineKeeps, RestartKeeps DEF WorkflowNext

LEMMA WInvHolds == WorkflowSpec => []WInv
  BY InitHolds, WInvStep, PTL DEF WorkflowSpec

(* Workflow's variables keep their types, a MISTActions is initialized     *)
(* before it is used, and a step waits for at most one transaction.        *)
THEOREM WorkflowTypeCorrect == WorkflowSpec => []WorkflowTypeOK
  BY WInvHolds, TypeFollows, PTL

(* A step that answers with success has done what it says.                 *)
THEOREM SuccessCorrect == WorkflowSpec => []SuccessIsTrue
  BY WInvHolds, SuccessFollows, PTL

-----------------------------------------------------------------------------
(* Claims that have paid.                                                  *)

LEMMA PaidClaimStep ==
  ASSUME WInv, [WorkflowNext]_workflowVars, NEW n \in Node,
         pc[n] \in {"read", "consume"}, pc'[n] = "failed"
  PROVE  faults' > 0 \/ overlaps' # {}
<1> SUFFICES ASSUME faults' = 0, overlaps' = {} PROVE FALSE
  <2>1. faults' \in Nat
    BY WInvStep, WorkflowAssumption DEF WInv, Typed
  <2> QED
    BY <2>1
<1>1. faults \in Nat
  BY WorkflowAssumption DEF WInv, Typed
<1>2. ~Restart /\ \A m \in Node : ~Throws(m)
  BY <1>1 DEF Restart, Throws, Fault
<1>3. /\ StepOf(n) = "escrow-claim" /\ init[n] = "over"
      /\ {EscrowOf(n), CreatorRequest(n)} \subseteq list
  BY DEF WInv, AllPlaced, Placed, AllKnown, Known
<1>4. ASSUME faults = 0 PROVE EscrowOf(n) \notin consumed
  <2> SUFFICES ASSUME EscrowOf(n) \in consumed PROVE FALSE
    OBVIOUS
  <2>1. PICK m \in Node : Claiming(m) /\ pc[m] = "done" /\ EscrowOf(m) = EscrowOf(n)
    BY <1>4 DEF WInv, Undisturbed
  <2>2. EscrowOf(m).secret[3] = EscrowOf(n).secret[3]
    BY <2>1
  <2>3. CreatorRequest(m) = CreatorRequest(n)
    BY <2>2 DEF EscrowOf
  <2> QED
    BY <1>3, <2>1, <2>3 DEF WInv, ClaimsDiffer, Claiming
<1>5. ASSUME faults = 0, pc[n] = "consume" PROVE CanExecute(n, "consume")
  BY <1>3, <1>4, <1>5 DEF CanExecute
<1>6. ASSUME faults = 0, overlaps = {} PROVE prove = "mist"
  BY <1>3, <1>6, PInvImplies DEF WInv, Undisturbed, ProverIsMist, At, Node
<1>7. ASSUME NEW m \in Node, Begin(m) \/ Proceed(m)
      PROVE  FALSE
  <2>1. m = n /\ (ProveClaim(n) \/ SendTransaction(n))
    BY <1>7 DEF WInv, Typed, Begin, Proceed, BuildMistActions, Built, InInit, SendTransaction,
       CheckRequestStatus, ShowBalance, CheckEscrow, ProveClaim, GoTo
  <2>2. faults = 0 /\ overlaps = {}
    BY <2>1 DEF ProveClaim, SendTransaction, proverVars
  <2>3. CASE ProveClaim(n)
    BY <1>3, <1>6, <2>2, <2>3 DEF WInv, Typed, ProveClaim, Seen, GoTo
  <2>4. CASE SendTransaction(n)
    BY <1>5, <2>2, <2>4 DEF SendTransaction
  <2> QED
    BY <2>1, <2>3, <2>4
<1>8. ASSUME NEW org \in Organization, Mine(org)
      PROVE  FALSE
  <2>1. faults = 0 /\ pending[org] \in Seq(Sending) /\ pending[org] # <<>>
    BY <1>8 DEF Mine, Mined, WInv, Typed
  <2>2. 1 \in DOMAIN pending[org] /\ Head(pending[org]) = pending[org][1]
    BY <2>1
  <2>3. Head(pending[org]).node = n
    BY <1>8 DEF WInv, Typed, Mine, Receipt, Revert, GoTo
  <2>4. Head(pending[org]).step = pc[n] /\ pc[n] = "consume"
    <3>1. pending[org][1] \in Sending
      BY <2>1, <2>2
    <3> QED
      BY <2>2, <2>3, <3>1 DEF WInv, Queued, Sending, Sendable
  <2>5. pc' = [pc EXCEPT ![n] = "done"]
    BY <1>5, <1>8, <2>1, <2>3, <2>4 DEF Mine, Receipt, GoTo, Running, After
  <2> QED
    BY <2>5 DEF WInv, Typed
<1> QED
  BY <1>2, <1>7, <1>8 DEF WorkflowNext, workflowVars

(* Without faults, and unless two nodes loaded the escrow prover at a time, *)
(* a claim that has paid the creator's request is never lost.              *)
THEOREM PaidClaimsCorrect == WorkflowSpec => PaidClaimsConsume
<1>1. WInv /\ [WorkflowNext]_workflowVars =>
        [ \A n \in Node : pc[n] \in {"read", "consume"} /\ pc'[n] = "failed" =>
            faults' > 0 \/ overlaps' # {} ]_workflowVars
  BY PaidClaimStep
<1> QED
  BY <1>1, WInvHolds, PTL DEF WorkflowSpec, PaidClaimsConsume
=============================================================================
