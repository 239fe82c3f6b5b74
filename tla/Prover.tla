------------------------------- MODULE Prover -------------------------------
(***************************************************************************)
(* The two WASM provers of one process.  Both register functions on        *)
(* globalThis: the MIST prover `prove`, the escrow prover `proveEscrow`    *)
(* and a `prove` of its own.  init loads both and puts the MIST prover's   *)
(* `prove` back; it runs whenever a MISTActions is built.                  *)
(*                                                                         *)
(* An action is what init does between two awaits.                         *)
(***************************************************************************)
CONSTANT Caller     \* the calls of init

VARIABLES
  prove,       \* whose function globalThis.prove is
  cached,      \* whether wasmInstance is set
  init,        \* where each call is
  backup,      \* each call's proveBkp
  overlaps     \* a history variable: where other calls were that were loading
               \* the escrow prover when one more began to

proverVars == <<prove, cached, init, backup, overlaps>>

Prover == {"none", "mist", "escrow"}

(* mist: in initWasm; loading: the escrow prover is compiled; booting: it  *)
(* has been started, and init sleeps for 200 milliseconds.                 *)
InitPhase == {"idle", "mist", "loading", "booting", "over"}

At(phase) == { c \in Caller : init[c] = phase }

ProverInit ==
  /\ prove = "none" /\ cached = FALSE
  /\ init = [c \in Caller |-> "idle"]
  /\ backup = [c \in Caller |-> "none"]
  /\ overlaps = {}

CallInit(c) ==
  /\ init[c] = "idle"
  /\ init' = [init EXCEPT ![c] = "mist"]
  /\ UNCHANGED <<prove, cached, backup, overlaps>>

(* initWasm registers the MIST prover the first time.  Calls that began    *)
(* before it was there may register it again.                              *)
InitWasm(registered) ==
  \/ registered = "mist"
  \/ registered = prove /\ prove # "none"

(* initWasm is over: init remembers `prove` and asks for the escrow        *)
(* prover, which an earlier call may have loaded.                          *)
GetWasmInstance(c) ==
  /\ init[c] = "mist"
  /\ \E registered \in Prover :
       /\ InitWasm(registered)
       /\ prove' = registered
       /\ backup' = [backup EXCEPT ![c] = registered]
  /\ init' = [init EXCEPT ![c] = IF cached THEN "over" ELSE "loading"]
  /\ overlaps' = IF cached THEN overlaps
                 ELSE overlaps \cup { init[d] : d \in At("loading") \cup At("booting") }
  /\ UNCHANGED cached

(* go.run: the escrow prover registers its functions.                      *)
RunGo(c) ==
  /\ init[c] = "loading"
  /\ init' = [init EXCEPT ![c] = "booting"]
  /\ prove' = "escrow"
  /\ UNCHANGED <<cached, backup, overlaps>>

(* Mutant: `prove` is left as the escrow prover has registered it. *)
LoadedOnly(c) ==
  /\ init[c] = "booting"
  /\ init' = [init EXCEPT ![c] = "over"]
  /\ cached' = TRUE
  /\ UNCHANGED <<prove, backup, overlaps>>

(* Mutant: loading is exclusive, and whoever finds it taken waits. *)
LoadedAlone(c) ==
  /\ init[c] = "booting" /\ At("booting") = {c}
  /\ init' = [init EXCEPT ![c] = "over"]
  /\ cached' = TRUE
  /\ prove' = backup[c]
  /\ UNCHANGED <<backup, overlaps>>

(* The timer fires: the instance is kept, and `prove` put back.            *)
Loaded(c) ==
  /\ init[c] = "booting"
  /\ init' = [init EXCEPT ![c] = "over"]
  /\ cached' = TRUE
  /\ prove' = backup[c]
  /\ UNCHANGED <<backup, overlaps>>

(* initWasm or the compilation throws.                                     *)
InitThrows(c) ==
  /\ init[c] \in {"mist", "loading"}
  /\ init' = [init EXCEPT ![c] = "over"]
  /\ UNCHANGED <<prove, cached, backup, overlaps>>

InitProceeds(c) == GetWasmInstance(c) \/ RunGo(c) \/ Loaded(c)

(* A new process has loaded nothing, and calls of the old one are over.    *)
Unload ==
  /\ prove' = "none" /\ cached' = FALSE /\ overlaps' = {}
  /\ init' = [c \in Caller |-> IF init[c] = "idle" THEN "idle" ELSE "over"]
  /\ UNCHANGED backup

ProverNext ==
  \/ \E c \in Caller : CallInit(c) \/ InitProceeds(c) \/ InitThrows(c)
  \/ Unload

ProverSpec == ProverInit /\ [][ProverNext]_proverVars

-----------------------------------------------------------------------------
(* Properties.                                                             *)

ProverTypeOK ==
  /\ prove \in Prover /\ cached \in BOOLEAN
  /\ init \in [Caller -> InitPhase]
  /\ backup \in [Caller -> Prover]
  /\ overlaps \subseteq {"loading", "booting"}

(* Between calls of init `prove` is the MIST prover's, however many calls  *)
(* load the escrow prover at the same time - as long as none of them       *)
(* begins to while another sleeps: it would take the escrow prover's       *)
(* `prove` for the one to put back.                                        *)
ProverIsMist ==
  "booting" \notin overlaps /\ cached /\ At("booting") = {} => prove = "mist"
=============================================================================
