--------------------------- MODULE MCAgentRunner ---------------------------
(***************************************************************************)
(* Instances of AgentRunner for TLC: the repository's two agents, each the *)
(* other's peer.                                                           *)
(***************************************************************************)
EXTENDS AgentRunner

CONSTANTS Jill, Bob, jillReceiveDumEth, bobReceiveDumUsd

(* Bob has a task.md.                                                      *)
Configured ==
  [a \in Agent |-> [peer |-> IF a = Jill THEN Bob ELSE Jill, initialTask |-> a = Bob,
                    maxSteps |-> 2]]

(* The aliases their instructions name.                                    *)
OwnAliases == [a \in Agent |-> IF a = Jill THEN {jillReceiveDumEth} ELSE {bobReceiveDumUsd}]
=============================================================================
