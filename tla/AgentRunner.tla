---------------------------- MODULE AgentRunner ----------------------------
(***************************************************************************)
(* The runner's agents: processes that exchange messages over HTTP, queue  *)
(* a turn for each, and in a turn let a language model call tools, which   *)
(* refer to payment requests by alias.                                     *)
(*                                                                         *)
(* A process runs one thread: an action is what it does between two        *)
(* awaits.  The tool calls of one step of a turn begin one after the       *)
(* other, with nothing in between, and then go on concurrently; a tool     *)
(* that throws ends the turn, and leaves the others running.  What the     *)
(* model says and which tools it calls is arbitrary.                       *)
(***************************************************************************)
EXTENDS Naturals, Sequences, FiniteSets

CONSTANTS
  Agent,
  Config,          \* each agent's configuration
  Alias,
  Own,             \* the aliases an agent gives to its own requests
  MaxCalls,        \* bound on tool calls
  MaxFaults        \* bound on failing awaits and stopping processes

(* What an agent is configured with: whom its sendPeer reaches (peerUrl),  *)
(* whether it has a task.md, and maxStepsPerTurn.  It does not start       *)
(* without the rest, a persona, a wallet, contracts and a model.           *)
AgentConfig == [peer : Agent, initialTask : BOOLEAN, maxSteps : Nat \ {0}]

ASSUME RunnerAssumption ==
  /\ Config \in [Agent -> AgentConfig] /\ Own \in [Agent -> SUBSET Alias]
  /\ MaxCalls \in Nat /\ MaxFaults \in Nat

VARIABLES
  process,      \* "down"; "listening", with its initial task to begin; "running"
  requests,     \* Agent.requests: what its aliases stand for
  queue,        \* messages acknowledged (and the initial task) whose turns have
                \* not got past their first await: the chain of Agent.mutex
  turn,         \* where the turn at its head, or the one just begun, is
  steps,        \* the steps of that turn
  calls,        \* tool calls in progress
  posts,        \* messages on their way
  finalized,    \* Agent.finalized
  history,      \* the messages in Agent.messages
  made, faults, stops

agentVars == <<process, requests, queue, turn, steps, finalized, history>>
bounds    == <<made, faults, stops>>
runnerVars == <<agentVars, calls, posts, bounds>>

-----------------------------------------------------------------------------
(* Requests and their aliases.                                             *)

(* A payment request: the agent that made it, and in which call.           *)
Tx == [by : Agent, call : 1..MaxCalls]

(* A RequestEntry.                                                         *)
Entry == [tx : Tx, owner : {"self", "peer"}]

(* Entries by alias: an agent's, a message's, or those a tool call uses.   *)
Entries == UNION { [aliases -> Entry] : aliases \in SUBSET Alias }
None == [alias \in {} |-> alias]

Pick(entries, aliases) == [alias \in aliases |-> entries[alias]]

(* Map.set for every alias of new.                                         *)
SetAll(entries, new) ==
  [alias \in DOMAIN entries \cup DOMAIN new |->
     IF alias \in DOMAIN new THEN new[alias] ELSE entries[alias]]

Known(a) == DOMAIN requests[a]

(* Mutant: an entry keeps the owner its sender has it under. *)
AsSent(received) == received

(* What the peer sends is registered as the peer's, whatever owner it says. *)
AsPeers(received) ==
  [alias \in DOMAIN received |-> [received[alias] EXCEPT !.owner = "peer"]]

Message == [id : 0..MaxCalls, requests : Entries]
Post    == [id : 1..MaxCalls, to : Agent, requests : Entries]

(* The initial task is a turn like that of a message, and attaches nothing. *)
InitialTask == [id |-> 0, requests |-> None]

-----------------------------------------------------------------------------
(* Processes.                                                              *)

Up(a) == process[a] # "down"

(* Nothing else runs in a process while the calls of a step begin.         *)
Awaiting(a) == Up(a) /\ turn[a] # "calling"

Fault == faults + stops < MaxFaults /\ faults' = faults + 1 /\ UNCHANGED stops
Ends  == faults + stops < MaxFaults /\ stops' = stops + 1 /\ UNCHANGED faults

(* MISTActions is built and the server listens.                            *)
Boot(a) ==
  /\ process[a] = "down"
  /\ process' = [process EXCEPT ![a] = "listening"]
  /\ UNCHANGED <<requests, queue, turn, steps, finalized, history, calls, posts, bounds>>

(* After a log entry the initial task, if there is one, queues its turn.   *)
Kickoff(a) ==
  /\ process[a] = "listening" /\ Awaiting(a)
  /\ process' = [process EXCEPT ![a] = "running"]
  /\ queue' = IF Config[a].initialTask THEN [queue EXCEPT ![a] = Append(@, InitialTask)]
                                 ELSE queue
  /\ UNCHANGED <<requests, turn, steps, finalized, history, calls, posts, bounds>>

(* Its memory is lost.                                                     *)
Forget(a) ==
  /\ process' = [process EXCEPT ![a] = "down"]
  /\ requests' = [requests EXCEPT ![a] = None]
  /\ queue' = [queue EXCEPT ![a] = <<>>]
  /\ turn' = [turn EXCEPT ![a] = "idle"]
  /\ steps' = [steps EXCEPT ![a] = 0]
  /\ finalized' = [finalized EXCEPT ![a] = FALSE]
  /\ history' = [history EXCEPT ![a] = {}]

(* Mutant: tool calls go on without their process. *)
DownButCalls(a) == Forget(a) /\ UNCHANGED calls

(* Its tool calls end with it; what they have posted stays on its way.     *)
Down(a) == Forget(a) /\ calls' = { c \in calls : c.agent # a }

(* A signal, or a crash.                                                   *)
Stop(a) ==
  /\ Up(a)
  /\ Ends
  /\ Down(a)
  /\ UNCHANGED <<posts, made>>

(* A log entry cannot be appended.  Every later one is then rejected too,  *)
(* and the first that nobody awaits ends the process.                      *)
LogFails(a) ==
  /\ Awaiting(a) /\ (turn[a] # "idle" \/ \E c \in calls : c.agent = a)
  /\ Ends
  /\ Down(a)
  /\ UNCHANGED <<posts, made>>

-----------------------------------------------------------------------------
(* Messages.                                                               *)

(* What becomes of the call that has posted message n, if it still waits.  *)
Resolve(n, phase) ==
  calls' = { IF c.id = n /\ c.phase = "posted" THEN [c EXCEPT !.phase = phase] ELSE c :
               c \in calls }

(* Mutant: the server answers when the turn is over. *)
ListeningIdle(a) == Awaiting(a) /\ turn[a] = "idle"

(* Mutant: the server looks at nothing. *)
AcceptsAlways(a) == TRUE

Accepts(a) == ~finalized[a]

(* The server takes a message whenever the process runs.                   *)
Listening(a) == Awaiting(a)

(* POST /message: acknowledged at once, and if the agent has not finalized *)
(* its turn is queued.                                                     *)
Receive(p) ==
  /\ Listening(p.to)
  /\ posts' = posts \ {p}
  /\ Resolve(p.id, "answered")
  /\ queue' = IF Accepts(p.to)
                THEN [queue EXCEPT ![p.to] = Append(@, [id |-> p.id, requests |-> p.requests])]
                ELSE queue
  /\ UNCHANGED <<process, requests, turn, steps, finalized, history, bounds>>

(* Nobody listens, and fetch throws.                                       *)
Refused(p) ==
  /\ ~Up(p.to)
  /\ posts' = posts \ {p}
  /\ Resolve(p.id, "throwing")
  /\ UNCHANGED <<agentVars, bounds>>

(* The connection breaks before the message arrives, or after.             *)
ReplyLost(c) ==
  /\ c.phase = "posted"
  /\ Fault
  /\ Resolve(c.id, "throwing")
  /\ UNCHANGED <<agentVars, posts, made>>

-----------------------------------------------------------------------------
(* Turns.                                                                  *)

(* The next turn of the mutex begins: attached requests are registered     *)
(* before its first await.                                                 *)
BeginTurn(a) ==
  /\ Up(a) /\ turn[a] = "idle" /\ queue[a] # <<>>
  /\ requests' = [requests EXCEPT ![a] = SetAll(@, AsPeers(Head(queue[a]).requests))]
  /\ turn' = [turn EXCEPT ![a] = "received"]
  /\ UNCHANGED <<process, queue, steps, finalized, history, calls, posts, bounds>>

(* step returns if the agent has finalized.                                *)
StepOf(a) == IF finalized[a] THEN "idle" ELSE "inferring"

(* The message is logged and reaches the model's history.                  *)
PushMessage(a) ==
  /\ turn[a] = "received"
  /\ history' = [history EXCEPT ![a] = @ \cup {Head(queue[a]).id}]
  /\ queue' = [queue EXCEPT ![a] = Tail(@)]
  /\ turn' = [turn EXCEPT ![a] = StepOf(a)]
  /\ steps' = [steps EXCEPT ![a] = 0]
  /\ UNCHANGED <<process, requests, finalized, calls, posts, bounds>>

(* The model answers without a tool call, and the turn is over.            *)
Answer(a) ==
  /\ turn[a] = "inferring"
  /\ turn' = [turn EXCEPT ![a] = "idle"]
  /\ UNCHANGED <<process, requests, queue, steps, finalized, history, calls, posts, bounds>>

(* All calls of the model's answer have begun.                             *)
Called(a) ==
  /\ turn[a] = "calling"
  /\ turn' = [turn EXCEPT ![a] = "waiting"]
  /\ UNCHANGED <<process, requests, queue, steps, finalized, history, calls, posts, bounds>>

(* With the results of all of them the model is asked again, unless these  *)
(* were the turn's last.                                                   *)
StepDone(a) ==
  /\ turn[a] = "waiting"
  /\ \A c \in calls : c.agent = a => c.orphan
  /\ turn' = [turn EXCEPT ![a] = IF steps[a] < Config[a].maxSteps THEN "inferring" ELSE "idle"]
  /\ UNCHANGED <<process, requests, queue, steps, finalized, history, calls, posts, bounds>>

(* Mutant: only a turn that succeeds lets the next one begin. *)
FailAndHold(a) ==
  /\ turn' = [turn EXCEPT ![a] = "failed"]
  /\ calls' = { IF c.agent = a THEN [c EXCEPT !.orphan = TRUE] ELSE c : c \in calls }

(* An exception ends the turn and releases the mutex; other calls of the   *)
(* turn go on, with nobody waiting for them.                               *)
FailTurn(a) ==
  /\ turn' = [turn EXCEPT ![a] = "idle"]
  /\ calls' = { IF c.agent = a THEN [c EXCEPT !.orphan = TRUE] ELSE c : c \in calls }

(* The inference service fails, or its answer names no tool or arguments   *)
(* that are not the tool's.                                                *)
InferenceFails(a) ==
  /\ turn[a] = "inferring"
  /\ Fault
  /\ FailTurn(a)
  /\ UNCHANGED <<process, requests, queue, steps, finalized, history, posts, made>>

-----------------------------------------------------------------------------
(* Tools, up to their first await.                                         *)

(* working, guarded: in the SDK, where an exception is thrown, or caught    *)
(* and made a result; sending, posted: in sendPeer; answered: about to     *)
(* return.                                                                 *)
Phase == {"working", "guarded", "sending", "posted", "answered", "throwing"}

Call == [agent : Agent, id : 1..MaxCalls, uses : Entries, phase : Phase, orphan : BOOLEAN]

(* The model calls a tool, in the step that begins or has just begun.      *)
CallTool(a, uses, phase) ==
  /\ turn[a] \in {"inferring", "calling"}
  /\ made < MaxCalls /\ made' = made + 1
  /\ calls' = calls \cup {[agent |-> a, id |-> made + 1, uses |-> uses, phase |-> phase,
                           orphan |-> FALSE]}
  /\ turn' = [turn EXCEPT ![a] = "calling"]
  /\ steps' = IF turn[a] = "inferring" THEN [steps EXCEPT ![a] = @ + 1] ELSE steps
  /\ UNCHANGED <<process, queue, history, posts, faults, stops>>

GenerateBlinding(a) ==
  CallTool(a, None, "answered") /\ UNCHANGED <<requests, finalized>>

(* An amount that is none, an unknown token or a blinding that is no       *)
(* hexadecimal number is an exception.                                     *)
Rejects(a) == CallTool(a, None, "throwing") /\ UNCHANGED <<requests, finalized>>

(* The entry of a request that the call to begin makes.                    *)
NewEntry(a, alias) ==
  [x \in {alias} |-> [tx |-> [by |-> a, call |-> made + 1], owner |-> "self"]]

(* Mutant: an alias in use is not looked for. *)
AnyAlias(a) == Own[a]

FreeAlias(a) == Own[a] \ Known(a)

(* An alias that is not in use is registered with the request, and then    *)
(* the state is saved; one that is in use is an exception.                 *)
RequestPayment(a) ==
  \/ \E alias \in FreeAlias(a) :
       /\ requests' = [requests EXCEPT ![a] = SetAll(@, NewEntry(a, alias))]
       /\ CallTool(a, NewEntry(a, alias), "guarded")
       /\ UNCHANGED finalized
  \/ Rejects(a)

(* getRequest: an alias that is not known is an exception.                 *)
Uses(a, aliases, phase) ==
  \/ /\ aliases \subseteq Known(a)
     /\ CallTool(a, Pick(requests[a], aliases), phase)
     /\ UNCHANGED <<requests, finalized>>
  \/ ~ aliases \subseteq Known(a) /\ Rejects(a)

PayRequest(a)  == \E alias \in Alias : Uses(a, {alias}, "working")
ShowBalance(a) == Uses(a, {}, "working")
EscrowFund(a) ==
  \/ \E creator, recipient \in Alias : Uses(a, {creator, recipient}, "working")
  \/ Rejects(a)
EscrowClaim(a) ==
  \/ \E creator, recipient \in Alias : Uses(a, {creator, recipient}, "guarded")
  \/ Rejects(a)
CheckRequestStatus(a) ==
  \E alias \in Alias : Uses(a, {alias}, "working")

(* The shared requests are serialized as they are registered now.          *)
SendPeer(a) ==
  \/ \E share \in SUBSET Alias : Uses(a, share, "sending")
  \/ Rejects(a)

(* The agent notes that it has finalized, and turns end where they ask.    *)
SetFinalized(a) == finalized' = [finalized EXCEPT ![a] = TRUE]

Finalize(a) == CallTool(a, None, "answered") /\ SetFinalized(a) /\ UNCHANGED requests

-----------------------------------------------------------------------------
(* Tools, after their first await.                                         *)

(* sendPeer has logged the message and posts it.                           *)
PostMessage(c) ==
  /\ c.phase = "sending" /\ Awaiting(c.agent)
  /\ posts' = posts \cup {[id |-> c.id, to |-> Config[c.agent].peer, requests |-> c.uses]}
  /\ calls' = (calls \ {c}) \cup {[c EXCEPT !.phase = "posted"]}
  /\ UNCHANGED <<agentVars, bounds>>

Return(c) ==
  /\ c.phase \in {"working", "guarded", "answered"} /\ Awaiting(c.agent)
  /\ calls' = calls \ {c}
  /\ UNCHANGED <<agentVars, posts, bounds>>

(* The SDK's flow throws.  (escrowClaim returns that as its result, and a  *)
(* save that fails is logged.)                                             *)
FlowThrows(c) ==
  /\ c.phase = "working" /\ Awaiting(c.agent)
  /\ Fault
  /\ calls' = (calls \ {c}) \cup {[c EXCEPT !.phase = "throwing"]}
  /\ UNCHANGED <<agentVars, posts, made>>

(* The exception reaches the turn, if the call is of the one in progress.  *)
Throw(c) ==
  /\ c.phase = "throwing" /\ Awaiting(c.agent)
  /\ \/ /\ c.orphan
        /\ calls' = calls \ {c}
        /\ UNCHANGED turn
     \/ /\ ~c.orphan
        /\ FailTurn(c.agent)
  /\ UNCHANGED <<process, requests, queue, steps, finalized, history, posts, bounds>>

-----------------------------------------------------------------------------

RunnerInit ==
  /\ process = [a \in Agent |-> "down"]
  /\ requests = [a \in Agent |-> None]
  /\ queue = [a \in Agent |-> <<>>]
  /\ turn = [a \in Agent |-> "idle"]
  /\ steps = [a \in Agent |-> 0]
  /\ finalized = [a \in Agent |-> FALSE]
  /\ history = [a \in Agent |-> {}]
  /\ calls = {} /\ posts = {}
  /\ made = 0 /\ faults = 0 /\ stops = 0

Tools(a) ==
  \/ GenerateBlinding(a) \/ RequestPayment(a) \/ PayRequest(a) \/ ShowBalance(a)
  \/ EscrowFund(a) \/ EscrowClaim(a) \/ CheckRequestStatus(a) \/ SendPeer(a) \/ Finalize(a)

(* What the agent's turn does without being called.                        *)
Proceed(a) == BeginTurn(a) \/ PushMessage(a) \/ Answer(a) \/ Called(a) \/ StepDone(a)

(* A call of a's goes on, and a message to a arrives or is refused.        *)
Settle(a) ==
  \E c \in calls : c.agent = a /\ (PostMessage(c) \/ Return(c) \/ Throw(c))

Deliver(a) == \E p \in posts : p.to = a /\ (Receive(p) \/ Refused(p))

Run(a) == Proceed(a) \/ Settle(a) \/ Deliver(a)

RunnerNext ==
  \/ \E a \in Agent :
       \/ Boot(a) \/ Kickoff(a) \/ Stop(a) \/ LogFails(a)
       \/ Tools(a) \/ InferenceFails(a) \/ Run(a)
  \/ \E c \in calls : FlowThrows(c) \/ ReplyLost(c)

(* An event loop goes on as long as anything is ready: the model answers,  *)
(* awaited promises resolve, messages arrive.  No tool need be called, no  *)
(* process be started, and which event comes first is open.                *)
RunnerFairness == \A a \in Agent : WF_runnerVars(Run(a))

RunnerSpec == RunnerInit /\ [][RunnerNext]_runnerVars /\ RunnerFairness

-----------------------------------------------------------------------------
(* Properties.                                                             *)

(* A turn's message is in its queue until it is in the history, a process  *)
(* that is down remembers nothing, and whoever waits for a call is up.     *)
RunnerTypeOK ==
  /\ process \in [Agent -> {"down", "listening", "running"}]
  /\ requests \in [Agent -> Entries]
  /\ queue \in [Agent -> Seq(Message)]
  /\ turn \in [Agent -> {"idle", "received", "inferring", "calling", "waiting"}]
  /\ steps \in [Agent -> Nat]
  /\ finalized \in [Agent -> BOOLEAN]
  /\ history \in [Agent -> SUBSET (0..MaxCalls)]
  /\ calls \subseteq Call /\ posts \subseteq Post
  /\ made \in 0..MaxCalls
  /\ faults \in Nat /\ stops \in Nat /\ faults + stops <= MaxFaults
  /\ \A a \in Agent :
       /\ turn[a] = "received" => queue[a] # <<>>
       /\ steps[a] <= Config[a].maxSteps
       /\ turn[a] = "inferring" => steps[a] < Config[a].maxSteps
       /\ ~Up(a) => /\ requests[a] = None /\ queue[a] = <<>> /\ turn[a] = "idle"
                    /\ \A c \in calls : c.agent # a

(* All there is of requests under aliases: what agents have registered,    *)
(* what their tools in progress use, what is in queues and on its way.     *)
Tables ==
  { requests[a] : a \in Agent } \cup { c.uses : c \in calls }
  \cup { p.requests : p \in posts }
  \cup UNION { { queue[a][i].requests : i \in DOMAIN queue[a] } : a \in Agent }

OwnAreDisjoint ==
  \A a, b \in Agent : a # b => Own[a] \cap Own[b] = {}

(* Agents that name their own requests differently, and do not forget any, *)
(* mean one request by an alias: whichever of them shares it, in whatever  *)
(* order messages arrive, and whatever their tools in progress began with. *)
AliasesAgree ==
  OwnAreDisjoint /\ stops = 0 =>
    \A s, t \in Tables : \A alias \in DOMAIN s \cap DOMAIN t : s[alias].tx = t[alias].tx

(* An agent never takes a request of another for its own.                  *)
OwnersAreRight ==
  \A a \in Agent : \A alias \in Known(a) :
    requests[a][alias].owner = "self" => requests[a][alias].tx.by = a

(* An agent that has finalized and is not in a turn calls no more tools    *)
(* and takes no more messages, whatever was queued before or arrives late. *)
Retired(a) == finalized[a] /\ turn[a] \in {"idle", "received"}

FinalizedStaysQuiet ==
  [][ \A a \in Agent :
        Retired(a) /\ process'[a] # "down" =>
          /\ Retired(a)'
          /\ \A i \in DOMAIN queue'[a] :
               queue'[a][i].id = 0 \/ \E j \in DOMAIN queue[a] : queue[a][j] = queue'[a][i]
    ]_runnerVars

(* No two agents wait for each other: a sendPeer always comes back, also   *)
(* when both agents, each in a turn of its own, message each other.        *)
Sending(a) == \E c \in calls : c.agent = a /\ c.phase = "posted"

SendsComplete == \A a \in Agent : Sending(a) ~> ~Sending(a)

(* What has been acknowledged reaches the model, whatever becomes of the   *)
(* turns before it, unless the process ends: a queue is always worked off. *)
AckedIsHeard == \A a \in Agent : queue[a] # <<>> ~> queue[a] = <<>>
=============================================================================
