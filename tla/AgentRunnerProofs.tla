------------------------- MODULE AgentRunnerProofs -------------------------
(***************************************************************************)
(* Proofs about AgentRunner, for every set of agents, of aliases and of    *)
(* bounds: that agents who name their own requests differently mean one    *)
(* request by an alias, that none takes another's request for its own, and *)
(* that an agent which has finalized stays quiet.                          *)
(***************************************************************************)
EXTENDS AgentRunner, SequenceTheorems, TLAPS

-----------------------------------------------------------------------------
(* Tables of entries.                                                      *)

LEMMA EntriesIff ==
  \A t : t \in Entries <=> DOMAIN t \subseteq Alias /\ t \in [DOMAIN t -> Entry]
<1> SUFFICES ASSUME NEW t
             PROVE  t \in Entries <=> DOMAIN t \subseteq Alias /\ t \in [DOMAIN t -> Entry]
  OBVIOUS
<1>1. t \in Entries <=> \E aliases \in SUBSET Alias : t \in [aliases -> Entry]
  BY DEF Entries
<1>2. ASSUME NEW aliases \in SUBSET Alias, t \in [aliases -> Entry]
      PROVE  DOMAIN t = aliases
  BY <1>2
<1> QED
  BY <1>1, <1>2

LEMMA NoneIsTable == None \in Entries /\ DOMAIN None = {}
<1>1. DOMAIN None = {} /\ None = [alias \in {} |-> alias]
  BY DEF None
<1>2. None \in [{} -> Entry]
  BY <1>1
<1> QED
  BY <1>1, <1>2, EntriesIff

LEMMA PickIsTable ==
  ASSUME NEW t \in Entries, NEW aliases, aliases \subseteq DOMAIN t
  PROVE  /\ Pick(t, aliases) \in Entries
         /\ DOMAIN Pick(t, aliases) = aliases
         /\ \A alias \in aliases : Pick(t, aliases)[alias] = t[alias]
<1>1. /\ DOMAIN Pick(t, aliases) = aliases
      /\ \A alias \in aliases : Pick(t, aliases)[alias] = t[alias]
      /\ Pick(t, aliases) = [alias \in aliases |-> t[alias]]
  BY DEF Pick
<1>2. DOMAIN t \subseteq Alias /\ \A alias \in DOMAIN t : t[alias] \in Entry
  BY EntriesIff
<1>3. Pick(t, aliases) \in [aliases -> Entry]
  BY <1>1, <1>2
<1> QED
  BY <1>1, <1>2, <1>3, EntriesIff

LEMMA SetAllIsTable ==
  ASSUME NEW t \in Entries, NEW new \in Entries
  PROVE  /\ SetAll(t, new) \in Entries
         /\ DOMAIN SetAll(t, new) = DOMAIN t \cup DOMAIN new
         /\ \A alias \in DOMAIN new : SetAll(t, new)[alias] = new[alias]
         /\ \A alias \in DOMAIN t \ DOMAIN new : SetAll(t, new)[alias] = t[alias]
<1>1. /\ DOMAIN SetAll(t, new) = DOMAIN t \cup DOMAIN new
      /\ \A alias \in DOMAIN new : SetAll(t, new)[alias] = new[alias]
      /\ \A alias \in DOMAIN t \ DOMAIN new : SetAll(t, new)[alias] = t[alias]
      /\ SetAll(t, new) = [alias \in DOMAIN t \cup DOMAIN new |->
                             IF alias \in DOMAIN new THEN new[alias] ELSE t[alias]]
  BY DEF SetAll
<1>2. /\ DOMAIN t \subseteq Alias /\ \A alias \in DOMAIN t : t[alias] \in Entry
      /\ DOMAIN new \subseteq Alias /\ \A alias \in DOMAIN new : new[alias] \in Entry
  BY EntriesIff
<1>3. SetAll(t, new) \in [DOMAIN t \cup DOMAIN new -> Entry]
  BY <1>1, <1>2
<1> QED
  BY <1>1, <1>2, <1>3, EntriesIff

LEMMA AsPeersIsTable ==
  ASSUME NEW t \in Entries
  PROVE  /\ AsPeers(t) \in Entries
         /\ DOMAIN AsPeers(t) = DOMAIN t
         /\ \A alias \in DOMAIN t : /\ AsPeers(t)[alias].tx = t[alias].tx
                                    /\ AsPeers(t)[alias].owner = "peer"
<1>1. AsPeers(t) = [alias \in DOMAIN t |-> [t[alias] EXCEPT !.owner = "peer"]]
  BY DEF AsPeers
<1>2. DOMAIN t \subseteq Alias /\ \A alias \in DOMAIN t : t[alias] \in Entry
  BY EntriesIff
<1>3. \A alias \in DOMAIN t :
        /\ [t[alias] EXCEPT !.owner = "peer"] \in Entry
        /\ [t[alias] EXCEPT !.owner = "peer"].tx = t[alias].tx
        /\ [t[alias] EXCEPT !.owner = "peer"].owner = "peer"
  BY <1>2 DEF Entry
<1>4. AsPeers(t) \in [DOMAIN t -> Entry]
  BY <1>1, <1>3
<1> QED
  BY <1>1, <1>2, <1>3, <1>4, EntriesIff

(* The entry of a request an agent has just made.                          *)
LEMMA NewEntryIsTable ==
  ASSUME NEW a \in Agent, NEW id \in 1..MaxCalls, NEW alias \in Alias
  PROVE  [x \in {alias} |-> [tx |-> [by |-> a, call |-> id], owner |-> "self"]] \in Entries
<1> DEFINE new == [x \in {alias} |-> [tx |-> [by |-> a, call |-> id], owner |-> "self"]]
<1>1. [tx |-> [by |-> a, call |-> id], owner |-> "self"] \in Entry
  BY DEF Entry, Tx
<1>2. new \in [{alias} -> Entry] /\ DOMAIN new = {alias}
  BY <1>1
<1> QED
  BY <1>2, EntriesIff

-----------------------------------------------------------------------------
(* Types, step by step.                                                    *)

LEMMA AppendMessage ==
  ASSUME NEW s \in Seq(Message), NEW m \in Message
  PROVE  /\ Append(s, m) \in Seq(Message) /\ Append(s, m) # <<>>
         /\ DOMAIN Append(s, m) = DOMAIN s \cup {Len(s) + 1}
         /\ \A i \in DOMAIN s : Append(s, m)[i] = s[i]
         /\ Append(s, m)[Len(s) + 1] = m
OBVIOUS

LEMMA TailMessage ==
  ASSUME NEW s \in Seq(Message), s # <<>>
  PROVE  /\ Head(s) \in Message /\ 1 \in DOMAIN s /\ Head(s) = s[1]
         /\ Tail(s) \in Seq(Message)
         /\ \A i \in DOMAIN Tail(s) : i + 1 \in DOMAIN s /\ Tail(s)[i] = s[i + 1]
OBVIOUS

(* Messages that arrive, and calls that answer, throw or are abandoned.    *)
LEMMA ResolveTyped ==
  ASSUME RunnerTypeOK, NEW n, NEW phase \in Phase, Resolve(n, phase)
  PROVE  /\ calls' \subseteq Call
         /\ \A c \in calls' : \E d \in calls : d.agent = c.agent /\ d.uses = c.uses
<1>1. \A c \in calls : c \in Call
  BY DEF RunnerTypeOK
<1>2. \A c \in Call : /\ [c EXCEPT !.phase = phase] \in Call
                      /\ [c EXCEPT !.phase = phase].agent = c.agent
                      /\ [c EXCEPT !.phase = phase].uses = c.uses
  BY DEF Call
<1>3. \A c \in calls' : \E d \in calls : c = d \/ c = [d EXCEPT !.phase = phase]
  BY DEF Resolve
<1> QED
  BY <1>1, <1>2, <1>3

LEMMA FailTurnTyped ==
  ASSUME RunnerTypeOK, NEW a \in Agent, FailTurn(a)
  PROVE  /\ calls' \subseteq Call
         /\ \A c \in calls' : \E d \in calls : d.agent = c.agent /\ d.uses = c.uses
         /\ turn' = [turn EXCEPT ![a] = "idle"]
<1>1. \A c \in calls : c \in Call
  BY DEF RunnerTypeOK
<1>2. \A c \in Call : /\ [c EXCEPT !.orphan = TRUE] \in Call
                      /\ [c EXCEPT !.orphan = TRUE].agent = c.agent
                      /\ [c EXCEPT !.orphan = TRUE].uses = c.uses
  BY DEF Call
<1>3. \A c \in calls' : \E d \in calls : c = d \/ c = [d EXCEPT !.orphan = TRUE]
  BY DEF FailTurn
<1>4. /\ calls' \subseteq Call
      /\ \A c \in calls' : \E d \in calls : d.agent = c.agent /\ d.uses = c.uses
  BY <1>1, <1>2, <1>3
<1> QED
  BY <1>4 DEF FailTurn

LEMMA DownTyped ==
  ASSUME RunnerTypeOK, NEW a \in Agent, Stop(a) \/ LogFails(a)
  PROVE  RunnerTypeOK'
<1>1. Down(a) /\ Ends /\ UNCHANGED <<posts, made>>
  BY DEF Stop, LogFails
<1>2. /\ calls' \subseteq calls
      /\ \A c \in calls' : c.agent # a
  BY <1>1 DEF Down
<1>3. None \in Entries /\ <<>> \in Seq(Message)
  BY NoneIsTable
<1>4. /\ UNCHANGED faults /\ stops' = stops + 1
      /\ faults + stops < MaxFaults /\ MaxFaults \in Nat
  BY <1>1, RunnerAssumption DEF Ends
<1>5. faults' \in Nat /\ stops' \in Nat /\ faults' + stops' <= MaxFaults
  BY <1>4 DEF RunnerTypeOK
<1>6. Forget(a) /\ UNCHANGED <<posts, made>>
  BY <1>1 DEF Down
<1>7. /\ process' \in [Agent -> {"down", "listening", "running"}]
      /\ requests' \in [Agent -> Entries]
      /\ queue' \in [Agent -> Seq(Message)]
      /\ turn' \in [Agent -> {"idle", "received", "inferring", "calling", "waiting"}]
      /\ steps' \in [Agent -> Nat]
      /\ finalized' \in [Agent -> BOOLEAN]
      /\ history' \in [Agent -> SUBSET (0..MaxCalls)]
  BY <1>3, <1>6, RunnerAssumption DEF RunnerTypeOK, Forget
<1>8. calls' \subseteq Call /\ posts' \subseteq Post /\ made' \in 0..MaxCalls
  BY <1>2, <1>6 DEF RunnerTypeOK
<1>9. \A b \in Agent :
        /\ turn'[b] = "received" => queue'[b] # <<>>
        /\ steps'[b] <= Config[b].maxSteps
        /\ turn'[b] = "inferring" => steps'[b] < Config[b].maxSteps
        /\ ~Up(b)' => /\ requests'[b] = None /\ queue'[b] = <<>> /\ turn'[b] = "idle"
                      /\ \A c \in calls' : c.agent # b
  <2>1. \A b \in Agent : 0 <= Config[b].maxSteps
    BY RunnerAssumption DEF AgentConfig
  <2>2. \A b \in Agent : steps'[b] \in {0, steps[b]} /\ (turn'[b] # "idle" => steps'[b] = steps[b])
    BY <1>6 DEF RunnerTypeOK, Forget
  <2>3. \A b \in Agent : steps'[b] <= Config[b].maxSteps
    BY <2>1, <2>2 DEF RunnerTypeOK
  <2>4. \A b \in Agent : turn'[b] = "inferring" => turn[b] = "inferring" /\ steps'[b] = steps[b]
    BY <1>6, <2>2 DEF RunnerTypeOK, Forget
  <2>5. \A b \in Agent : turn'[b] = "inferring" => steps'[b] < Config[b].maxSteps
    BY <2>4 DEF RunnerTypeOK
  <2>6. \A b \in Agent :
          /\ turn'[b] = "received" => queue'[b] # <<>>
          /\ ~Up(b)' => /\ requests'[b] = None /\ queue'[b] = <<>> /\ turn'[b] = "idle"
                        /\ \A c \in calls' : c.agent # b
    BY <1>2, <1>6 DEF RunnerTypeOK, Forget, Up
  <2> QED
    BY <2>3, <2>5, <2>6
<1> QED
  BY <1>5, <1>7, <1>8, <1>9 DEF RunnerTypeOK

LEMMA BootTyped ==
  ASSUME RunnerTypeOK, NEW a \in Agent, Boot(a) \/ Kickoff(a)
  PROVE  RunnerTypeOK'
<1>1. InitialTask \in Message
  BY NoneIsTable, RunnerAssumption DEF InitialTask, Message
<1>2. queue[a] \in Seq(Message)
  BY DEF RunnerTypeOK
<1>3. Append(queue[a], InitialTask) \in Seq(Message) /\ Append(queue[a], InitialTask) # <<>>
  BY <1>1, <1>2, AppendMessage
<1>4. CASE Boot(a)
  BY <1>4 DEF RunnerTypeOK, Boot, Up, bounds
<1>5. CASE Kickoff(a)
  BY <1>3, <1>5 DEF RunnerTypeOK, Kickoff, Up, Awaiting, bounds
<1> QED
  BY <1>4, <1>5

LEMMA DeliverTyped ==
  ASSUME RunnerTypeOK, NEW p \in posts, Receive(p) \/ Refused(p)
  PROVE  RunnerTypeOK'
<1>1. p \in Post /\ p.to \in Agent
  BY DEF RunnerTypeOK, Post
<1>2. [id |-> p.id, requests |-> p.requests] \in Message /\ queue[p.to] \in Seq(Message)
  <2>1. p.id \in 0..MaxCalls /\ p.requests \in Entries
    BY <1>1, RunnerAssumption DEF Post
  <2> QED
    BY <1>1, <2>1 DEF RunnerTypeOK, Message
<1>3. /\ Append(queue[p.to], [id |-> p.id, requests |-> p.requests]) \in Seq(Message)
      /\ Append(queue[p.to], [id |-> p.id, requests |-> p.requests]) # <<>>
  BY <1>2, AppendMessage
<1>4. /\ calls' \subseteq Call
      /\ \A c \in calls' : \E d \in calls : d.agent = c.agent /\ d.uses = c.uses
      /\ posts' \subseteq posts
  <2>1. CASE Receive(p)
    BY <2>1, ResolveTyped DEF Receive, Phase
  <2>2. CASE Refused(p)
    BY <2>2, ResolveTyped DEF Refused, Phase
  <2> QED
    BY <2>1, <2>2
<1>5. CASE Receive(p)
  BY <1>1, <1>3, <1>4, <1>5 DEF RunnerTypeOK, Receive, Listening, Awaiting, Up, bounds
<1>6. CASE Refused(p)
  BY <1>4, <1>6 DEF RunnerTypeOK, Refused, agentVars, Up, bounds
<1> QED
  BY <1>5, <1>6

LEMMA TurnTyped ==
  ASSUME RunnerTypeOK, NEW a \in Agent, Proceed(a)
  PROVE  RunnerTypeOK'
<1>1. queue[a] \in Seq(Message) /\ requests[a] \in Entries
  BY DEF RunnerTypeOK
<1>2. CASE BeginTurn(a)
  <2>1. Head(queue[a]) \in Message
    BY <1>1, <1>2 DEF BeginTurn
  <2>2. SetAll(requests[a], AsPeers(Head(queue[a]).requests)) \in Entries
    BY <1>1, <2>1, AsPeersIsTable, SetAllIsTable DEF Message
  <2> QED
    BY <1>2, <2>2 DEF RunnerTypeOK, BeginTurn, Up, bounds
<1>3. CASE PushMessage(a)
  <2>1. queue[a] # <<>>
    BY <1>3 DEF PushMessage, RunnerTypeOK
  <2>2. Head(queue[a]).id \in 0..MaxCalls /\ Tail(queue[a]) \in Seq(Message)
    BY <1>1, <2>1, TailMessage DEF Message
  <2>3. Config[a].maxSteps \in Nat /\ 0 < Config[a].maxSteps
    BY RunnerAssumption DEF AgentConfig
  <2> QED
    BY <1>3, <2>2, <2>3 DEF RunnerTypeOK, PushMessage, StepOf, Up, bounds
<1>4. CASE Answer(a)
  BY <1>4 DEF RunnerTypeOK, Answer, Up, bounds
<1>5. CASE Called(a)
  BY <1>5 DEF RunnerTypeOK, Called, Up, bounds
<1>6. CASE StepDone(a)
  BY <1>6 DEF RunnerTypeOK, StepDone, Up, bounds
<1> QED
  BY <1>2, <1>3, <1>4, <1>5, <1>6 DEF Proceed

LEMMA CallToolTyped ==
  ASSUME RunnerTypeOK, NEW a \in Agent, NEW uses \in Entries, NEW phase \in Phase,
         CallTool(a, uses, phase),
         requests' \in [Agent -> Entries], \A b \in Agent : b # a => requests'[b] = requests[b],
         finalized' \in [Agent -> BOOLEAN]
  PROVE  RunnerTypeOK'
<1> DEFINE c == [agent |-> a, id |-> made + 1, uses |-> uses, phase |-> phase, orphan |-> FALSE]
<1>1. /\ made' = made + 1 /\ made' \in 0..MaxCalls /\ made + 1 \in 1..MaxCalls
  BY RunnerAssumption DEF CallTool, RunnerTypeOK
<1>2. c \in Call /\ calls' = calls \cup {c}
  BY <1>1 DEF CallTool, Call
<1>3. turn' = [turn EXCEPT ![a] = "calling"] /\ Up(a)
  BY DEF CallTool, RunnerTypeOK
<1>4. /\ UNCHANGED <<process, queue, history, posts, faults, stops>>
      /\ \A d \in calls' : d \in calls \/ d.agent = a
  BY <1>2 DEF CallTool
<1>8. Config[a].maxSteps \in Nat
  BY RunnerAssumption DEF AgentConfig
<1>5. /\ steps' \in [Agent -> Nat] /\ \A b \in Agent : b # a => steps'[b] = steps[b]
      /\ steps'[a] <= Config[a].maxSteps
  <2>1. CASE turn[a] = "inferring"
    <3>1. steps' = [steps EXCEPT ![a] = @ + 1] /\ steps[a] < Config[a].maxSteps
      BY <2>1 DEF CallTool, RunnerTypeOK
    <3> QED
      BY <3>1, <1>8 DEF RunnerTypeOK
  <2>2. CASE turn[a] # "inferring"
    BY <2>2 DEF CallTool, RunnerTypeOK
  <2> QED
    BY <2>1, <2>2
<1>6. /\ process' \in [Agent -> {"down", "listening", "running"}]
      /\ queue' \in [Agent -> Seq(Message)]
      /\ turn' \in [Agent -> {"idle", "received", "inferring", "calling", "waiting"}]
      /\ history' \in [Agent -> SUBSET (0..MaxCalls)]
      /\ calls' \subseteq Call /\ posts' \subseteq Post
      /\ faults' \in Nat /\ stops' \in Nat /\ faults' + stops' <= MaxFaults
  BY <1>2, <1>3, <1>4 DEF RunnerTypeOK
<1>7. \A b \in Agent :
        /\ turn'[b] = "received" => queue'[b] # <<>>
        /\ steps'[b] <= Config[b].maxSteps
        /\ turn'[b] = "inferring" => steps'[b] < Config[b].maxSteps
        /\ ~Up(b)' => /\ requests'[b] = None /\ queue'[b] = <<>> /\ turn'[b] = "idle"
                      /\ \A d \in calls' : d.agent # b
  BY <1>3, <1>4, <1>5 DEF RunnerTypeOK, Up
<1> QED
  BY <1>1, <1>5, <1>6, <1>7 DEF RunnerTypeOK

(* A tool refers to requests its agent knows, and uses none if it throws.  *)
LEMMA UsesTyped ==
  ASSUME RunnerTypeOK, NEW a \in Agent, NEW aliases, NEW phase \in Phase,
         Uses(a, aliases, phase)
  PROVE  RunnerTypeOK'
<1>1. requests[a] \in Entries /\ UNCHANGED <<requests, finalized>>
  BY DEF RunnerTypeOK, Uses, Rejects
<1>2. PICK uses \in Entries, p \in Phase : CallTool(a, uses, p)
  <2>1. CASE aliases \subseteq Known(a) /\ CallTool(a, Pick(requests[a], aliases), phase)
    BY <1>1, <2>1, PickIsTable DEF Known
  <2>2. CASE CallTool(a, None, "throwing")
    BY <2>2, NoneIsTable DEF Phase
  <2> QED
    BY <2>1, <2>2 DEF Uses, Rejects
<1>3. requests' \in [Agent -> Entries] /\ finalized' \in [Agent -> BOOLEAN]
  BY <1>1 DEF RunnerTypeOK
<1> QED
  BY <1>1, <1>2, <1>3, CallToolTyped

LEMMA RejectsTyped ==
  ASSUME RunnerTypeOK, NEW a \in Agent, Rejects(a)
  PROVE  RunnerTypeOK'
BY NoneIsTable, CallToolTyped DEF RunnerTypeOK, Phase, Rejects

LEMMA RequestTyped ==
  ASSUME RunnerTypeOK, NEW a \in Agent, RequestPayment(a)
  PROVE  RunnerTypeOK'
<1>1. CASE Rejects(a)
  BY <1>1, RejectsTyped
<1>2. ASSUME NEW alias \in FreeAlias(a),
             requests' = [requests EXCEPT ![a] = SetAll(@, NewEntry(a, alias))],
             CallTool(a, NewEntry(a, alias), "guarded"),
             UNCHANGED finalized
      PROVE  RunnerTypeOK'
  <2> DEFINE new == NewEntry(a, alias)
  <2>1. made + 1 \in 1..MaxCalls
    BY <1>2, RunnerAssumption DEF CallTool, RunnerTypeOK
  <2>2. alias \in Alias
    BY <1>2, RunnerAssumption DEF FreeAlias
  <2>3. new \in Entries
    BY <2>1, <2>2, NewEntryIsTable DEF NewEntry
  <2>4. requests[a] \in Entries
    BY DEF RunnerTypeOK
  <2>5. SetAll(requests[a], new) \in Entries
    BY <2>3, <2>4, SetAllIsTable
  <2>6. requests' \in [Agent -> Entries] /\ \A b \in Agent : b # a => requests'[b] = requests[b]
    BY <1>2, <2>5 DEF RunnerTypeOK
  <2> HIDE DEF new
  <2>7. CallTool(a, new, "guarded") /\ finalized' \in [Agent -> BOOLEAN] /\ "guarded" \in Phase
    BY <1>2 DEF RunnerTypeOK, Phase, new
  <2> QED
    BY <2>3, <2>6, <2>7, CallToolTyped
<1> QED
  BY <1>1, <1>2 DEF RequestPayment

LEMMA ToolTyped ==
  ASSUME RunnerTypeOK, NEW a \in Agent, Tools(a)
  PROVE  RunnerTypeOK'
<1>1. /\ {"working", "guarded", "sending", "answered"} \subseteq Phase
      /\ None \in Entries
  BY NoneIsTable DEF Phase
<1>2. CASE GenerateBlinding(a)
  BY <1>1, <1>2, CallToolTyped DEF GenerateBlinding, RunnerTypeOK
<1>3. CASE Finalize(a)
  <2>1. requests' \in [Agent -> Entries] /\ finalized' \in [Agent -> BOOLEAN]
    BY <1>3 DEF Finalize, SetFinalized, RunnerTypeOK
  <2> QED
    BY <1>1, <1>3, <2>1, CallToolTyped DEF Finalize
<1>4. CASE PayRequest(a) \/ CheckRequestStatus(a) \/ ShowBalance(a)
  BY <1>1, <1>4, UsesTyped DEF PayRequest, CheckRequestStatus, ShowBalance
<1>5. CASE EscrowFund(a) \/ EscrowClaim(a)
  BY <1>1, <1>5, UsesTyped, RejectsTyped DEF EscrowFund, EscrowClaim
<1>6. CASE SendPeer(a)
  BY <1>1, <1>6, UsesTyped, RejectsTyped DEF SendPeer
<1> QED
  BY <1>2, <1>3, <1>4, <1>5, <1>6, RequestTyped DEF Tools

(* Tool calls that go on, and calls that fail.                             *)
LEMMA CallOn ==
  ASSUME RunnerTypeOK, NEW c \in calls, NEW phase \in Phase,
         calls' = (calls \ {c}) \cup {[c EXCEPT !.phase = phase]}
  PROVE  /\ calls' \subseteq Call
         /\ \A d \in calls' : \E b \in calls : b.agent = d.agent /\ b.uses = d.uses
<1>1. \A d \in calls : d \in Call
  BY DEF RunnerTypeOK
<1>2. c \in Call
  BY <1>1
<1>3. /\ [c EXCEPT !.phase = phase] \in Call
      /\ [c EXCEPT !.phase = phase].agent = c.agent
      /\ [c EXCEPT !.phase = phase].uses = c.uses
  BY <1>2 DEF Call
<1> QED
  BY <1>1, <1>3

(* A step that only changes calls, ends a turn or counts a failure.         *)
LEMMA CallsTyped ==
  ASSUME RunnerTypeOK, NEW a \in Agent,
         UNCHANGED <<process, requests, queue, steps, finalized, history, made>>,
         turn' = turn \/ turn' = [turn EXCEPT ![a] = "idle"],
         calls' \subseteq Call, posts' \subseteq Post,
         \A c \in calls' : \E d \in calls : d.agent = c.agent,
         faults' \in Nat /\ stops' \in Nat /\ faults' + stops' <= MaxFaults
  PROVE  RunnerTypeOK'
<1>1. /\ turn' \in [Agent -> {"idle", "received", "inferring", "calling", "waiting"}]
      /\ \A b \in Agent : turn'[b] \in {turn[b], "idle"}
  BY DEF RunnerTypeOK
<1>2. \A b \in Agent :
        /\ turn'[b] = "received" => queue'[b] # <<>>
        /\ steps'[b] <= Config[b].maxSteps
        /\ turn'[b] = "inferring" => steps'[b] < Config[b].maxSteps
  BY <1>1 DEF RunnerTypeOK
<1>3. \A b \in Agent :
        ~Up(b)' => requests'[b] = None /\ queue'[b] = <<>> /\ turn'[b] = "idle"
  BY <1>1 DEF RunnerTypeOK, Up
<1>4. \A b \in Agent : ~Up(b)' => \A c \in calls' : c.agent # b
  BY DEF RunnerTypeOK, Up
<1> QED
  BY <1>1, <1>2, <1>3, <1>4 DEF RunnerTypeOK

LEMMA SettleTyped ==
  ASSUME RunnerTypeOK, NEW c \in calls, PostMessage(c) \/ Return(c) \/ Throw(c)
  PROVE  RunnerTypeOK'
<1>1. c \in Call /\ c.agent \in Agent /\ c.id \in 1..MaxCalls /\ c.uses \in Entries
  BY DEF RunnerTypeOK, Call
<1>2. CASE PostMessage(c)
  <2>1. [id |-> c.id, to |-> Config[c.agent].peer, requests |-> c.uses] \in Post
    BY <1>1, RunnerAssumption DEF Post, AgentConfig
  <2>2. /\ calls' \subseteq Call
        /\ \A d \in calls' : \E b \in calls : b.agent = d.agent /\ b.uses = d.uses
    BY <1>2, CallOn DEF PostMessage, Phase
  <2>3. posts' \subseteq Post /\ UNCHANGED <<agentVars, bounds>>
    BY <1>2, <2>1 DEF RunnerTypeOK, PostMessage
  <2> QED
    BY <1>1, <2>2, <2>3, CallsTyped DEF RunnerTypeOK, agentVars, bounds
<1>3. CASE Return(c)
  BY <1>3 DEF RunnerTypeOK, Return, agentVars, bounds, Up
<1>4. CASE Throw(c)
  <2>1. /\ calls' \subseteq Call
        /\ \A d \in calls' : \E b \in calls : b.agent = d.agent /\ b.uses = d.uses
        /\ turn' = turn \/ turn' = [turn EXCEPT ![c.agent] = "idle"]
    <3>1. CASE FailTurn(c.agent)
      BY <1>1, <3>1, FailTurnTyped
    <3>2. CASE calls' = calls \ {c} /\ UNCHANGED turn
      BY <3>2 DEF RunnerTypeOK
    <3> QED
      BY <1>4, <3>1, <3>2 DEF Throw
  <2>2. UNCHANGED <<process, requests, queue, steps, finalized, history, posts, bounds>>
    BY <1>4 DEF Throw
  <2> QED
    BY <1>1, <2>1, <2>2, CallsTyped DEF RunnerTypeOK, bounds
<1> QED
  BY <1>2, <1>3, <1>4

LEMMA FaultTyped ==
  ASSUME RunnerTypeOK, Fault
  PROVE  faults' \in Nat /\ stops' \in Nat /\ faults' + stops' <= MaxFaults
BY RunnerAssumption DEF RunnerTypeOK, Fault

LEMMA FailureTyped ==
  ASSUME RunnerTypeOK,
         \/ \E a \in Agent : InferenceFails(a)
         \/ \E c \in calls : FlowThrows(c) \/ ReplyLost(c)
  PROVE  RunnerTypeOK'
<1>1. ASSUME NEW a \in Agent, InferenceFails(a)
      PROVE  RunnerTypeOK'
  <2>1. /\ FailTurn(a) /\ Fault
        /\ UNCHANGED <<process, requests, queue, steps, finalized, history, posts, made>>
    BY <1>1 DEF InferenceFails
  <2>2. posts' \subseteq Post
    BY <2>1 DEF RunnerTypeOK
  <2> QED
    BY <2>1, <2>2, FailTurnTyped, FaultTyped, CallsTyped
<1>2. ASSUME NEW c \in calls, FlowThrows(c) \/ ReplyLost(c)
      PROVE  RunnerTypeOK'
  <2>1. /\ Fault
        /\ UNCHANGED <<agentVars, posts, made>>
    BY <1>2 DEF FlowThrows, ReplyLost
  <2>2. /\ calls' \subseteq Call
        /\ \A d \in calls' : \E b \in calls : b.agent = d.agent /\ b.uses = d.uses
    <3>1. CASE FlowThrows(c)
      BY <3>1, CallOn DEF FlowThrows, Phase
    <3>2. CASE ReplyLost(c)
      BY <3>2, ResolveTyped DEF ReplyLost, Phase
    <3> QED
      BY <1>2, <3>1, <3>2
  <2>3. posts' \subseteq Post /\ c.agent \in Agent
    BY <2>1 DEF RunnerTypeOK, Call
  <2> QED
    BY <2>1, <2>2, <2>3, FaultTyped, CallsTyped DEF agentVars
<1> QED
  BY <1>1, <1>2

(* A process that is down remembers nothing, a turn that has begun has its *)
(* message at hand, and no turn takes more steps than it may: for every    *)
(* step of the runner (agent.ts, server.ts, tools.ts).                     *)
THEOREM RunnerTypeCorrect == RunnerSpec => []RunnerTypeOK
<1>1. RunnerInit => RunnerTypeOK
  <2>1. None \in Entries /\ <<>> \in Seq(Message)
    BY NoneIsTable
  <2> QED
    BY <2>1, RunnerAssumption DEF RunnerInit, RunnerTypeOK, Up, AgentConfig
<1>2. RunnerTypeOK /\ [RunnerNext]_runnerVars => RunnerTypeOK'
  <2> SUFFICES ASSUME RunnerTypeOK, [RunnerNext]_runnerVars PROVE RunnerTypeOK'
    OBVIOUS
  <2>1. CASE UNCHANGED runnerVars
    BY <2>1 DEF RunnerTypeOK, runnerVars, agentVars, bounds, Up
  <2>2. ASSUME NEW a \in Agent, Boot(a) \/ Kickoff(a) \/ Stop(a) \/ LogFails(a)
        PROVE  RunnerTypeOK'
    BY <2>2, BootTyped, DownTyped
  <2>3. ASSUME NEW a \in Agent, Run(a)
        PROVE  RunnerTypeOK'
    BY <2>3, TurnTyped, SettleTyped, DeliverTyped DEF Run, Settle, Deliver
  <2> QED
    BY <2>1, <2>2, <2>3, ToolTyped, FailureTyped DEF RunnerNext
<1> QED
  BY <1>1, <1>2, PTL DEF RunnerSpec

-----------------------------------------------------------------------------
(* What agents have registered.                                            *)

(* Registered requests change when a process ends, when a turn begins and  *)
(* in requestPayment, for one agent at a time.                             *)
LEMMA RequestsStep ==
  ASSUME RunnerTypeOK, RunnerNext
  PROVE  \/ UNCHANGED <<requests, stops>>
         \/ \E a \in Agent : /\ stops' = stops + 1
                            /\ requests' = [requests EXCEPT ![a] = None]
         \/ \E a \in Agent : BeginTurn(a)
         \/ \E a \in Agent : \E alias \in FreeAlias(a) :
              /\ requests' = [requests EXCEPT ![a] = SetAll(@, NewEntry(a, alias))]
              /\ CallTool(a, NewEntry(a, alias), "guarded")
<1> DEFINE Same == UNCHANGED <<requests, stops>>
<1>1. ASSUME NEW a \in Agent, Boot(a) \/ Kickoff(a) \/ InferenceFails(a)
      PROVE  Same
  BY <1>1 DEF Boot, Kickoff, InferenceFails, Fault, bounds
<1>2. ASSUME NEW a \in Agent, Stop(a) \/ LogFails(a)
      PROVE  stops' = stops + 1 /\ requests' = [requests EXCEPT ![a] = None]
  BY <1>2 DEF Stop, LogFails, Ends, Down, Forget
<1>3. ASSUME NEW a \in Agent, Proceed(a), ~BeginTurn(a)
      PROVE  Same
  BY <1>3 DEF Proceed, PushMessage, Answer, Called, StepDone, bounds
<1>4. ASSUME NEW a \in Agent, Settle(a) \/ Deliver(a)
      PROVE  Same
  BY <1>4 DEF Settle, Deliver, PostMessage, Return, Throw, Receive, Refused, agentVars, bounds
<1>5. ASSUME NEW c \in calls, FlowThrows(c) \/ ReplyLost(c)
      PROVE  Same
  BY <1>5 DEF FlowThrows, ReplyLost, Fault, agentVars
<1>6. ASSUME NEW a \in Agent, Tools(a), ~RequestPayment(a)
      PROVE  Same
  <2>1. CASE GenerateBlinding(a) \/ Finalize(a)
    BY <2>1 DEF GenerateBlinding, Finalize, CallTool
  <2>2. CASE PayRequest(a) \/ ShowBalance(a) \/ CheckRequestStatus(a)
    BY <2>2 DEF PayRequest, ShowBalance, CheckRequestStatus, Uses, Rejects, CallTool
  <2>3. CASE EscrowFund(a) \/ EscrowClaim(a)
    BY <2>3 DEF EscrowFund, EscrowClaim, Uses, Rejects, CallTool
  <2>4. CASE SendPeer(a)
    BY <2>4 DEF SendPeer, Uses, Rejects, CallTool
  <2> QED
    BY <1>6, <2>1, <2>2, <2>3, <2>4 DEF Tools
<1>7. ASSUME NEW a \in Agent, RequestPayment(a)
      PROVE  \/ Same
             \/ \E alias \in FreeAlias(a) :
                  /\ requests' = [requests EXCEPT ![a] = SetAll(@, NewEntry(a, alias))]
                  /\ CallTool(a, NewEntry(a, alias), "guarded")
  <2>1. CASE Rejects(a)
    BY <2>1 DEF Rejects, CallTool
  <2> QED
    BY <1>7, <2>1 DEF RequestPayment
<1> QED
  BY <1>1, <1>2, <1>3, <1>4, <1>5, <1>6, <1>7 DEF RunnerNext, Run

(* An agent's new entry: under an alias it gives, in a table.              *)
LEMMA NewEntryTyped ==
  ASSUME RunnerTypeOK, NEW a \in Agent, NEW alias \in FreeAlias(a), made < MaxCalls
  PROVE  /\ NewEntry(a, alias) \in Entries
         /\ DOMAIN NewEntry(a, alias) = {alias}
         /\ NewEntry(a, alias)[alias].tx.by = a /\ NewEntry(a, alias)[alias].owner = "self"
<1>1. made + 1 \in 1..MaxCalls
  BY RunnerAssumption DEF RunnerTypeOK
<1>2. alias \in Alias
  BY RunnerAssumption DEF FreeAlias
<1>3. NewEntry(a, alias) \in Entries
  BY <1>1, <1>2, NewEntryIsTable DEF NewEntry
<1> QED
  BY <1>3 DEF NewEntry

LEMMA SetAllOwners ==
  ASSUME NEW a, NEW t \in Entries, NEW new \in Entries,
         \A alias \in DOMAIN t : t[alias].owner = "self" => t[alias].tx.by = a,
         \A alias \in DOMAIN new : new[alias].owner = "self" => new[alias].tx.by = a
  PROVE  \A alias \in DOMAIN SetAll(t, new) :
           SetAll(t, new)[alias].owner = "self" => SetAll(t, new)[alias].tx.by = a
<1> SUFFICES ASSUME NEW alias \in DOMAIN SetAll(t, new)
             PROVE  SetAll(t, new)[alias].owner = "self" => SetAll(t, new)[alias].tx.by = a
  OBVIOUS
<1>1. /\ DOMAIN SetAll(t, new) = DOMAIN t \cup DOMAIN new
      /\ \A x \in DOMAIN new : SetAll(t, new)[x] = new[x]
      /\ \A x \in DOMAIN t \ DOMAIN new : SetAll(t, new)[x] = t[x]
  BY SetAllIsTable
<1>2. CASE alias \in DOMAIN new
  BY <1>1, <1>2
<1>3. CASE alias \in DOMAIN t \ DOMAIN new
  BY <1>1, <1>3
<1> QED
  BY <1>1, <1>2, <1>3

LEMMA OwnersKept ==
  ASSUME RunnerTypeOK, OwnersAreRight, RunnerNext
  PROVE  OwnersAreRight'
<1> DEFINE Right(a, t) ==
      \A alias \in DOMAIN t : t[alias].owner = "self" => t[alias].tx.by = a
<1>1. \A a \in Agent : Right(a, requests[a]) /\ requests[a] \in Entries
  BY DEF OwnersAreRight, Known, RunnerTypeOK
<1>2. SUFFICES \A a \in Agent : Right(a, requests'[a])
  BY DEF OwnersAreRight, Known
<1>3. CASE UNCHANGED requests
  BY <1>1, <1>3
<1>4. ASSUME NEW a \in Agent, requests' = [requests EXCEPT ![a] = None]
      PROVE  \A b \in Agent : Right(b, requests'[b])
  BY <1>1, <1>4, NoneIsTable DEF RunnerTypeOK
<1>5. ASSUME NEW a \in Agent, BeginTurn(a)
      PROVE  \A b \in Agent : Right(b, requests'[b])
  <2> DEFINE t == Head(queue[a]).requests
  <2>1. t \in Entries
    <3>1. Head(queue[a]) \in Message
      BY <1>5 DEF BeginTurn, RunnerTypeOK
    <3> QED
      BY <3>1 DEF Message
  <2>2. requests' = [requests EXCEPT ![a] = SetAll(@, AsPeers(t))]
    BY <1>5 DEF BeginTurn
  <2> HIDE DEF t
  <2>3. Right(a, SetAll(requests[a], AsPeers(t)))
    <3>1. AsPeers(t) \in Entries /\ \A alias \in DOMAIN AsPeers(t) : AsPeers(t)[alias].owner = "peer"
      BY <2>1, AsPeersIsTable
    <3> DEFINE new == AsPeers(t)
    <3>2. new \in Entries /\ \A alias \in DOMAIN new : new[alias].owner # "self"
      BY <3>1
    <3>3. requests[a] \in Entries /\ Right(a, requests[a])
      BY <1>1
    <3> HIDE DEF new
    <3>4. \A alias \in DOMAIN new : new[alias].owner = "self" => new[alias].tx.by = a
      BY <3>2
    <3>5. Right(a, SetAll(requests[a], new))
      BY <3>2, <3>3, <3>4, SetAllOwners
    <3> QED
      BY <3>5 DEF new
  <2> QED
    BY <1>1, <2>2, <2>3 DEF RunnerTypeOK
<1>6. ASSUME NEW a \in Agent, NEW alias \in FreeAlias(a),
             requests' = [requests EXCEPT ![a] = SetAll(@, NewEntry(a, alias))],
             CallTool(a, NewEntry(a, alias), "guarded")
      PROVE  \A b \in Agent : Right(b, requests'[b])
  <2>1. /\ NewEntry(a, alias) \in Entries
        /\ \A x \in DOMAIN NewEntry(a, alias) : NewEntry(a, alias)[x].tx.by = a
    <3>1. made < MaxCalls
      BY <1>6 DEF CallTool
    <3>2. /\ NewEntry(a, alias) \in Entries
          /\ DOMAIN NewEntry(a, alias) = {alias}
          /\ NewEntry(a, alias)[alias].tx.by = a
      BY <1>6, <3>1, NewEntryTyped
    <3> QED
      BY <3>2
  <2>2. Right(a, SetAll(requests[a], NewEntry(a, alias)))
    BY <1>1, <2>1, SetAllOwners
  <2> QED
    BY <1>1, <1>6, <2>2 DEF RunnerTypeOK
<1> QED
  BY <1>3, <1>4, <1>5, <1>6, RequestsStep

(* No agent takes a request of another for its own (agent.ts registers     *)
(* what a message attaches as the peer's).                                 *)
THEOREM OwnersCorrect == RunnerSpec => []OwnersAreRight
<1>1. RunnerInit => OwnersAreRight
  BY NoneIsTable DEF RunnerInit, OwnersAreRight, Known
<1>2. RunnerTypeOK /\ OwnersAreRight /\ [RunnerNext]_runnerVars => OwnersAreRight'
  <2>1. CASE UNCHANGED runnerVars
    BY <2>1 DEF OwnersAreRight, Known, runnerVars, agentVars
  <2> QED
    BY <2>1, OwnersKept
<1> QED
  BY <1>1, <1>2, RunnerTypeCorrect, PTL DEF RunnerSpec

-----------------------------------------------------------------------------
(* What aliases mean.                                                      *)

(* By every alias of t the request is meant that the agent which made it   *)
(* has registered under it, in r.                                          *)
Means(t, r) ==
  \A alias \in DOMAIN t :
    LET m == t[alias].tx.by
    IN  /\ m \in Agent /\ alias \in Own[m]
        /\ alias \in DOMAIN r[m] /\ r[m][alias].tx = t[alias].tx

(* The inductive invariant: this holds of every table there is.            *)
AliasInv ==
  OwnAreDisjoint /\ stops = 0 =>
    /\ \A a \in Agent : Means(requests[a], requests)
    /\ \A c \in calls : Means(c.uses, requests)
    /\ \A p \in posts : Means(p.requests, requests)
    /\ \A a \in Agent : \A i \in DOMAIN queue[a] : Means(queue[a][i].requests, requests)

(* No agent forgets or redefines an alias from r to s.                     *)
Keeps(r, s) ==
  \A a \in Agent : \A alias \in DOMAIN r[a] :
    alias \in DOMAIN s[a] /\ s[a][alias].tx = r[a][alias].tx

LEMMA MeansKept ==
  ASSUME NEW t, NEW r, NEW s, Means(t, r), Keeps(r, s)
  PROVE  Means(t, s)
BY DEF Means, Keeps

LEMMA MeansNone == \A r : Means(None, r)
BY NoneIsTable DEF Means

LEMMA MeansPick ==
  ASSUME NEW t \in Entries, NEW aliases, aliases \subseteq DOMAIN t, NEW r, Means(t, r)
  PROVE  Means(Pick(t, aliases), r)
<1>1. /\ DOMAIN Pick(t, aliases) = aliases
      /\ \A alias \in aliases : Pick(t, aliases)[alias] = t[alias]
  BY PickIsTable
<1> QED
  BY <1>1 DEF Means

LEMMA MeansAsPeers ==
  ASSUME NEW t \in Entries, NEW r, Means(t, r)
  PROVE  Means(AsPeers(t), r)
<1>1. /\ DOMAIN AsPeers(t) = DOMAIN t
      /\ \A alias \in DOMAIN t : AsPeers(t)[alias].tx = t[alias].tx
  BY AsPeersIsTable
<1> QED
  BY <1>1 DEF Means

LEMMA MeansSetAll ==
  ASSUME NEW t \in Entries, NEW new \in Entries, NEW r, Means(t, r), Means(new, r)
  PROVE  Means(SetAll(t, new), r)
<1>1. /\ DOMAIN SetAll(t, new) = DOMAIN t \cup DOMAIN new
      /\ \A x \in DOMAIN new : SetAll(t, new)[x] = new[x]
      /\ \A x \in DOMAIN t \ DOMAIN new : SetAll(t, new)[x] = t[x]
  BY SetAllIsTable
<1> QED
  BY <1>1 DEF Means

(* Two tables that mean what r has registered agree.                       *)
LEMMA MeansAgree ==
  ASSUME OwnAreDisjoint, NEW r, NEW s, NEW t, Means(s, r), Means(t, r),
         NEW alias \in DOMAIN s \cap DOMAIN t
  PROVE  s[alias].tx = t[alias].tx
<1>1. s[alias].tx.by = t[alias].tx.by
  BY DEF OwnAreDisjoint, Means
<1> QED
  BY <1>1 DEF Means

(* Registering what a message attaches redefines no alias.                 *)
LEMMA SetAllKeeps ==
  ASSUME OwnAreDisjoint, RunnerTypeOK, NEW a \in Agent, NEW new \in Entries,
         Means(requests[a], requests), Means(new, requests)
  PROVE  Keeps(requests, [requests EXCEPT ![a] = SetAll(@, new)])
<1>1. requests[a] \in Entries
  BY DEF RunnerTypeOK
<1>2. /\ DOMAIN SetAll(requests[a], new) = DOMAIN requests[a] \cup DOMAIN new
      /\ \A x \in DOMAIN new : SetAll(requests[a], new)[x] = new[x]
      /\ \A x \in DOMAIN requests[a] \ DOMAIN new :
            SetAll(requests[a], new)[x] = requests[a][x]
  BY <1>1, SetAllIsTable
<1>3. \A x \in DOMAIN requests[a] \cap DOMAIN new : requests[a][x].tx = new[x].tx
  BY MeansAgree
<1>4. \A x \in DOMAIN requests[a] : SetAll(requests[a], new)[x].tx = requests[a][x].tx
  BY <1>2, <1>3
<1> QED
  BY <1>2, <1>4 DEF Keeps, RunnerTypeOK

(* A new request redefines no alias, since its own is free.                *)
LEMMA NewKeeps ==
  ASSUME RunnerTypeOK, NEW a \in Agent, NEW alias \in FreeAlias(a), made < MaxCalls,
         NEW s, s = [requests EXCEPT ![a] = SetAll(@, NewEntry(a, alias))]
  PROVE  Keeps(requests, s) /\ Means(NewEntry(a, alias), s)
<1>1. /\ NewEntry(a, alias) \in Entries /\ DOMAIN NewEntry(a, alias) = {alias}
      /\ NewEntry(a, alias)[alias].tx.by = a
  BY NewEntryTyped
<1>2. requests[a] \in Entries
  BY DEF RunnerTypeOK
<1>3. /\ DOMAIN SetAll(requests[a], NewEntry(a, alias)) = DOMAIN requests[a] \cup {alias}
      /\ SetAll(requests[a], NewEntry(a, alias))[alias] = NewEntry(a, alias)[alias]
      /\ \A x \in DOMAIN requests[a] \ {alias} :
            SetAll(requests[a], NewEntry(a, alias))[x] = requests[a][x]
  BY <1>1, <1>2, SetAllIsTable
<1>4. alias \in Own[a] /\ alias \notin DOMAIN requests[a]
  BY DEF FreeAlias, Known
<1>5. /\ s[a] = SetAll(requests[a], NewEntry(a, alias))
      /\ \A b \in Agent : b # a => s[b] = requests[b]
  BY DEF RunnerTypeOK
<1> QED
  BY <1>1, <1>3, <1>4, <1>5 DEF Keeps, Means

(* Where a post, a queued message and what a tool call uses come from.     *)
LEMMA PostsStep ==
  ASSUME RunnerTypeOK, RunnerNext
  PROVE  \A p \in posts' : p \in posts \/ \E c \in calls : p.requests = c.uses
<1> DEFINE Old == posts' \subseteq posts
<1>1. ASSUME NEW a \in Agent, Boot(a) \/ Kickoff(a) \/ Stop(a) \/ LogFails(a) \/ InferenceFails(a)
      PROVE  Old
  BY <1>1 DEF Boot, Kickoff, Stop, LogFails, InferenceFails
<1>2. ASSUME NEW a \in Agent, Proceed(a) \/ Deliver(a)
      PROVE  Old
  BY <1>2 DEF Proceed, BeginTurn, PushMessage, Answer, Called, StepDone,
              Deliver, Receive, Refused
<1>3. ASSUME NEW c \in calls, FlowThrows(c) \/ ReplyLost(c) \/ Return(c) \/ Throw(c)
      PROVE  Old
  BY <1>3 DEF FlowThrows, ReplyLost, Return, Throw
<1>4. ASSUME NEW c \in calls, PostMessage(c)
      PROVE  \A p \in posts' : p \in posts \/ p.requests = c.uses
  BY <1>4 DEF PostMessage
<1>5. ASSUME NEW a \in Agent, Tools(a)
      PROVE  Old
  BY <1>5 DEF Tools, GenerateBlinding, RequestPayment, PayRequest, ShowBalance, EscrowFund,
              EscrowClaim, CheckRequestStatus, SendPeer, Finalize, Uses, Rejects, CallTool
<1> QED
  BY <1>1, <1>2, <1>3, <1>4, <1>5 DEF RunnerNext, Run, Settle

(* A step of the runner queues what a post carries, the initial task or    *)
(* nothing.                                                                *)
LEMMA QueueStep ==
  ASSUME RunnerTypeOK, RunnerNext, NEW a \in Agent, NEW i \in DOMAIN queue'[a]
  PROVE  \/ \E j \in DOMAIN queue[a] : queue[a][j] = queue'[a][i]
         \/ queue'[a][i] = InitialTask
         \/ /\ ~finalized[a]
            /\ \E p \in posts : queue'[a][i].requests = p.requests
<1> DEFINE Old == \E j \in DOMAIN queue[a] : queue[a][j] = queue'[a][i]
<1>0. queue \in [Agent -> Seq(Message)]
  BY DEF RunnerTypeOK
<1>1. CASE UNCHANGED queue
  BY <1>1
<1>2. ASSUME NEW b \in Agent, Kickoff(b)
      PROVE  Old \/ queue'[a][i] = InitialTask
  <2>1. InitialTask \in Message
    BY NoneIsTable, RunnerAssumption DEF InitialTask, Message
  <2>2. CASE b = a /\ Config[b].initialTask
    <3>1. queue'[a] = Append(queue[a], InitialTask)
      BY <1>0, <1>2, <2>2 DEF Kickoff
    <3> QED
      BY <1>0, <2>1, <3>1, AppendMessage
  <2>3. CASE ~(b = a /\ Config[b].initialTask)
    BY <1>0, <1>2, <2>3 DEF Kickoff
  <2> QED
    BY <2>2, <2>3
<1>3. ASSUME NEW b \in Agent, Stop(b) \/ LogFails(b)
      PROVE  Old
  <2>1. queue' = [queue EXCEPT ![b] = <<>>]
    BY <1>3 DEF Stop, LogFails, Down, Forget
  <2>2. DOMAIN << >> = {}
    OBVIOUS
  <2> QED
    BY <1>0, <2>1, <2>2
<1>4. ASSUME NEW b \in Agent, PushMessage(b)
      PROVE  Old
  <2>1. CASE b = a
    <3>1. queue[a] # <<>> /\ queue'[a] = Tail(queue[a])
      BY <1>0, <1>4, <2>1 DEF PushMessage, RunnerTypeOK
    <3> QED
      BY <1>0, <3>1, TailMessage
  <2>2. CASE b # a
    BY <1>0, <1>4, <2>2 DEF PushMessage
  <2> QED
    BY <2>1, <2>2
<1>5. ASSUME NEW p \in posts, Receive(p)
      PROVE  Old \/ (~finalized[a] /\ queue'[a][i].requests = p.requests)
  <2>1. CASE p.to = a /\ ~finalized[a]
    <3> DEFINE m == [id |-> p.id, requests |-> p.requests]
    <3>1. m \in Message
      BY RunnerAssumption DEF RunnerTypeOK, Post, Message
    <3>2. queue'[a] = Append(queue[a], m)
      BY <1>0, <1>5, <2>1 DEF Receive, Accepts
    <3>3. m.requests = p.requests
      OBVIOUS
    <3> HIDE DEF m
    <3> QED
      BY <1>0, <2>1, <3>1, <3>2, <3>3, AppendMessage
  <2>2. CASE ~(p.to = a /\ ~finalized[a])
    BY <1>0, <1>5, <2>2 DEF Receive, Accepts
  <2> QED
    BY <2>1, <2>2
<1>6. ASSUME NEW b \in Agent, Boot(b) \/ InferenceFails(b) \/ Tools(b)
      PROVE  UNCHANGED queue
  BY <1>6 DEF Boot, InferenceFails, Tools, GenerateBlinding, RequestPayment, PayRequest,
              ShowBalance, EscrowFund, EscrowClaim, CheckRequestStatus, SendPeer, Finalize,
              Uses, Rejects, CallTool
<1>7. ASSUME NEW b \in Agent, Proceed(b), ~PushMessage(b)
      PROVE  UNCHANGED queue
  BY <1>7 DEF Proceed, BeginTurn, Answer, Called, StepDone
<1>8. ASSUME NEW c \in calls, \/ FlowThrows(c) \/ ReplyLost(c)
                              \/ PostMessage(c) \/ Return(c) \/ Throw(c)
      PROVE  UNCHANGED queue
  BY <1>8 DEF FlowThrows, ReplyLost, PostMessage, Return, Throw, agentVars
<1>9. ASSUME NEW p \in posts, Refused(p)
      PROVE  UNCHANGED queue
  BY <1>9 DEF Refused, agentVars
<1> QED
  BY <1>1, <1>2, <1>3, <1>4, <1>5, <1>6, <1>7, <1>8, <1>9 DEF RunnerNext, Run, Settle, Deliver

LEMMA CallsStep ==
  ASSUME RunnerTypeOK, RunnerNext, NEW c \in calls'
  PROVE  \/ \E d \in calls : d.uses = c.uses
         \/ c.uses = None
         \/ \E a \in Agent : \E aliases \in SUBSET DOMAIN requests[a] :
              c.uses = Pick(requests[a], aliases)
         \/ \E a \in Agent : \E alias \in FreeAlias(a) :
              /\ made < MaxCalls
              /\ requests' = [requests EXCEPT ![a] = SetAll(@, NewEntry(a, alias))]
              /\ c.uses = NewEntry(a, alias)
<1> DEFINE Old == \E d \in calls : d.uses = c.uses
<1>1. ASSUME NEW a \in Agent, NEW uses, NEW phase, CallTool(a, uses, phase)
      PROVE  Old \/ c.uses = uses
  BY <1>1 DEF CallTool
<1>2. ASSUME NEW a \in Agent, NEW aliases, NEW phase, Uses(a, aliases, phase)
      PROVE  Old \/ c.uses = None \/ ( /\ aliases \subseteq DOMAIN requests[a]
                                      /\ c.uses = Pick(requests[a], aliases) )
  BY <1>1, <1>2 DEF Uses, Rejects, Known
<1>3. ASSUME NEW a \in Agent, Tools(a), ~RequestPayment(a)
      PROVE  \/ Old \/ c.uses = None
             \/ \E aliases \in SUBSET DOMAIN requests[a] : c.uses = Pick(requests[a], aliases)
  <2>1. CASE GenerateBlinding(a) \/ Finalize(a)
    BY <1>1, <2>1 DEF GenerateBlinding, Finalize
  <2>2. CASE PayRequest(a) \/ ShowBalance(a) \/ CheckRequestStatus(a)
    BY <1>2, <2>2 DEF PayRequest, ShowBalance, CheckRequestStatus
  <2>3. CASE EscrowFund(a) \/ EscrowClaim(a)
    BY <1>1, <1>2, <2>3 DEF EscrowFund, EscrowClaim, Rejects
  <2>4. CASE SendPeer(a)
    BY <1>1, <1>2, <2>4 DEF SendPeer, Rejects
  <2> QED
    BY <1>3, <2>1, <2>2, <2>3, <2>4 DEF Tools
<1>4. ASSUME NEW a \in Agent, RequestPayment(a)
      PROVE  \/ Old \/ c.uses = None
             \/ \E alias \in FreeAlias(a) :
                  /\ made < MaxCalls
                  /\ requests' = [requests EXCEPT ![a] = SetAll(@, NewEntry(a, alias))]
                  /\ c.uses = NewEntry(a, alias)
  <2>1. CASE CallTool(a, None, "throwing")
    BY <1>1, <2>1
  <2>2. ASSUME NEW alias \in FreeAlias(a),
               requests' = [requests EXCEPT ![a] = SetAll(@, NewEntry(a, alias))],
               CallTool(a, NewEntry(a, alias), "guarded")
        PROVE  Old \/ (made < MaxCalls /\ c.uses = NewEntry(a, alias))
    <3>1. made < MaxCalls
      BY <2>2 DEF CallTool
    <3> QED
      BY <1>1, <2>2, <3>1
  <2> QED
    BY <1>4, <2>1, <2>2 DEF RequestPayment, Rejects
<1>5. ASSUME NEW a \in Agent, Boot(a) \/ Kickoff(a) \/ Stop(a) \/ LogFails(a) \/ Proceed(a)
      PROVE  Old
  BY <1>5 DEF Boot, Kickoff, Stop, LogFails, Down, Proceed, BeginTurn, PushMessage, Answer,
              Called, StepDone
<1>6. ASSUME NEW a \in Agent, InferenceFails(a)
      PROVE  Old
  BY <1>6, FailTurnTyped DEF InferenceFails
<1>7. ASSUME NEW p \in posts, Receive(p) \/ Refused(p)
      PROVE  Old
  BY <1>7, ResolveTyped DEF Receive, Refused, Phase
<1>8. ASSUME NEW d \in calls, PostMessage(d) \/ Return(d) \/ FlowThrows(d)
      PROVE  Old
  BY <1>8, CallOn DEF PostMessage, Return, FlowThrows, Phase
<1>9. ASSUME NEW d \in calls, Throw(d) \/ ReplyLost(d)
      PROVE  Old
  <2>1. d.agent \in Agent
    BY DEF RunnerTypeOK, Call
  <2> QED
    BY <1>9, <2>1, FailTurnTyped, ResolveTyped DEF Throw, ReplyLost, Phase
<1> QED
  BY <1>3, <1>4, <1>5, <1>6, <1>7, <1>8, <1>9 DEF RunnerNext, Run, Settle, Deliver

(* As long as nobody forgets, nothing registered is redefined, and what is *)
(* registered means what it should.                                        *)
LEMMA RequestsKept ==
  ASSUME RunnerTypeOK, AliasInv, OwnAreDisjoint, stops = 0, RunnerNext, stops' = 0
  PROVE  /\ Keeps(requests, requests')
         /\ \A a \in Agent : Means(requests'[a], requests')
<1>1. /\ requests \in [Agent -> Entries]
      /\ \A a \in Agent : Means(requests[a], requests)
      /\ \A a \in Agent : \A i \in DOMAIN queue[a] : Means(queue[a][i].requests, requests)
  BY DEF RunnerTypeOK, AliasInv
<1>2. CASE UNCHANGED requests
  BY <1>1, <1>2 DEF Keeps
<1>3. ASSUME NEW a \in Agent, BeginTurn(a)
      PROVE  /\ Keeps(requests, requests')
             /\ \A b \in Agent : Means(requests'[b], requests')
  <2> DEFINE t == Head(queue[a]).requests
  <2>1. t \in Entries /\ Means(t, requests)
    <3>1. queue[a] # <<>> /\ queue[a] \in Seq(Message)
      BY <1>3 DEF BeginTurn, RunnerTypeOK
    <3>2. Head(queue[a]) \in Message /\ 1 \in DOMAIN queue[a] /\ Head(queue[a]) = queue[a][1]
      BY <3>1, TailMessage
    <3> QED
      BY <1>1, <3>2 DEF Message
  <2>2. requests' = [requests EXCEPT ![a] = SetAll(@, AsPeers(t))]
    BY <1>3 DEF BeginTurn
  <2> HIDE DEF t
  <2>3. AsPeers(t) \in Entries /\ Means(AsPeers(t), requests)
    BY <2>1, AsPeersIsTable, MeansAsPeers
  <2>4. Keeps(requests, requests')
    BY <1>1, <2>2, <2>3, SetAllKeeps
  <2>5. Means(SetAll(requests[a], AsPeers(t)), requests)
    BY <1>1, <2>3, MeansSetAll
  <2>6. \A b \in Agent : Means(requests'[b], requests)
    BY <1>1, <2>2, <2>5
  <2> QED
    BY <2>4, <2>6, MeansKept
<1>4. ASSUME NEW a \in Agent, NEW alias \in FreeAlias(a),
             requests' = [requests EXCEPT ![a] = SetAll(@, NewEntry(a, alias))],
             CallTool(a, NewEntry(a, alias), "guarded")
      PROVE  /\ Keeps(requests, requests')
             /\ \A b \in Agent : Means(requests'[b], requests')
  <2>1. made < MaxCalls
    BY <1>4 DEF CallTool
  <2>2. Keeps(requests, requests') /\ Means(NewEntry(a, alias), requests')
    BY <1>4, <2>1, NewKeeps
  <2>3. NewEntry(a, alias) \in Entries
    BY <2>1, NewEntryTyped
  <2>4. \A b \in Agent : Means(requests[b], requests')
    BY <1>1, <2>2, MeansKept
  <2>5. Means(SetAll(requests[a], NewEntry(a, alias)), requests')
    BY <1>1, <2>2, <2>3, <2>4, MeansSetAll
  <2>6. \A b \in Agent : requests'[b] = IF b = a THEN SetAll(requests[a], NewEntry(a, alias))
                                               ELSE requests[b]
    BY <1>1, <1>4
  <2> QED
    BY <2>2, <2>4, <2>5, <2>6
<1> QED
  BY <1>2, <1>3, <1>4, RequestsStep

LEMMA AliasKept ==
  ASSUME RunnerTypeOK, AliasInv, RunnerNext
  PROVE  AliasInv'
<1> SUFFICES ASSUME OwnAreDisjoint, stops' = 0
             PROVE  /\ \A a \in Agent : Means(requests'[a], requests')
                    /\ \A c \in calls' : Means(c.uses, requests')
                    /\ \A p \in posts' : Means(p.requests, requests')
                    /\ \A a \in Agent : \A i \in DOMAIN queue'[a] :
                         Means(queue'[a][i].requests, requests')
  BY DEF AliasInv, OwnAreDisjoint
<1>1. stops = 0
  <2>1. stops \in Nat /\ stops' \in {stops, stops + 1}
    BY RequestsStep DEF RunnerTypeOK, BeginTurn, CallTool, bounds
  <2> QED
    BY <2>1
<1>2. /\ Keeps(requests, requests')
      /\ \A a \in Agent : Means(requests'[a], requests')
  BY <1>1, RequestsKept
<1>3. /\ requests \in [Agent -> Entries]
      /\ \A a \in Agent : Means(requests[a], requests')
      /\ \A c \in calls : Means(c.uses, requests')
      /\ \A p \in posts : Means(p.requests, requests')
      /\ \A a \in Agent : \A i \in DOMAIN queue[a] : Means(queue[a][i].requests, requests')
  BY <1>1, <1>2, MeansKept DEF AliasInv, RunnerTypeOK
<1>4. ASSUME NEW c \in calls'
      PROVE  Means(c.uses, requests')
  <2>1. CASE \E d \in calls : d.uses = c.uses
    BY <1>3, <2>1
  <2>2. CASE c.uses = None
    BY <2>2, MeansNone
  <2>3. ASSUME NEW a \in Agent, NEW aliases \in SUBSET DOMAIN requests[a],
               c.uses = Pick(requests[a], aliases)
        PROVE  Means(c.uses, requests')
    BY <1>3, <2>3, MeansPick
  <2>4. ASSUME NEW a \in Agent, NEW alias \in FreeAlias(a), made < MaxCalls,
               requests' = [requests EXCEPT ![a] = SetAll(@, NewEntry(a, alias))],
               c.uses = NewEntry(a, alias)
        PROVE  Means(c.uses, requests')
    BY <2>4, NewKeeps
  <2> QED
    BY <2>1, <2>2, <2>3, <2>4, CallsStep
<1>5. \A p \in posts' : Means(p.requests, requests')
  BY <1>3, PostsStep
<1>6. ASSUME NEW a \in Agent, NEW i \in DOMAIN queue'[a]
      PROVE  Means(queue'[a][i].requests, requests')
  <2>1. Means(InitialTask.requests, requests')
    BY MeansNone DEF InitialTask
  <2> QED
    BY <1>3, <2>1, QueueStep
<1> QED
  BY <1>2, <1>4, <1>5, <1>6

(* Agents that name their own requests differently mean one request by an  *)
(* alias, in what they have registered, in what their tools (tools.ts) use *)
(* and in what waits or is on its way (server.ts, peer.ts), as long as no  *)
(* process ends and forgets.                                               *)
THEOREM AliasesCorrect == RunnerSpec => []AliasesAgree
<1>1. RunnerInit => AliasInv
  BY MeansNone DEF RunnerInit, AliasInv
<1>2. RunnerTypeOK /\ AliasInv /\ [RunnerNext]_runnerVars => AliasInv'
  <2>1. CASE UNCHANGED runnerVars
    BY <2>1 DEF AliasInv, OwnAreDisjoint, runnerVars, agentVars, bounds
  <2> QED
    BY <2>1, AliasKept
<1>3. AliasInv => AliasesAgree
  <2> SUFFICES ASSUME AliasInv, OwnAreDisjoint, stops = 0,
                      NEW s \in Tables, NEW t \in Tables,
                      NEW alias \in DOMAIN s \cap DOMAIN t
               PROVE  s[alias].tx = t[alias].tx
    BY DEF AliasesAgree
  <2>1. \A u \in Tables : Means(u, requests)
    BY DEF Tables, AliasInv
  <2> QED
    BY <2>1, MeansAgree
<1> QED
  BY <1>1, <1>2, <1>3, RunnerTypeCorrect, PTL DEF RunnerSpec

-----------------------------------------------------------------------------
(* Agents that have finalized.                                             *)

LEMMA RetiredStays ==
  ASSUME RunnerTypeOK, RunnerNext, NEW a \in Agent, Retired(a), process'[a] # "down"
  PROVE  Retired(a)'
<1>1. /\ finalized \in [Agent -> BOOLEAN] /\ finalized[a] = TRUE
      /\ turn \in [Agent -> {"idle", "received", "inferring", "calling", "waiting"}]
      /\ turn[a] \in {"idle", "received"}
      /\ process \in [Agent -> {"down", "listening", "running"}]
  BY DEF Retired, RunnerTypeOK
<1>2. SUFFICES finalized'[a] = TRUE /\ turn'[a] \in {"idle", "received"}
  BY DEF Retired
<1>3. ASSUME NEW b \in Agent, Boot(b) \/ Kickoff(b)
      PROVE  finalized'[a] = TRUE /\ turn'[a] \in {"idle", "received"}
  BY <1>1, <1>3 DEF Boot, Kickoff
<1>4. ASSUME NEW b \in Agent, Stop(b) \/ LogFails(b)
      PROVE  finalized'[a] = TRUE /\ turn'[a] \in {"idle", "received"}
  <2>1. Forget(b)
    BY <1>4 DEF Stop, LogFails, Down
  <2>2. b # a
    BY <1>1, <2>1 DEF Forget
  <2> QED
    BY <1>1, <2>1, <2>2 DEF Forget
<1>5. ASSUME NEW b \in Agent, Proceed(b)
      PROVE  finalized'[a] = TRUE /\ turn'[a] \in {"idle", "received"}
  <2>1. CASE BeginTurn(b)
    BY <1>1, <2>1 DEF BeginTurn
  <2>2. CASE PushMessage(b)
    BY <1>1, <2>2 DEF PushMessage, StepOf
  <2>3. CASE Answer(b) \/ Called(b)
    BY <1>1, <2>3 DEF Answer, Called
  <2>4. CASE StepDone(b)
    BY <1>1, <2>4 DEF StepDone
  <2> QED
    BY <1>5, <2>1, <2>2, <2>3, <2>4 DEF Proceed
<1>6. ASSUME NEW b \in Agent, NEW uses, NEW phase, CallTool(b, uses, phase)
      PROVE  b # a /\ turn'[a] \in {"idle", "received"}
  BY <1>1, <1>6 DEF CallTool
<1>7. ASSUME NEW b \in Agent, Tools(b)
      PROVE  finalized'[a] = TRUE /\ turn'[a] \in {"idle", "received"}
  <2>1. CASE Finalize(b)
    BY <1>1, <1>6, <2>1 DEF Finalize, SetFinalized
  <2>2. CASE GenerateBlinding(b) \/ RequestPayment(b)
    BY <1>1, <1>6, <2>2 DEF GenerateBlinding, RequestPayment, Rejects
  <2>3. ASSUME NEW aliases, NEW phase, Uses(b, aliases, phase)
        PROVE  finalized'[a] = TRUE /\ turn'[a] \in {"idle", "received"}
    BY <1>1, <1>6, <2>3 DEF Uses, Rejects
  <2> QED
    BY <1>1, <1>6, <1>7, <2>1, <2>2, <2>3 DEF Tools, PayRequest, ShowBalance, EscrowFund,
         EscrowClaim, CheckRequestStatus, SendPeer, Rejects
<1>8. ASSUME NEW c \in calls, \/ FlowThrows(c) \/ ReplyLost(c)
                              \/ PostMessage(c) \/ Return(c) \/ Throw(c)
      PROVE  finalized'[a] = TRUE /\ turn'[a] \in {"idle", "received"}
  <2>1. CASE Throw(c)
    BY <1>1, <2>1 DEF Throw, FailTurn
  <2> QED
    BY <1>1, <1>8, <2>1 DEF FlowThrows, ReplyLost, PostMessage, Return, agentVars
<1>9. ASSUME NEW p \in posts, Receive(p) \/ Refused(p)
      PROVE  finalized'[a] = TRUE /\ turn'[a] \in {"idle", "received"}
  BY <1>1, <1>9 DEF Receive, Refused, agentVars
<1>10. ASSUME NEW b \in Agent, InferenceFails(b)
       PROVE  finalized'[a] = TRUE /\ turn'[a] \in {"idle", "received"}
  BY <1>1, <1>10 DEF InferenceFails, FailTurn
<1> QED
  BY <1>3, <1>4, <1>5, <1>7, <1>8, <1>9, <1>10 DEF RunnerNext, Run, Settle, Deliver

(* An agent that has finalized, once its turn is over, begins no other and *)
(* queues nothing but its initial task, which a log entry holds up         *)
(* (server.ts answers, agent.ts returns).                                  *)
THEOREM FinalizedQuiet == RunnerSpec => FinalizedStaysQuiet
<1> DEFINE Quiet(a) ==
      Retired(a) /\ process'[a] # "down" =>
        /\ Retired(a)'
        /\ \A i \in DOMAIN queue'[a] :
             queue'[a][i].id = 0 \/ \E j \in DOMAIN queue[a] : queue[a][j] = queue'[a][i]
<1>1. RunnerTypeOK /\ [RunnerNext]_runnerVars => [\A a \in Agent : Quiet(a)]_runnerVars
  <2>1. SUFFICES ASSUME RunnerTypeOK, RunnerNext, NEW a \in Agent,
                        Retired(a), process'[a] # "down"
                 PROVE  /\ Retired(a)'
                        /\ \A i \in DOMAIN queue'[a] :
                             queue'[a][i].id = 0 \/ \E j \in DOMAIN queue[a] : queue[a][j] = queue'[a][i]
    OBVIOUS
  <2>2. Retired(a)'
    BY <2>1, RetiredStays
  <2>3. finalized[a] /\ InitialTask.id = 0
    BY <2>1 DEF Retired, InitialTask
  <2> QED
    BY <2>1, <2>2, <2>3, QueueStep
<1> QED
  BY <1>1, RunnerTypeCorrect, PTL DEF RunnerSpec, FinalizedStaysQuiet
=============================================================================
