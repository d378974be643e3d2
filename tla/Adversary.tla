----------------------------- MODULE Adversary -----------------------------
(***************************************************************************)
(* The fault injector, src/rainman/agents/adversary_agent.py: it polls     *)
(* /health of one node after the other, asks a language model for a fault, *)
(* and carries it out with docker or over HTTP.  The cluster is reduced to *)
(* what a poll shows of it: which nodes answer, and which of them say they *)
(* are leader.  It moves on between any two steps of the agent, during the *)
(* polls and during the model's answer.                                    *)
(*                                                                         *)
(* The model may answer anything at all.  What a fault does inside a node  *)
(* is modelled in Election.tla and Cluster.tla (crash, restart, lost and   *)
(* late calls, delay) and in WAL.tla (CORRUPT_WAL).                        *)
(***************************************************************************)
EXTENDS Integers, FiniteSets, Sequences

CONSTANTS
  NodeOrder,  \* the nodes, in the order of config/cluster.json
  NoNode,     \* JSON null as a target
  Unknown     \* any other text as an action or as a target

Node == {NodeOrder[i] : i \in DOMAIN NodeOrder}

ASSUME OrderAssumption ==
  /\ NodeOrder \in Seq(Node)
  /\ Len(NodeOrder) >= 2
  /\ \A i, j \in DOMAIN NodeOrder : NodeOrder[i] = NodeOrder[j] => i = j
  /\ {NoNode, Unknown} \cap Node = {} /\ NoNode # Unknown

VARIABLES
  dead,       \* nodes without a running process
  paused,     \* nodes whose container is frozen
  cut,        \* nodes disconnected from rainman_net
  slow,       \* nodes with an injected delay
  leaders,    \* nodes whose _role is "leader", also frozen or isolated ones
  pc,         \* where the agent is; "stopped" once run has ended
  next,       \* the position of the node polled next
  snapshots,  \* what the current poll has seen
  recent      \* was the last fault less than min_fault_interval_s ago

nodeVars == <<dead, paused, cut, slow, leaders>>
agentVars == <<pc, next, snapshots, recent>>
vars == <<nodeVars, agentVars>>

-----------------------------------------------------------------------------
\* A node that serves HTTP, to the agent and to its peers.
Answering == Node \ (dead \cup paused \cup cut)

\* A round of polls starts from an empty list.
NothingSeen == [n \in Node |-> "unreachable"]
KeepsLastRound == snapshots
RoundStart == NothingSeen

Reachable == {n \in Node : snapshots[n] # "unreachable"}

\* _is_safe_to_inject; the 2 is in the code.
SafeCount == 2
AnyLeaderSeen == \E n \in Reachable : snapshots[n] = "leader"
CountsAllSnapshots == AnyLeaderSeen /\ Cardinality(Node) >= SafeCount
SafeToInject == AnyLeaderSeen /\ Cardinality(Reachable) >= SafeCount

\* _parse_decision.
Faults == {"KILL_NODE", "RESTART_NODE", "PAUSE_NODE", "RESUME_NODE",
           "PARTITION_NODE", "HEAL_PARTITION", "INJECT_DELAY", "CLEAR_DELAY",
           "CORRUPT_WAL"}
NoAction == [action |-> "no_action", target |-> NoNode]
Answers == [action : Faults \cup {"no_action", Unknown},
            target : Node \cup {NoNode, Unknown}]
AcceptsAnyTarget(answer) ==
  IF answer.action = Unknown THEN NoAction ELSE answer
ParseDecision(answer) ==
  IF answer.action = Unknown \/ answer.target = Unknown THEN NoAction ELSE answer

-----------------------------------------------------------------------------
Init ==
  /\ dead = {} /\ paused = {} /\ cut = {} /\ slow = {} /\ leaders = {}
  /\ pc = "poll" /\ next = 1 /\ snapshots = NothingSeen
  /\ recent = FALSE

(* The cluster goes on by itself: a node that reaches a majority may win   *)
(* an election, and a leader that hears of a later term steps down.        *)
BecomesLeader(n) ==
  /\ n \in Answering /\ 2 * Cardinality(Answering) > Cardinality(Node)
  /\ leaders' = leaders \cup {n}
  /\ UNCHANGED <<dead, paused, cut, slow, agentVars>>

StepsDown(n) ==
  /\ n \in leaders \cap Answering
  /\ \E p \in Answering : p # n
  /\ leaders' = leaders \ {n}
  /\ UNCHANGED <<dead, paused, cut, slow, agentVars>>

-----------------------------------------------------------------------------
\* _poll_cluster: GET /health of one node; a node that answers may still be
\* taken for unreachable when the answer is lost or late.
PollNode ==
  /\ pc = "poll" /\ next \in DOMAIN NodeOrder
  /\ LET n == NodeOrder[next]
         seen == IF n \in leaders THEN "leader" ELSE "follower"
     IN  \/ /\ n \in Answering
            /\ snapshots' = [snapshots EXCEPT ![n] = seen]
         \/ UNCHANGED snapshots
  /\ next' = next + 1
  /\ UNCHANGED <<nodeVars, pc, recent>>

\* The two checks of run, in its order, once every node has been polled.
Check ==
  /\ pc = "poll" /\ next \notin DOMAIN NodeOrder
  /\ pc' = IF SafeToInject /\ ~recent THEN "decide" ELSE "wait"
  /\ UNCHANGED <<nodeVars, next, snapshots, recent>>

\* The sleep of poll_interval_s is over, and the next round begins.
NextRound ==
  /\ pc = "wait" /\ pc' = "poll"
  /\ next' = 1 /\ snapshots' = RoundStart
  /\ UNCHANGED <<nodeVars, recent>>

\* min_fault_interval_s has passed.
IntervalPasses ==
  /\ recent /\ recent' = FALSE
  /\ UNCHANGED <<nodeVars, pc, next, snapshots>>

-----------------------------------------------------------------------------
\* What each executor does to its target t.  CORRUPT_WAL changes no state a
\* poll can see.
Kill(t) ==
  /\ dead' = dead \cup {t} /\ paused' = paused \ {t}
  /\ slow' = slow \ {t} /\ leaders' = leaders \ {t}
  /\ UNCHANGED cut
RestartNode(t) ==
  /\ dead' = dead \ {t} /\ paused' = paused \ {t}
  /\ slow' = slow \ {t} /\ leaders' = leaders \ {t}
  /\ UNCHANGED cut
Pause(t) ==
  /\ t \notin dead /\ paused' = paused \cup {t}
  /\ UNCHANGED <<dead, cut, slow, leaders>>
Resume(t) ==
  /\ t \in paused /\ paused' = paused \ {t}
  /\ UNCHANGED <<dead, cut, slow, leaders>>
Partition(t) ==
  /\ t \notin cut /\ cut' = cut \cup {t}
  /\ UNCHANGED <<dead, paused, slow, leaders>>
Heal(t) ==
  /\ t \in cut /\ cut' = cut \ {t}
  /\ UNCHANGED <<dead, paused, slow, leaders>>
SetDelay(t, on) ==
  /\ t \in Answering
  /\ slow' = IF on THEN slow \cup {t} ELSE slow \ {t}
  /\ UNCHANGED <<dead, paused, cut, leaders>>

Effect(action, t) ==
  \/ action = "KILL_NODE"      /\ Kill(t)
  \/ action = "RESTART_NODE"   /\ RestartNode(t)
  \/ action = "PAUSE_NODE"     /\ Pause(t)
  \/ action = "RESUME_NODE"    /\ Resume(t)
  \/ action = "PARTITION_NODE" /\ Partition(t)
  \/ action = "HEAL_PARTITION" /\ Heal(t)
  \/ action = "INJECT_DELAY"   /\ SetDelay(t, TRUE)
  \/ action = "CLEAR_DELAY"    /\ SetDelay(t, FALSE)
  \/ action = "CORRUPT_WAL"    /\ UNCHANGED nodeVars

\* The model's answer arrives, or Ollama is unavailable: nothing to do.
DecideNothing ==
  /\ pc = "decide" /\ pc' = "wait"
  /\ UNCHANGED <<nodeVars, next, snapshots, recent>>

\* The executor reports success; only then the interval starts.
Inject(answer) ==
  LET d == ParseDecision(answer) IN
  /\ pc = "decide" /\ d.target # NoNode
  /\ Effect(d.action, d.target)
  /\ pc' = "wait" /\ recent' = TRUE
  /\ UNCHANGED <<next, snapshots>>

\* docker returns an error, or the HTTP call fails.
InjectFails(answer) ==
  LET d == ParseDecision(answer) IN
  /\ pc = "decide" /\ d.action # "no_action" /\ d.target # NoNode
  /\ pc' = "wait"
  /\ UNCHANGED <<nodeVars, next, snapshots, recent>>

(* An executor raises, and run ends: a null target is a TypeError in every *)
(* one of them, and a docker command that takes more than ten seconds is a *)
(* TimeoutExpired, with or without its effect.                             *)
UsesDocker(action) ==
  action \notin {"INJECT_DELAY", "CLEAR_DELAY", "CORRUPT_WAL"}
AgentDies(answer) ==
  LET d == ParseDecision(answer) IN
  /\ pc = "decide" /\ d.action # "no_action"
  /\ \/ d.target = NoNode /\ UNCHANGED nodeVars
     \/ /\ d.target # NoNode /\ UsesDocker(d.action)
        /\ Effect(d.action, d.target) \/ UNCHANGED nodeVars
  /\ pc' = "stopped"
  /\ UNCHANGED <<next, snapshots, recent>>

-----------------------------------------------------------------------------
Next ==
  \/ \E n \in Node : BecomesLeader(n) \/ StepsDown(n)
  \/ PollNode \/ Check \/ NextRound \/ IntervalPasses \/ DecideNothing
  \/ \E answer \in Answers :
       Inject(answer) \/ InjectFails(answer) \/ AgentDies(answer)

Spec == Init /\ [][Next]_vars

-----------------------------------------------------------------------------
\* The types of the variables.
TypeOK ==
  /\ dead \subseteq Node /\ paused \subseteq Node /\ cut \subseteq Node
  /\ slow \subseteq Node /\ leaders \subseteq Node
  /\ pc \in {"poll", "decide", "wait", "stopped"}
  /\ next \in 1 .. Len(NodeOrder) + 1
  /\ snapshots \in [Node -> {"leader", "follower", "unreachable"}]
  /\ recent \in BOOLEAN

(* However long the model thinks about a poll that is out of date by then, *)
(* and whatever it answers, the agent never takes the last node away       *)
(* (_is_safe_to_inject, "at least 2 of 3 nodes reachable").                *)
SomeNodeAnswers == Answering # {}

(* The check that keeps faults from a damaged cluster keeps repairs from   *)
(* it as well: once fewer than two nodes answer, the agent never again     *)
(* restarts, resumes or reconnects one (adversary_agent.py:456).           *)
DamageIsFinal ==
  [][Cardinality(Answering) < SafeCount =>
       UNCHANGED <<dead, paused, cut, slow>>]_vars
=============================================================================
