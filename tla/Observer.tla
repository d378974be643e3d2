------------------------------ MODULE Observer ------------------------------
(***************************************************************************)
(* The consistency observer (src/rainman/agents/recovery_agent.py) beside  *)
(* the nodes it watches.  It asks one node after the other for /health,    *)
(* judges the answers as if they were one moment, narrates what it found   *)
(* and starts over.  health() runs in a worker thread: CPython may switch  *)
(* threads at a call, so _role and _term are read together and the LSN     *)
(* later (storage.current_lsn()), while NodeTasks goes on.                 *)
(*                                                                         *)
(* A node may leave any poll unanswered (down, frozen, cut off, slow).     *)
(* The narration, the log and the HEALTHY line change nothing the observer *)
(* reads again and are one step per anomaly.                               *)
(***************************************************************************)
EXTENDS NodeTasks, Sequences

CONSTANTS
  NodeOrder,    \* the nodes in the order of config/cluster.json
  LagThreshold  \* observer.replication_lag_threshold

ASSUME ObserverAssumption ==
  /\ NodeOrder \in Seq(Node)
  /\ \A n \in Node : \E i \in DOMAIN NodeOrder : NodeOrder[i] = n
  /\ \A i, j \in DOMAIN NodeOrder : NodeOrder[i] = NodeOrder[j] => i = j
  /\ LagThreshold \in Nat

VARIABLES
  phase,      \* "polling", "judged", "narrating"
  snapshots,  \* _poll_cluster's list
  reading,    \* what health() at the polled node has read so far
  anomalies,  \* found in this round and not narrated yet
  ledSince,   \* history: nodes that have been leader since the round began
  behindSince \* history: <<f, l>> with f too far behind l since then

watchVars == <<phase, snapshots, reading, anomalies>>
roundVars == <<ledSince, behindSince>>
observerVars == <<nodeVars, watchVars, roundVars>>

-----------------------------------------------------------------------------
\* detect_anomalies: reachable, leaders, and the four checks over a list of
\* snapshots, which need not be of one moment.
Reachable(s) == {i \in DOMAIN s : s[i].reachable}
Leaders(s) == {i \in Reachable(s) : s[i].role = "leader"}
NodesAt(s, I) == {s[i].node : i \in I}
FirstLeader(s) == CHOOSE i \in Leaders(s) : \A j \in Leaders(s) : i <= j
Lag(s, i) == s[FirstLeader(s)].lsn - s[i].lsn

Anomaly(type, nodes, t) == [type |-> type, nodes |-> nodes, term |-> t]

Unreachable(s) ==
  {Anomaly("node_unreachable", {s[i].node}, 0) : i \in DOMAIN s \ Reachable(s)}

NoLeaderUnlessAllLead(s) ==
  IF Reachable(s) # {} /\ Leaders(s) # Reachable(s)
  THEN {Anomaly("no_leader", NodesAt(s, Reachable(s)), 0)} ELSE {}
NoLeader(s) ==
  IF Reachable(s) # {} /\ Leaders(s) = {}
  THEN {Anomaly("no_leader", NodesAt(s, Reachable(s)), 0)} ELSE {}

SplitBrainOverAllTerms(s) ==
  IF Cardinality(Leaders(s)) >= 2
  THEN {Anomaly("split_brain", NodesAt(s, Leaders(s)), 0)} ELSE {}
SplitBrain(s) ==
  LET group(t) == {i \in Leaders(s) : s[i].term = t} IN
  {Anomaly("split_brain", NodesAt(s, group(t)), t) :
     t \in {s[i].term : i \in {j \in Leaders(s) :
                                 Cardinality(group(s[j].term)) >= 2}}}

LagAtThreshold(s) ==
  IF Leaders(s) = {} THEN {}
  ELSE {Anomaly("replication_lag", {s[i].node}, 0) :
          i \in {j \in Reachable(s) \ Leaders(s) : Lag(s, j) >= LagThreshold}}
ReplicationLag(s) ==
  IF Leaders(s) = {} THEN {}
  ELSE {Anomaly("replication_lag", {s[i].node}, 0) :
          i \in {j \in Reachable(s) \ Leaders(s) : Lag(s, j) > LagThreshold}}

DetectAnomalies(s) ==
  Unreachable(s) \cup NoLeader(s) \cup SplitBrain(s) \cup ReplicationLag(s)

-----------------------------------------------------------------------------
NotReading == [busy |-> FALSE, role |-> "follower", term |-> 0, torn |-> FALSE]
LeadersNow == {n \in Node : role[n] = "leader"}
Behind(f, l, log) == log[l] - log[f] > LagThreshold
BehindNow == {p \in Node \X Node : Behind(p[1], p[2], lsn)}

ObserverInit ==
  /\ NodeInit
  /\ phase = "polling" /\ snapshots = << >> /\ reading = NotReading
  /\ anomalies = {}
  /\ ledSince = {} /\ behindSince = {}

Polled == NodeOrder[Len(snapshots) + 1]
MorePolls == phase = "polling" /\ Len(snapshots) < Len(NodeOrder)

\* No 200 within two seconds.  lsns is history.
PollFails ==
  /\ MorePolls
  /\ snapshots' = Append(snapshots,
       [node |-> Polled, reachable |-> FALSE, role |-> "follower", term |-> 0,
        lsn |-> 0, torn |-> FALSE, lsns |-> lsn])
  /\ reading' = NotReading
  /\ UNCHANGED <<nodeVars, phase, anomalies, roundVars>>

\* health() evaluates _role and _term.
HealthReadsRole ==
  /\ MorePolls /\ ~reading.busy
  /\ reading' = [busy |-> TRUE, role |-> role[Polled], term |-> term[Polled],
                 torn |-> deposing[Polled]]
  /\ UNCHANGED <<nodeVars, phase, snapshots, anomalies, roundVars>>

\* health() calls current_lsn(), and the answer arrives.
HealthReadsLsn ==
  /\ MorePolls /\ reading.busy
  /\ snapshots' = Append(snapshots,
       [node |-> Polled, reachable |-> TRUE, role |-> reading.role,
        term |-> reading.term, lsn |-> lsn[Polled], torn |-> reading.torn,
        lsns |-> lsn])
  /\ reading' = NotReading
  /\ UNCHANGED <<nodeVars, phase, anomalies, roundVars>>

Judge ==
  /\ phase = "polling" /\ Len(snapshots) = Len(NodeOrder)
  /\ phase' = "judged"
  /\ anomalies' = DetectAnomalies(snapshots)
  /\ UNCHANGED <<nodeVars, snapshots, reading, roundVars>>

\* The language model answers or fails, and a line is logged either way.
StopsWithoutModel(a) == anomalies' = anomalies
DropsNarrated(a) == anomalies' = anomalies \ {a}
Narrate(a) ==
  /\ phase \in {"judged", "narrating"} /\ a \in anomalies
  /\ phase' = "narrating"
  /\ DropsNarrated(a)
  /\ UNCHANGED <<nodeVars, snapshots, reading, roundVars>>

\* The poll interval is over and the next round begins.
NextRound ==
  /\ phase \in {"judged", "narrating"} /\ anomalies = {}
  /\ phase' = "polling" /\ snapshots' = << >>
  /\ ledSince' = LeadersNow /\ behindSince' = BehindNow
  /\ UNCHANGED <<nodeVars, reading, anomalies>>

NodeStep ==
  /\ NodeNext
  /\ ledSince' = {n \in ledSince : role'[n] = "leader"}
  /\ behindSince' = {p \in behindSince : Behind(p[1], p[2], lsn')}
  /\ UNCHANGED watchVars

ObserverStep ==
  \/ PollFails \/ HealthReadsRole \/ HealthReadsLsn \/ Judge
  \/ \E a \in anomalies : Narrate(a)
  \/ NextRound

ObserverNext == NodeStep \/ ObserverStep

ObserverSpec == ObserverInit /\ [][ObserverNext]_observerVars

\* Every await of the observer has a timeout, and it has one task.
FairObserverSpec == ObserverSpec /\ WF_observerVars(ObserverStep)

-----------------------------------------------------------------------------
Snapshots == [node : Node, reachable : BOOLEAN, role : {"leader", "follower"},
              term : 0 .. MaxTerm, lsn : 0 .. MaxLsn, torn : BOOLEAN,
              lsns : [Node -> 0 .. MaxLsn]]
Anomalies ==
  [type : {"node_unreachable", "no_leader", "split_brain", "replication_lag"},
   nodes : SUBSET Node, term : 0 .. MaxTerm]

\* The types of the variables.
ObserverTypeOK ==
  /\ NodeTypeOK
  /\ phase \in {"polling", "judged", "narrating"}
  /\ snapshots \in Seq(Snapshots) /\ Len(snapshots) <= Len(NodeOrder)
  /\ reading \in [busy : BOOLEAN, role : {"leader", "follower"},
                  term : 0 .. MaxTerm, torn : BOOLEAN]
  /\ anomalies \subseteq Anomalies
  /\ ledSince \subseteq Node
  /\ behindSince \subseteq Node \X Node

(* A node that is accused of a split brain did win the term it is said to  *)
(* lead, or health() looked at it between the new term and the step-down   *)
(* (main.py:438, election.py:165): leadership that moves from one node to  *)
(* the other between their two polls is no reason for the alarm.           *)
AccusedWonOrTorn ==
  \A a \in anomalies : a.type = "split_brain" =>
    \A i \in DOMAIN snapshots : snapshots[i].node \in a.nodes =>
      \/ [node |-> snapshots[i].node, term |-> a.term] \in won
      \/ snapshots[i].torn

(* As long as one node leads from the first poll to the last and answers,  *)
(* the observer does not cry no_leader, whatever the others do meanwhile.  *)
SteadyLeaderIsSeen ==
  \A a \in anomalies : a.type = "no_leader" => a.nodes \cap ledSince = {}

(* A lag reported of a node polled after the leader was real when the node *)
(* was asked.  (For a node polled before the leader it need not be: the    *)
(* leader has gone on in between.)                                         *)
LaterPolledLagIsReal ==
  \A a \in anomalies : a.type = "replication_lag" =>
    \A i \in DOMAIN snapshots :
      /\ snapshots[i].node \in a.nodes
      /\ FirstLeader(snapshots) < i
      => Behind(snapshots[i].node, snapshots[FirstLeader(snapshots)].node,
                snapshots[i].lsns)

(* A follower that is polled before the only leader in sight, and stays    *)
(* too far behind it from the begin of the round to the end, is reported.  *)
(* (One polled after the leader may be missed: it may have caught up with  *)
(* what the leader was then.  So may one behind the second of two leaders: *)
(* only the first counts.)                                                 *)
LastingLagIsReported ==
  phase = "judged" =>
    \A i, j \in Reachable(snapshots) :
      /\ Leaders(snapshots) = {j} /\ i # j
      /\ <<snapshots[i].node, snapshots[j].node>> \in behindSince
      /\ i < j
      => Anomaly("replication_lag", {snapshots[i].node}, 0) \in anomalies

(* What the observer says and does not say of a lag is right as far as the *)
(* order of its polls allows.                                              *)
LagReportsAreRight == LaterPolledLagIsReal /\ LastingLagIsReported

\* The observer goes on polling whatever the nodes and the model do.
RoundsGoOn == []<>(phase = "polling" /\ snapshots = << >>)
=============================================================================
