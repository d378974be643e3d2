----------------------------- MODULE MCFailover -----------------------------
(* Failover on three nodes.  A tick is 300 ms: the heartbeat interval of   *)
(* 200 ms and the 100 ms a round may wait for a mute peer, and the vote    *)
(* timeout of node/election.py.  Of config/cluster.json, the election      *)
(* timeouts of 600 and 1000 ms are 2 and 3 ticks.                          *)
EXTENDS Failover

CONSTANTS n1, n2, n3

ThreeNodes == {n1, n2, n3}

(* A state the cluster can be in: n1 led term 1, n2 term 2, and now both   *)
(* peers have just voted for n1, which leads term 3.  n1 has won twice, so *)
(* a step-down may leave a heartbeat loop of it behind.  From here the run *)
(* has two more terms.                                                     *)
PastLeaders == << n1, n2, n1 >>
ElectedInit ==
  /\ up         = [n \in Node |-> TRUE]
  /\ role       = [n \in Node |-> IF n = n1 THEN "leader" ELSE "follower"]
  /\ term       = [n \in Node |-> 3]
  /\ leaderId   = [n \in Node |-> IF n = n1 THEN n1 ELSE n2]
  /\ votedFor   = [n \in Node |-> [t \in Terms |->
                    IF t \in 1 .. 3 THEN PastLeaders[t] ELSE NoNode]]
  /\ campaign   = [n \in Node |-> NoCampaign]
  /\ requests   = {}
  /\ heartbeats = {[leader |-> PastLeaders[t], term |-> t] : t \in 1 .. 2}
  /\ beating    = {n1}
  /\ lsn        = [n \in Node |-> 0]
  /\ walLsn     = [n \in Node |-> 0]
  /\ walTerm    = [n \in Node |-> 0]
  /\ entries    = {}
  /\ crashes    = 0
  /\ votes      = {Vote(n, t, PastLeaders[t]) : n \in Node, t \in 1 .. 3}
  /\ won        = {[leader |-> PastLeaders[t], term |-> t, quorum |-> Node] :
                     t \in 1 .. 3}
  /\ forgot     = {}
  /\ rewound    = {}
  /\ waited     = [n \in Node |-> 0]
  /\ beatAge    = [n \in Node |-> 0]
  /\ inbox = {} /\ cut = {} /\ wasCut = {}
  /\ heard      = [n \in Node |-> NoNode]

ElectedSpec ==
  ElectedInit /\ [][FailoverNext]_failoverVars /\ WF_failoverVars(Runs)
=============================================================================
