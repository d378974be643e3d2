----------------------------- MODULE MCCluster -----------------------------
(* Cluster on three nodes, as config/cluster.json has them.                *)
EXTENDS Cluster, TLC

CONSTANTS n1, n2, n3, r1, r2

ThreeNodes == {n1, n2, n3}
FirstTwo == {n1, n2}
OnlyFirst == {n1}
OnlySecond == {n2}
NoNodes == {}

OneWrite == {r1}
TwoWrites == {r1, r2}

WriteSymmetry == Permutations(TwoWrites)

(* The state a fault-free start ends in: n1 has asked both peers for their *)
(* vote in term 1, has got both, and leads.  Runs that need several later  *)
(* elections start here instead of at ClusterInit.                         *)
ElectedInit ==
  /\ up         = [n \in Node |-> TRUE]
  /\ role       = [n \in Node |-> IF n = n1 THEN "leader" ELSE "follower"]
  /\ term       = [n \in Node |-> 1]
  /\ leaderId   = [n \in Node |-> IF n = n1 THEN n1 ELSE NoNode]
  /\ votedFor   = [n \in Node |-> [NoVotes EXCEPT ![1] = n1]]
  /\ campaign   = [n \in Node |-> NoCampaign]
  /\ requests   = {}
  /\ heartbeats = {}
  /\ beating    = {n1}
  /\ lsn        = [n \in Node |-> 0]
  /\ walLsn     = [n \in Node |-> 0]
  /\ walTerm    = [n \in Node |-> 0]
  /\ entries    = {}
  /\ crashes    = 0
  /\ votes      = {Vote(n, 1, n1) : n \in Node}
  /\ won        = {[leader |-> n1, term |-> 1, quorum |-> Node]}
  /\ forgot     = {}
  /\ rewound    = {}
  /\ wal        = [n \in Node |-> << >>]
  /\ puts       = [r \in Req |-> NewPut]
  /\ calls      = [r \in Req |-> [n \in Node |-> "none"]]
  /\ acks       = [r \in Req |-> {}]
  /\ lock       = [n \in Node |-> NoReq]
  /\ slow       = {}
  /\ torn       = {}
  /\ tears      = 0

ElectedSpec == ElectedInit /\ [][ClusterNext]_clusterVars
FairElectedSpec == ElectedSpec /\ WriteFairness
=============================================================================
