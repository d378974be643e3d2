----------------------------- MODULE MCElection -----------------------------
(* Election on three nodes, as config/cluster.json has them.               *)
EXTENDS Election, TLC

CONSTANTS n1, n2, n3

ThreeNodes == {n1, n2, n3}
NodeSymmetry == Permutations(ThreeNodes)

(* Bound: a behaviour has a crash, or it has heartbeats, writes and vote   *)
(* requests that arrive late.  All together are past what a run can        *)
(* explore (Failover has crashes and heartbeats, Cluster crashes and       *)
(* writes).                                                                *)
CrashOrTraffic ==
  \/ crashes = 0
  \/ /\ heartbeats = {}
     /\ \A n \in Node : lsn[n] = 0
     /\ \A m \in requests : m.live
=============================================================================
