---------------------------- MODULE MCAdversary ----------------------------
(* Adversary on the three nodes of config/cluster.json.                    *)
EXTENDS Adversary

CONSTANTS n1, n2, n3

ThreeInOrder == <<n1, n2, n3>>
=============================================================================
