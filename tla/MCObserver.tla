----------------------------- MODULE MCObserver -----------------------------
(* Observer over two nodes: enough for two leaders, or a leader and a lag. *)
EXTENDS Observer

CONSTANTS n1, n2

TwoNodes == {n1, n2}
TwoInOrder == <<n1, n2>>
=============================================================================
