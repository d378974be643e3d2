------------------------------ MODULE MCDriver ------------------------------
(* Driver on three nodes, with one of two businesses: a key that is loaded *)
(* and then overwritten by a review, or one that has none.  The keys of a  *)
(* log meet only in its length.                                            *)
EXTENDS Driver

CONSTANTS n1, n2, n3, b1, b2

ThreeNodes == {n1, n2, n3}
InOrder == <<n1, n2, n3>>
Businesses == {b1, b2}
BusinessFile == <<b1, b2>>
ReviewFile == <<[business |-> b2, date |-> 2], [business |-> b2, date |-> 1]>>
=============================================================================
