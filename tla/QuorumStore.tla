---------------------------- MODULE QuorumStore ----------------------------
(***************************************************************************)
(* What a rainman cluster promises about writes, whoever leads: an entry   *)
(* only ever gains readable copies, and a write is confirmed to its client *)
(* when a majority of the nodes have it in their WAL (src/rainman/node/    *)
(* replication.py:5 "A write is durable from the client's perspective only *)
(* after a quorum (majority) of nodes have persisted it").  Each line that *)
(* a crash cuts may spoil the entry that is written after it: one copy at  *)
(* most may be missing for each of them.                                   *)
(***************************************************************************)
EXTENDS Integers, FiniteSets

CONSTANTS Node, Req, Majority

VARIABLES
  copies,    \* copies[r]: the nodes whose WAL holds the entry of write r
  confirmed, \* the writes answered with 200
  cuts       \* the lines that crashes have cut

storeVars == <<copies, confirmed, cuts>>

StoreInit ==
  /\ copies = [r \in Req |-> {}]
  /\ confirmed = {}
  /\ cuts = 0

\* A node appends the entry to its WAL; no node ever drops one.
Persist(r, n) ==
  /\ copies' = [copies EXCEPT ![r] = @ \cup {n}]
  /\ UNCHANGED <<confirmed, cuts>>

Confirm(r) ==
  /\ Cardinality(copies[r]) + cuts >= Majority
  /\ confirmed' = confirmed \cup {r}
  /\ UNCHANGED <<copies, cuts>>

CutLine ==
  /\ cuts' = cuts + 1
  /\ UNCHANGED <<copies, confirmed>>

StoreNext ==
  \/ \E r \in Req : Confirm(r) \/ \E n \in Node : Persist(r, n)
  \/ CutLine

StoreSpec == StoreInit /\ [][StoreNext]_storeVars
=============================================================================
