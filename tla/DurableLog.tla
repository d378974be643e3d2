----------------------------- MODULE DurableLog -----------------------------
(***************************************************************************)
(* What the storage engine of a node promises (src/rainman/node/           *)
(* storage.py:4 "The WAL is the source of truth"): a record that is kept   *)
(* stays, over all crashes; a put returns when all it has written is kept; *)
(* and a get shows only what is kept.  Crashes that cut a line are the one *)
(* exception.  Each of them may cost one record, the one that is written   *)
(* next, and so one put that returns without its record.                   *)
(***************************************************************************)
EXTENDS Integers, FiniteSets

CONSTANT Record

VARIABLES
  written,  \* the records written to the file, not yet synced
  kept,     \* the records every later start of the node will find
  answered, \* the records whose put has returned
  shown,    \* the records whose value a get may return
  cuts      \* the crashes that have cut a line

logVars == <<written, kept, answered, shown, cuts>>

LogInit ==
  /\ written = {} /\ kept = {} /\ answered = {} /\ shown = {}
  /\ cuts = 0

Write(e) ==
  /\ written' = written \cup {e}
  /\ UNCHANGED <<kept, answered, shown, cuts>>

\* All that is written is kept from now on, save one record if there has
\* been a cut.
Sync ==
  /\ \E lost \in SUBSET written :
       /\ \A d, e \in lost : d = e
       /\ lost # {} => cuts > 0
       /\ kept' = kept \cup (written \ lost)
  /\ written' = {}
  /\ UNCHANGED <<answered, shown, cuts>>

Show ==
  /\ shown' \subseteq Record
  /\ cuts = 0 => shown' \subseteq kept
  /\ UNCHANGED <<written, kept, answered, cuts>>

\* A put returns when nothing written is left to be synced.  There are never
\* more answered records missing than there were cuts.
Answer(e) ==
  /\ written = {}
  /\ Cardinality((answered \cup {e}) \ kept) <= cuts
  /\ answered' = answered \cup {e}
  /\ UNCHANGED <<written, kept, shown, cuts>>

\* Of what is not synced any part may survive; what is kept does.
Crash ==
  /\ \E survivors \in SUBSET written : kept' = kept \cup survivors
  /\ written' = {} /\ shown' = {}
  /\ cuts' \in {cuts, cuts + 1}
  /\ UNCHANGED answered

LogNext ==
  \/ Sync \/ Show \/ Crash
  \/ \E e \in Record : Write(e) \/ Answer(e)

LogSpec == LogInit /\ [][LogNext]_logVars
=============================================================================
