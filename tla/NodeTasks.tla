----------------------------- MODULE NodeTasks -----------------------------
(***************************************************************************)
(* The tasks inside the processes of rainman nodes (src/rainman/node/      *)
(* main.py): the one countdown task with its election, the request         *)
(* handlers that make a leader step down, and the heartbeat loops they     *)
(* start and cancel through the global _hb_task.  Election.tla takes       *)
(* _on_became_leader and _step_down as one step each; here their awaits    *)
(* are steps of their own, and so is the moment in which heartbeat() or    *)
(* vote() has advanced _term and not yet called _step_down: the event loop *)
(* does not leave the handler there, but a worker thread that runs         *)
(* health() can look.                                                      *)
(*                                                                         *)
(* A loop is named by the term of the election that started it.  Votes are *)
(* left out (a campaign may be won or lost), so two nodes may win one      *)
(* term, as they may in Election.                                          *)
(***************************************************************************)
EXTENDS Integers, FiniteSets

CONSTANTS
  Node,     \* the members of config/cluster.json
  MaxTerm,  \* bound: elections stop at this term
  MaxLsn    \* bound: no log grows past this LSN

ASSUME NodeTasksAssumption ==
  IsFiniteSet(Node) /\ MaxTerm \in Nat /\ MaxLsn \in Nat

Terms == 1 .. MaxTerm
None == 0                \* Python's None as a task

VARIABLES
  role,       \* _role
  term,       \* _term
  lsn,        \* StorageEngine._lsn
  pc,         \* where the countdown task is
  campaign,   \* the term of its last election
  deposing,   \* is heartbeat() or vote() between _term and _step_down
  hbTask,     \* _hb_task
  running,    \* heartbeat loops that have not been cancelled
  dying,      \* heartbeat loops cancelled and not ended yet
  joined,     \* the loop whose end _on_became_leader awaits
  lastWaiter, \* who was the last to start awaiting the end of a loop
  won,        \* history: elections won
  raced       \* history: nodes that won one while a step-down was waiting

roleVars == <<role, term, deposing>>
awaitVars == <<joined, lastWaiter>>
taskVars == <<pc, campaign, hbTask, running, dying, awaitVars>>
nodeVars == <<roleVars, lsn, taskVars, won, raced>>

-----------------------------------------------------------------------------
NodeInit ==
  /\ role       = [n \in Node |-> "follower"]
  /\ term       = [n \in Node |-> 0]
  /\ lsn        = [n \in Node |-> 0]
  /\ pc         = [n \in Node |-> "countdown"]
  /\ campaign   = [n \in Node |-> 0]
  /\ deposing   = [n \in Node |-> FALSE]
  /\ hbTask     = [n \in Node |-> None]
  /\ running    = [n \in Node |-> {}]
  /\ dying      = [n \in Node |-> {}]
  /\ joined     = [n \in Node |-> None]
  /\ lastWaiter = [n \in Node |-> [l \in Terms |-> "nobody"]]
  /\ won        = {}
  /\ raced      = {}

\* _hb_task and not _hb_task.done()
TaskAssumedAlive(n) == TRUE
TaskAlive(n) == hbTask[n] \in running[n] \cup dying[n]

\* _hb_task.cancel(), and the caller waits for the end of the loop.
CancelAndAwait(n, who) ==
  /\ running' = [running EXCEPT ![n] = @ \ {hbTask[n]}]
  /\ dying'   = [dying EXCEPT ![n] = @ \cup {hbTask[n]}]
  /\ lastWaiter' = [lastWaiter EXCEPT ![n][hbTask[n]] = who]

-----------------------------------------------------------------------------
\* The countdown expires at a follower: _run_election up to its await.
Campaign(n) ==
  /\ pc[n] = "countdown" /\ ~deposing[n] /\ role[n] = "follower"
  /\ term[n] + 1 \in Terms
  /\ term'     = [term EXCEPT ![n] = @ + 1]
  /\ campaign' = [campaign EXCEPT ![n] = term[n] + 1]
  /\ pc'       = [pc EXCEPT ![n] = "campaign"]
  /\ UNCHANGED <<role, deposing, lsn, hbTask, running, dying, awaitVars, won,
                 raced>>

LoseCampaign(n) ==
  /\ pc[n] = "campaign" /\ ~deposing[n]
  /\ pc' = [pc EXCEPT ![n] = "countdown"]
  /\ UNCHANGED <<roleVars, lsn, campaign, hbTask, running, dying, awaitVars,
                 won, raced>>

\* A task that is alive keeps the winner from starting its own loop.
WinsBesideOldTask(n) ==
  pc' = [pc EXCEPT ![n] = "countdown"]
  /\ UNCHANGED <<hbTask, running, dying, awaitVars>>

(* _on_became_leader: a task that is still alive is cancelled and awaited  *)
(* first, otherwise the new loop starts at once.                           *)
StartsOwnLoop(n) ==
  IF TaskAlive(n)
  THEN /\ CancelAndAwait(n, "winner")
       /\ pc' = [pc EXCEPT ![n] = "joining"]
       /\ joined' = [joined EXCEPT ![n] = hbTask[n]]
       /\ UNCHANGED hbTask
  ELSE /\ hbTask'  = [hbTask EXCEPT ![n] = campaign[n]]
       /\ running' = [running EXCEPT ![n] = @ \cup {campaign[n]}]
       /\ pc'      = [pc EXCEPT ![n] = "countdown"]
       /\ UNCHANGED <<dying, awaitVars>>

WinCampaign(n) ==
  /\ pc[n] = "campaign" /\ ~deposing[n]
  /\ role'  = [role EXCEPT ![n] = "leader"]
  /\ term'  = [term EXCEPT ![n] = campaign[n]]
  /\ StartsOwnLoop(n)
  /\ won'   = won \cup {[node |-> n, term |-> campaign[n]]}
  /\ raced' = IF \E l \in Terms : lastWaiter[n][l] # "nobody"
              THEN raced \cup {n} ELSE raced
  /\ UNCHANGED <<deposing, lsn, campaign>>

-----------------------------------------------------------------------------
\* Some other node is in a term that this one has not seen.
Unseen(n) == {t \in Terms : t > term[n] /\ \E m \in Node \ {n} : term[m] >= t}

\* A follower adopts a term from a heartbeat, a vote request or an entry.
AdoptTerm(n, t) ==
  /\ ~deposing[n] /\ role[n] = "follower" /\ t \in Unseen(n)
  /\ term' = [term EXCEPT ![n] = t]
  /\ UNCHANGED <<role, deposing, lsn, taskVars, won, raced>>

\* heartbeat() or vote() at a leader: _term is set, the role is not yet.
AdvanceLeaderTerm(n, t) ==
  /\ ~deposing[n] /\ role[n] = "leader" /\ t \in Unseen(n)
  /\ term'     = [term EXCEPT ![n] = t]
  /\ deposing' = [deposing EXCEPT ![n] = TRUE]
  /\ UNCHANGED <<role, lsn, taskVars, won, raced>>

\* _step_down up to its await, if it has one.
StopsLoop(n) ==
  /\ IF TaskAlive(n) THEN CancelAndAwait(n, "deposed")
                     ELSE UNCHANGED <<running, dying, lastWaiter>>
  /\ UNCHANGED joined

FinishDeposing(n) ==
  /\ deposing[n]
  /\ role'     = [role EXCEPT ![n] = "follower"]
  /\ deposing' = [deposing EXCEPT ![n] = FALSE]
  /\ StopsLoop(n)
  /\ UNCHANGED <<term, lsn, pc, campaign, hbTask, won, raced>>

\* replicate() at a leader: _step_down sets role and term together.
DeposedByEntry(n, t) ==
  /\ ~deposing[n] /\ role[n] = "leader" /\ t \in Unseen(n)
  /\ role' = [role EXCEPT ![n] = "follower"]
  /\ term' = [term EXCEPT ![n] = t]
  /\ StopsLoop(n)
  /\ UNCHANGED <<deposing, lsn, pc, campaign, hbTask, won, raced>>

-----------------------------------------------------------------------------
\* The CancelledError has unwound a loop.
LoopEnds(n, l) ==
  /\ ~deposing[n] /\ l \in dying[n]
  /\ dying' = [dying EXCEPT ![n] = @ \ {l}]
  /\ UNCHANGED <<roleVars, lsn, pc, campaign, hbTask, running, awaitVars, won,
                 raced>>

(* The callers that awaited a loop go on, one after the other in the order *)
(* they came (asyncio calls a task's callbacks first come first served):   *)
(* _step_down clears _hb_task, _on_became_leader starts its loop.  So the  *)
(* last of them decides what _hb_task is.                                  *)
WaitersGoOn(n, l) ==
  LET winner == pc[n] = "joining" /\ joined[n] = l IN
  /\ ~deposing[n] /\ lastWaiter[n][l] # "nobody" /\ l \notin dying[n]
  /\ lastWaiter' = [lastWaiter EXCEPT ![n][l] = "nobody"]
  /\ hbTask'  = [hbTask EXCEPT ![n] = IF lastWaiter[n][l] = "winner"
                                      THEN campaign[n] ELSE None]
  /\ IF winner
     THEN /\ running' = [running EXCEPT ![n] = @ \cup {campaign[n]}]
          /\ pc'      = [pc EXCEPT ![n] = "countdown"]
          /\ joined'  = [joined EXCEPT ![n] = None]
     ELSE UNCHANGED <<running, pc, joined>>
  /\ UNCHANGED <<roleVars, lsn, campaign, dying, won, raced>>

-----------------------------------------------------------------------------
\* put_kv at a leader, replicate at a node that is behind.
Put(n) ==
  /\ ~deposing[n] /\ role[n] = "leader" /\ lsn[n] < MaxLsn
  /\ lsn' = [lsn EXCEPT ![n] = @ + 1]
  /\ UNCHANGED <<roleVars, taskVars, won, raced>>

Replicate(n) ==
  /\ ~deposing[n] /\ \E m \in Node : lsn[m] > lsn[n]
  /\ lsn' = [lsn EXCEPT ![n] = @ + 1]
  /\ UNCHANGED <<roleVars, taskVars, won, raced>>

NodeNext ==
  \E n \in Node :
    \/ Campaign(n) \/ LoseCampaign(n) \/ WinCampaign(n)
    \/ FinishDeposing(n) \/ Put(n) \/ Replicate(n)
    \/ \E t \in Terms :
         \/ AdoptTerm(n, t) \/ AdvanceLeaderTerm(n, t) \/ DeposedByEntry(n, t)
         \/ LoopEnds(n, t) \/ WaitersGoOn(n, t)

NodeSpec == NodeInit /\ [][NodeNext]_nodeVars

-----------------------------------------------------------------------------
\* The types of the variables.
NodeTypeOK ==
  /\ role \in [Node -> {"leader", "follower"}]
  /\ term \in [Node -> 0 .. MaxTerm]
  /\ lsn \in [Node -> 0 .. MaxLsn]
  /\ pc \in [Node -> {"countdown", "campaign", "joining"}]
  /\ campaign \in [Node -> 0 .. MaxTerm]
  /\ deposing \in [Node -> BOOLEAN]
  /\ hbTask \in [Node -> Terms \cup {None}]
  /\ running \in [Node -> SUBSET Terms]
  /\ dying \in [Node -> SUBSET Terms]
  /\ joined \in [Node -> Terms \cup {None}]
  /\ lastWaiter \in [Node -> [Terms -> {"nobody", "winner", "deposed"}]]
  /\ won \subseteq [node : Node, term : Terms]
  /\ raced \subseteq Node

(* A leader always has a heartbeat loop that nobody has cancelled, unless  *)
(* it is just waiting for its old one to end: whatever step-downs are      *)
(* pending when it wins, none of them takes the new loop down (main.py:98, *)
(* :115).                                                                  *)
LeaderBeats ==
  \A n \in Node : role[n] = "leader" /\ pc[n] # "joining" => running[n] # {}

(* main.py:193 "runs only while this node is leader": a leader has the one *)
(* loop that _hb_task names and a follower has none.  The exception is a   *)
(* node that won an election while a _step_down was still waiting.  That   *)
(* step-down may clear the _hb_task of the new loop, or the next one come  *)
(* before the loop starts; no step-down then cancels it.                   *)
LoopsFollowRole ==
  \A n \in Node \ raced :
    running[n] = IF role[n] = "leader" THEN {hbTask[n]} ELSE {}

(* Leaders beat, and but for that race nobody else does.                   *)
LoopsMatchRoles == LeaderBeats /\ LoopsFollowRole
=============================================================================
