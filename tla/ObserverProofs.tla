--------------------------- MODULE ObserverProofs ---------------------------
(***************************************************************************)
(* Theorems about NodeTasks.tla and Observer.tla, for any number of nodes, *)
(* terms and entries: heartbeat loops follow the role, and what the        *)
(* observer reports of its polls is true in the sense of each property.    *)
(***************************************************************************)
EXTENDS Observer, SequenceTheorems, WellFoundedInduction, TLAPS

USE DEF roleVars, awaitVars, taskVars, nodeVars, watchVars, roundVars

-----------------------------------------------------------------------------
(* The nodes.                                                              *)

\* Only a follower campaigns, and it knows for which term.
CampaignersFollow ==
  \A n \in Node :
    /\ pc[n] = "campaign" => role[n] = "follower"
    /\ pc[n] # "countdown" => campaign[n] \in Terms

\* A loop that is ending is awaited by who cancelled it.
DyingAreAwaited ==
  \A n \in Node : \A l \in dying[n] : lastWaiter[n][l] # "nobody"

\* Where no election was won beside a step-down, only step-downs wait, and
\* none of them at a leader.
CalmNodesWaitToFollow ==
  \A n \in Node \ raced :
    /\ pc[n] # "joining"
    /\ \A l \in Terms : lastWaiter[n][l] # "winner"
    /\ role[n] = "leader" => \A l \in Terms : lastWaiter[n][l] = "nobody"

\* A leader won its term, unless it is just being deposed.
LeadersWon ==
  \A n \in Node :
    role[n] = "leader" /\ ~deposing[n] => [node |-> n, term |-> term[n]] \in won

TaskInv ==
  /\ NodeTypeOK /\ CampaignersFollow /\ DyingAreAwaited
  /\ CalmNodesWaitToFollow /\ LoopsFollowRole /\ LeaderBeats /\ LeadersWon

LEMMA TaskInvInit == NodeInit => TaskInv
BY NodeTasksAssumption
   DEF NodeInit, TaskInv, NodeTypeOK, CampaignersFollow, DyingAreAwaited,
       CalmNodesWaitToFollow, LoopsFollowRole, LeaderBeats, LeadersWon, None

(* An election up to its await, lost, or won.                              *)
LEMMA CampaignStep ==
  ASSUME NEW n \in Node, TaskInv, Campaign(n) \/ LoseCampaign(n)
  PROVE  TaskInv'
<1>1. /\ UNCHANGED <<role, deposing, lsn, hbTask, running, dying, awaitVars, won,
                     raced>>
      /\ pc[n] # "joining"
  BY DEF Campaign, LoseCampaign
<1>2. role[n] = "follower"
  BY DEF Campaign, LoseCampaign, TaskInv, CampaignersFollow
<1>3. /\ pc' \in [Node -> {"countdown", "campaign", "joining"}]
      /\ pc'[n] # "joining"
      /\ \A m \in Node \ {n} : pc'[m] = pc[m]
  BY DEF Campaign, LoseCampaign, TaskInv, NodeTypeOK
<1>4. /\ campaign' \in [Node -> 0 .. MaxTerm]
      /\ pc'[n] # "countdown" => campaign'[n] \in Terms
      /\ \A m \in Node \ {n} : campaign'[m] = campaign[m]
  <2> campaign \in [Node -> 0 .. MaxTerm] /\ Terms \subseteq 0 .. MaxTerm
    BY NodeTasksAssumption DEF TaskInv, NodeTypeOK, Terms
  <2> pc \in [Node -> {"countdown", "campaign", "joining"}]
    BY DEF TaskInv, NodeTypeOK
  <2> QED
    BY DEF Campaign, LoseCampaign
<1>5. /\ term' \in [Node -> 0 .. MaxTerm]
      /\ \A m \in Node \ {n} : term'[m] = term[m]
  <2> term \in [Node -> 0 .. MaxTerm] /\ Terms \subseteq 0 .. MaxTerm
    BY NodeTasksAssumption DEF TaskInv, NodeTypeOK, Terms
  <2> QED
    BY DEF Campaign, LoseCampaign
<1>6. NodeTypeOK'
  BY <1>1, <1>3, <1>4, <1>5 DEF TaskInv, NodeTypeOK
<1>7. CampaignersFollow' /\ LeadersWon' /\ LeaderBeats'
  BY <1>1, <1>2, <1>3, <1>4, <1>5
     DEF TaskInv, CampaignersFollow, LeadersWon, LeaderBeats
<1>8. DyingAreAwaited' /\ LoopsFollowRole'
  BY <1>1 DEF TaskInv, DyingAreAwaited, LoopsFollowRole
<1>9. CalmNodesWaitToFollow'
  BY <1>1, <1>3 DEF TaskInv, CalmNodesWaitToFollow
<1> QED
  BY <1>6, <1>7, <1>8, <1>9 DEF TaskInv

(* A cancelled loop is moved to those that are ending.                     *)
LEMMA CancelTypes ==
  ASSUME NEW n \in Node, NEW who \in {"winner", "deposed"}, NodeTypeOK,
         DyingAreAwaited, hbTask[n] \in Terms, CancelAndAwait(n, who)
  PROVE  /\ running' \in [Node -> SUBSET Terms]
         /\ dying' \in [Node -> SUBSET Terms]
         /\ lastWaiter' \in [Node -> [Terms -> {"nobody", "winner", "deposed"}]]
         /\ running'[n] = running[n] \ {hbTask[n]}
         /\ \A l \in Terms : lastWaiter'[n][l] = IF l = hbTask[n] THEN who
                                                 ELSE lastWaiter[n][l]
         /\ \A m \in Node \ {n} : /\ running'[m] = running[m]
                                 /\ lastWaiter'[m] = lastWaiter[m]
         /\ DyingAreAwaited'
<1>1. /\ running' \in [Node -> SUBSET Terms]
      /\ running'[n] = running[n] \ {hbTask[n]}
      /\ \A m \in Node \ {n} : running'[m] = running[m]
  BY DEF CancelAndAwait, NodeTypeOK
<1>2. /\ dying' \in [Node -> SUBSET Terms]
      /\ dying'[n] = dying[n] \cup {hbTask[n]}
      /\ \A m \in Node \ {n} : dying'[m] = dying[m]
  BY DEF CancelAndAwait, NodeTypeOK
<1>3. /\ lastWaiter' \in [Node -> [Terms -> {"nobody", "winner", "deposed"}]]
      /\ \A l \in Terms : lastWaiter'[n][l] = IF l = hbTask[n] THEN who
                                              ELSE lastWaiter[n][l]
      /\ \A m \in Node \ {n} : lastWaiter'[m] = lastWaiter[m]
  BY DEF CancelAndAwait, NodeTypeOK
<1>4. DyingAreAwaited'
  <2>1. ASSUME NEW m \in Node, NEW l \in dying'[m] PROVE lastWaiter'[m][l] # "nobody"
    <3>1. l \in Terms
      BY <1>2
    <3>2. CASE m = n
      BY <1>2, <1>3, <3>1, <3>2 DEF DyingAreAwaited
    <3>3. CASE m # n
      BY <1>2, <1>3, <3>3 DEF DyingAreAwaited
    <3> QED
      BY <3>2, <3>3
  <2> QED
    BY <2>1 DEF DyingAreAwaited
<1> QED
  BY <1>1, <1>2, <1>3, <1>4

LEMMA WinStep ==
  ASSUME NEW n \in Node, TaskInv, WinCampaign(n)
  PROVE  TaskInv'
<1>1. campaign[n] \in Terms /\ role[n] = "follower"
  BY DEF TaskInv, WinCampaign, CampaignersFollow
<1>2. /\ UNCHANGED <<deposing, lsn, campaign>> /\ ~deposing[n]
      /\ role' \in [Node -> {"leader", "follower"}] /\ role'[n] = "leader"
      /\ term' \in [Node -> 0 .. MaxTerm] /\ term'[n] = campaign[n]
      /\ \A m \in Node \ {n} : role'[m] = role[m] /\ term'[m] = term[m]
      /\ won' = won \cup {[node |-> n, term |-> campaign[n]]}
      /\ raced \subseteq raced' /\ raced' \subseteq Node
      /\ raced' \subseteq raced \cup {n}
      /\ (\E l \in Terms : lastWaiter[n][l] # "nobody") => n \in raced'
  BY <1>1 DEF TaskInv, NodeTypeOK, WinCampaign, Terms
<1>3. LeadersWon'
  BY <1>2 DEF LeadersWon, TaskInv
<1>4. CASE TaskAlive(n)
  <2>1. hbTask[n] \in Terms
    BY <1>4 DEF TaskAlive, TaskInv, NodeTypeOK
  <2>2. /\ CancelAndAwait(n, "winner")
        /\ pc' = [pc EXCEPT ![n] = "joining"]
        /\ joined' = [joined EXCEPT ![n] = hbTask[n]]
        /\ UNCHANGED hbTask
    BY <1>4 DEF WinCampaign, StartsOwnLoop
  <2>3. n \in raced'
    BY <1>1, <1>2, <1>4, <2>1
       DEF TaskAlive, TaskInv, DyingAreAwaited, LoopsFollowRole, NodeTypeOK
  <2>4. /\ running' \in [Node -> SUBSET Terms]
        /\ dying' \in [Node -> SUBSET Terms]
        /\ lastWaiter' \in [Node -> [Terms -> {"nobody", "winner", "deposed"}]]
        /\ DyingAreAwaited'
        /\ running'[n] = running[n] \ {hbTask[n]}
        /\ \A l \in Terms : lastWaiter'[n][l] = IF l = hbTask[n] THEN "winner"
                                                ELSE lastWaiter[n][l]
        /\ \A m \in Node \ {n} : /\ running'[m] = running[m]
                                /\ lastWaiter'[m] = lastWaiter[m]
    BY <2>1, <2>2, CancelTypes DEF TaskInv
  <2>5. /\ pc' \in [Node -> {"countdown", "campaign", "joining"}]
        /\ pc'[n] = "joining" /\ \A m \in Node \ {n} : pc'[m] = pc[m]
        /\ joined' \in [Node -> Terms \cup {None}]
    BY <2>1, <2>2 DEF TaskInv, NodeTypeOK
  <2>6. NodeTypeOK'
    BY <1>1, <1>2, <2>2, <2>4, <2>5 DEF NodeTypeOK, TaskInv
  <2>7. CampaignersFollow'
    <3>1. CampaignersFollow
      BY DEF TaskInv
    <3> QED
      BY <1>1, <1>2, <2>5, <3>1 DEF CampaignersFollow
  <2>8. LeaderBeats'
    <3>1. LeaderBeats
      BY DEF TaskInv
    <3> QED
      BY <1>2, <2>4, <2>5, <3>1 DEF LeaderBeats
  <2>9. CalmNodesWaitToFollow'
    <3>1. CalmNodesWaitToFollow
      BY DEF TaskInv
    <3> QED
      BY <1>2, <2>3, <2>4, <2>5, <3>1 DEF CalmNodesWaitToFollow
  <2>10. LoopsFollowRole'
    <3>1. LoopsFollowRole
      BY DEF TaskInv
    <3> QED
      BY <1>2, <2>2, <2>3, <2>4, <3>1 DEF LoopsFollowRole
  <2> QED
    BY <1>3, <2>4, <2>6, <2>7, <2>8, <2>9, <2>10 DEF TaskInv
<1>5. CASE ~TaskAlive(n)
  <2>1. /\ hbTask' = [hbTask EXCEPT ![n] = campaign[n]]
        /\ running' = [running EXCEPT ![n] = @ \cup {campaign[n]}]
        /\ pc' = [pc EXCEPT ![n] = "countdown"]
        /\ UNCHANGED <<dying, awaitVars>>
    BY <1>5 DEF WinCampaign, StartsOwnLoop
  <2>2. n \notin raced' => n \notin raced /\ running[n] = {}
    BY <1>1, <1>2 DEF TaskInv, LoopsFollowRole
  <2>3. /\ hbTask' \in [Node -> Terms \cup {None}]
        /\ running' \in [Node -> SUBSET Terms]
        /\ pc' \in [Node -> {"countdown", "campaign", "joining"}]
        /\ hbTask'[n] = campaign[n] /\ pc'[n] = "countdown"
        /\ running'[n] = running[n] \cup {campaign[n]}
        /\ \A m \in Node \ {n} : /\ hbTask'[m] = hbTask[m] /\ pc'[m] = pc[m]
                                /\ running'[m] = running[m]
    BY <1>1, <2>1 DEF TaskInv, NodeTypeOK
  <2>4. NodeTypeOK'
    BY <1>1, <1>2, <2>1, <2>3 DEF NodeTypeOK, TaskInv
  <2>5. CampaignersFollow'
    <3>1. CampaignersFollow
      BY DEF TaskInv
    <3> QED
      BY <1>1, <1>2, <2>3, <3>1 DEF CampaignersFollow
  <2>6. LeaderBeats'
    <3>1. LeaderBeats
      BY DEF TaskInv
    <3>2. running'[n] # {}
      BY <2>3
    <3> QED
      BY <1>2, <2>3, <3>1, <3>2 DEF LeaderBeats
  <2>7. DyingAreAwaited'
    BY <2>1 DEF TaskInv, DyingAreAwaited
  <2>8. CalmNodesWaitToFollow'
    <3>1. CalmNodesWaitToFollow
      BY DEF TaskInv
    <3> QED
      BY <1>2, <2>1, <2>3, <3>1 DEF CalmNodesWaitToFollow
  <2>9. LoopsFollowRole'
    <3>1. LoopsFollowRole
      BY DEF TaskInv
    <3>2. n \notin raced' => running'[n] = {hbTask'[n]}
      BY <2>2, <2>3
    <3>3. ASSUME NEW m \in Node \ raced', m # n
          PROVE  running'[m] = IF role'[m] = "leader" THEN {hbTask'[m]} ELSE {}
      BY <1>2, <2>3, <3>1, <3>3 DEF LoopsFollowRole
    <3> QED
      BY <1>2, <3>2, <3>3 DEF LoopsFollowRole
  <2> QED
    BY <1>3, <2>4, <2>5, <2>6, <2>7, <2>8, <2>9 DEF TaskInv
<1> QED
  BY <1>4, <1>5

(* A term that comes from outside.                                         *)
LEMMA TermStep ==
  ASSUME NEW n \in Node, NEW t \in Terms, TaskInv,
         AdoptTerm(n, t) \/ AdvanceLeaderTerm(n, t)
  PROVE  TaskInv'
<1>1. UNCHANGED <<role, lsn, taskVars, won, raced>>
  BY DEF AdoptTerm, AdvanceLeaderTerm
<1>2. /\ term' \in [Node -> 0 .. MaxTerm]
      /\ \A m \in Node \ {n} : term'[m] = term[m]
  <2> term \in [Node -> 0 .. MaxTerm] /\ t \in 0 .. MaxTerm
    BY NodeTasksAssumption DEF TaskInv, NodeTypeOK, Terms
  <2> QED
    BY DEF AdoptTerm, AdvanceLeaderTerm
<1>3. /\ deposing' \in [Node -> BOOLEAN]
      /\ role[n] = "leader" => deposing'[n]
      /\ \A m \in Node \ {n} : deposing'[m] = deposing[m]
  <2> deposing \in [Node -> BOOLEAN]
    BY DEF TaskInv, NodeTypeOK
  <2> QED
    BY DEF AdoptTerm, AdvanceLeaderTerm
<1>4. NodeTypeOK'
  BY <1>1, <1>2, <1>3 DEF TaskInv, NodeTypeOK
<1>5. LeadersWon'
  BY <1>1, <1>2, <1>3 DEF TaskInv, LeadersWon
<1>6. CampaignersFollow' /\ DyingAreAwaited' /\ LeaderBeats'
  BY <1>1 DEF TaskInv, CampaignersFollow, DyingAreAwaited, LeaderBeats
<1>7. CalmNodesWaitToFollow' /\ LoopsFollowRole'
  BY <1>1 DEF TaskInv, CalmNodesWaitToFollow, LoopsFollowRole
<1> QED
  BY <1>4, <1>5, <1>6, <1>7 DEF TaskInv

(* A step-down up to its await.                                            *)
LEMMA DeposeStep ==
  ASSUME NEW n \in Node, TaskInv,
         FinishDeposing(n) \/ \E t \in Terms : DeposedByEntry(n, t)
  PROVE  TaskInv'
<1>1. StopsLoop(n) /\ UNCHANGED <<lsn, pc, campaign, hbTask, won, raced>>
  BY DEF FinishDeposing, DeposedByEntry
<1>2. /\ role' \in [Node -> {"leader", "follower"}] /\ role'[n] = "follower"
      /\ \A m \in Node \ {n} : role'[m] = role[m]
  BY DEF FinishDeposing, DeposedByEntry, TaskInv, NodeTypeOK
<1>3. /\ term' \in [Node -> 0 .. MaxTerm] /\ deposing' \in [Node -> BOOLEAN]
      /\ \A m \in Node \ {n} : term'[m] = term[m] /\ deposing'[m] = deposing[m]
  <2>1. CASE FinishDeposing(n)
    BY <2>1 DEF FinishDeposing, TaskInv, NodeTypeOK
  <2>2. CASE ~FinishDeposing(n)
    <3>1. PICK t \in Terms : DeposedByEntry(n, t)
      BY <2>2
    <3>2. t \in 0 .. MaxTerm
      BY NodeTasksAssumption DEF Terms
    <3> QED
      BY <3>1, <3>2 DEF DeposedByEntry, TaskInv, NodeTypeOK
  <2> QED
    BY <2>1, <2>2
<1>4. LeadersWon'
  BY <1>1, <1>2, <1>3 DEF LeadersWon, TaskInv
<1>5. CASE TaskAlive(n)
  <2>1. hbTask[n] \in Terms /\ CancelAndAwait(n, "deposed") /\ UNCHANGED joined
    BY <1>1, <1>5 DEF TaskAlive, TaskInv, NodeTypeOK, StopsLoop
  <2>2. /\ running' \in [Node -> SUBSET Terms]
        /\ dying' \in [Node -> SUBSET Terms]
        /\ lastWaiter' \in [Node -> [Terms -> {"nobody", "winner", "deposed"}]]
        /\ DyingAreAwaited'
        /\ running'[n] = running[n] \ {hbTask[n]}
        /\ \A l \in Terms : lastWaiter'[n][l] = IF l = hbTask[n] THEN "deposed"
                                                ELSE lastWaiter[n][l]
        /\ \A m \in Node \ {n} : /\ running'[m] = running[m]
                                /\ lastWaiter'[m] = lastWaiter[m]
    BY <2>1, CancelTypes DEF TaskInv
  <2>3. NodeTypeOK'
    BY <1>1, <1>2, <1>3, <2>1, <2>2 DEF NodeTypeOK, TaskInv
  <2>4. CampaignersFollow' /\ LeaderBeats'
    <3>1. CampaignersFollow /\ LeaderBeats
      BY DEF TaskInv
    <3>2. CampaignersFollow'
      BY <1>1, <1>2, <3>1 DEF CampaignersFollow
    <3>3. LeaderBeats'
      BY <1>1, <1>2, <2>2, <3>1 DEF LeaderBeats
    <3> QED
      BY <3>2, <3>3
  <2>5. n \notin raced => running'[n] = {}
    BY <2>2 DEF TaskInv, LoopsFollowRole
  <2>6. CalmNodesWaitToFollow'
    <3>1. CalmNodesWaitToFollow
      BY DEF TaskInv
    <3> QED
      BY <1>1, <1>2, <2>2, <3>1 DEF CalmNodesWaitToFollow
  <2>7. LoopsFollowRole'
    <3>1. LoopsFollowRole
      BY DEF TaskInv
    <3> QED
      BY <1>1, <1>2, <2>2, <2>5, <3>1 DEF LoopsFollowRole
  <2> QED
    BY <1>4, <2>2, <2>3, <2>4, <2>6, <2>7 DEF TaskInv
<1>6. CASE ~TaskAlive(n)
  <2>1. UNCHANGED <<running, dying, lastWaiter, joined>>
    BY <1>1, <1>6 DEF StopsLoop
  <2>2. n \notin raced => running[n] = {}
    BY <1>6 DEF TaskInv, LoopsFollowRole, TaskAlive
  <2>3. NodeTypeOK'
    BY <1>1, <1>2, <1>3, <2>1 DEF NodeTypeOK, TaskInv
  <2>4. CampaignersFollow' /\ LeaderBeats' /\ DyingAreAwaited'
    <3>1. CampaignersFollow /\ LeaderBeats /\ DyingAreAwaited
      BY DEF TaskInv
    <3> QED
      BY <1>1, <1>2, <2>1, <3>1
         DEF CampaignersFollow, LeaderBeats, DyingAreAwaited
  <2>5. CalmNodesWaitToFollow'
    <3>1. CalmNodesWaitToFollow
      BY DEF TaskInv
    <3> QED
      BY <1>1, <1>2, <2>1, <3>1 DEF CalmNodesWaitToFollow
  <2>6. LoopsFollowRole'
    <3>1. LoopsFollowRole
      BY DEF TaskInv
    <3> QED
      BY <1>1, <1>2, <2>1, <2>2, <3>1 DEF LoopsFollowRole
  <2> QED
    BY <1>4, <2>3, <2>4, <2>5, <2>6 DEF TaskInv
<1> QED
  BY <1>5, <1>6

(* A loop ends, and who awaited it goes on.                                *)
LEMMA LoopStep ==
  ASSUME NEW n \in Node, NEW l \in Terms, TaskInv,
         LoopEnds(n, l) \/ WaitersGoOn(n, l)
  PROVE  TaskInv'
<1>1. CASE LoopEnds(n, l)
  BY <1>1
     DEF LoopEnds, TaskInv, NodeTypeOK, CampaignersFollow, DyingAreAwaited,
         CalmNodesWaitToFollow, LoopsFollowRole, LeaderBeats, LeadersWon
<1>2. CASE WaitersGoOn(n, l)
  <2>1. /\ UNCHANGED <<roleVars, lsn, campaign, dying, won, raced>>
        /\ l \notin dying[n] /\ lastWaiter[n][l] # "nobody"
    BY <1>2 DEF WaitersGoOn
  <2>2. /\ lastWaiter' \in [Node -> [Terms -> {"nobody", "winner", "deposed"}]]
        /\ lastWaiter'[n][l] = "nobody"
        /\ \A k \in Terms \ {l} : lastWaiter'[n][k] = lastWaiter[n][k]
        /\ \A m \in Node \ {n} : lastWaiter'[m] = lastWaiter[m]
    BY <1>2 DEF WaitersGoOn, TaskInv, NodeTypeOK
  <2>3. /\ hbTask' \in [Node -> Terms \cup {None}]
        /\ \A m \in Node \ {n} : hbTask'[m] = hbTask[m]
    BY <1>2, NodeTasksAssumption DEF WaitersGoOn, TaskInv, NodeTypeOK, Terms, None
  <2>4. /\ running' \in [Node -> SUBSET Terms]
        /\ running[n] \subseteq running'[n]
        /\ pc[n] # "joining" => UNCHANGED running
        /\ \A m \in Node \ {n} : running'[m] = running[m]
    <3> running \in [Node -> SUBSET Terms] /\ (pc[n] = "joining" => campaign[n] \in Terms)
      BY DEF TaskInv, NodeTypeOK, CampaignersFollow
    <3> QED
      BY <1>2 DEF WaitersGoOn
  <2>5. /\ pc' \in [Node -> {"countdown", "campaign", "joining"}]
        /\ pc[n] # "joining" => UNCHANGED pc
        /\ pc[n] = "joining" => /\ pc'[n] \in {"joining", "countdown"}
                                /\ pc'[n] = "countdown" => running'[n] # {}
        /\ \A m \in Node \ {n} : pc'[m] = pc[m]
    <3> /\ pc \in [Node -> {"countdown", "campaign", "joining"}]
        /\ running \in [Node -> SUBSET Terms]
      BY DEF TaskInv, NodeTypeOK
    <3> QED
      BY <1>2 DEF WaitersGoOn
  <2>6. joined' \in [Node -> Terms \cup {None}]
    <3> joined \in [Node -> Terms \cup {None}]
      BY DEF TaskInv, NodeTypeOK
    <3> QED
      BY <1>2 DEF WaitersGoOn
  <2>7. NodeTypeOK'
    BY <2>1, <2>2, <2>3, <2>4, <2>5, <2>6 DEF TaskInv, NodeTypeOK
  <2>8. DyingAreAwaited'
    <3>1. \A m \in Node : dying[m] \subseteq Terms
      BY DEF TaskInv, NodeTypeOK
    <3> QED
      BY <2>1, <2>2, <3>1 DEF TaskInv, DyingAreAwaited
  <2>9. CampaignersFollow' /\ LeadersWon' /\ LeaderBeats'
    <3>1. CampaignersFollow /\ LeadersWon /\ LeaderBeats
      BY DEF TaskInv
    <3>2. CampaignersFollow'
      <4>1. CASE pc[n] = "joining"
        BY <2>1, <2>5, <3>1, <4>1 DEF CampaignersFollow
      <4>2. CASE pc[n] # "joining"
        BY <2>1, <2>5, <3>1, <4>2 DEF CampaignersFollow
      <4> QED
        BY <4>1, <4>2
    <3>3. LeadersWon'
      BY <2>1, <3>1 DEF LeadersWon
    <3>4. LeaderBeats'
      <4>1. CASE pc[n] = "joining"
        BY <2>1, <2>4, <2>5, <3>1, <4>1 DEF LeaderBeats
      <4>2. CASE pc[n] # "joining"
        BY <2>1, <2>4, <2>5, <3>1, <4>2 DEF LeaderBeats
      <4> QED
        BY <4>1, <4>2
    <3> QED
      BY <3>2, <3>3, <3>4
  <2>10. /\ n \notin raced => role[n] # "leader" /\ pc[n] # "joining"
    BY <2>1 DEF TaskInv, CalmNodesWaitToFollow
  <2>11. CalmNodesWaitToFollow'
    BY <2>1, <2>2, <2>5, <2>10 DEF TaskInv, CalmNodesWaitToFollow
  <2>12. LoopsFollowRole'
    BY <2>1, <2>3, <2>4, <2>10 DEF TaskInv, LoopsFollowRole
  <2> QED
    BY <2>7, <2>8, <2>9, <2>11, <2>12 DEF TaskInv
<1> QED
  BY <1>1, <1>2

LEMMA WriteStep ==
  ASSUME NEW n \in Node, TaskInv, Put(n) \/ Replicate(n)
  PROVE  TaskInv'
<1>1. lsn' \in [Node -> 0 .. MaxLsn]
  <2> lsn \in [Node -> 0 .. MaxLsn]
    BY DEF TaskInv, NodeTypeOK
  <2>1. lsn[n] + 1 \in 0 .. MaxLsn /\ lsn' = [lsn EXCEPT ![n] = @ + 1]
    BY NodeTasksAssumption DEF Put, Replicate
  <2> QED
    BY <2>1
<1>2. UNCHANGED <<roleVars, taskVars, won, raced>>
  BY DEF Put, Replicate
<1> QED
  BY <1>1, <1>2
     DEF TaskInv, NodeTypeOK, CampaignersFollow, DyingAreAwaited,
         CalmNodesWaitToFollow, LoopsFollowRole, LeaderBeats, LeadersWon

LEMMA TaskInvStep == TaskInv /\ [NodeNext]_nodeVars => TaskInv'
<1>1. CASE NodeNext
  BY <1>1, CampaignStep, WinStep, TermStep, DeposeStep, LoopStep, WriteStep
     DEF NodeNext
<1>2. CASE UNCHANGED nodeVars
  BY <1>2
     DEF TaskInv, NodeTypeOK, CampaignersFollow, DyingAreAwaited,
         CalmNodesWaitToFollow, LoopsFollowRole, LeaderBeats, LeadersWon
<1> QED
  BY <1>1, <1>2

(* Elections that were won stay won, and logs only grow.                   *)
LEMMA HistoryGrows ==
  ASSUME TaskInv, NodeNext
  PROVE  won \subseteq won' /\ \A n \in Node : lsn'[n] >= lsn[n]
<1>1. ASSUME NEW n \in Node, Put(n) \/ Replicate(n)
      PROVE  won \subseteq won' /\ \A m \in Node : lsn'[m] >= lsn[m]
  BY <1>1 DEF Put, Replicate, TaskInv, NodeTypeOK
<1>2. CASE UNCHANGED lsn /\ won \subseteq won'
  BY <1>2 DEF TaskInv, NodeTypeOK
<1> QED
  BY <1>1, <1>2
     DEF NodeNext, Campaign, LoseCampaign, WinCampaign, FinishDeposing,
         AdoptTerm, AdvanceLeaderTerm, DeposedByEntry, LoopEnds, WaitersGoOn

-----------------------------------------------------------------------------
(* The observer.                                                           *)
WatchTypeOK ==
  /\ phase \in {"polling", "judged", "narrating"}
  /\ snapshots \in Seq(Snapshots) /\ Len(snapshots) <= Len(NodeOrder)
  /\ reading \in [busy : BOOLEAN, role : {"leader", "follower"},
                  term : 0 .. MaxTerm, torn : BOOLEAN]
  /\ anomalies \subseteq Anomalies
  /\ ledSince \subseteq Node
  /\ behindSince \subseteq Node \X Node

\* What is remembered of the round still holds.
RoundHolds ==
  /\ \A n \in ledSince : role[n] = "leader"
  /\ \A p \in behindSince : Behind(p[1], p[2], lsn)

\* Snapshot i was taken of the i-th node, and says the truth of its moment.
SnapshotIsTrue(i) ==
  LET s == snapshots[i] IN
  /\ s.node = NodeOrder[i]
  /\ s.reachable => s.lsn = s.lsns[s.node]
  /\ s.reachable /\ s.role = "leader" =>
       s.torn \/ [node |-> s.node, term |-> s.term] \in won
  /\ s.reachable /\ s.node \in ledSince => s.role = "leader"
  /\ \A n \in Node : s.lsns[n] <= lsn[n]
  /\ \A p \in behindSince : Behind(p[1], p[2], s.lsns)
SnapshotsAreTrue == \A i \in DOMAIN snapshots : SnapshotIsTrue(i)

\* The logs have grown from one snapshot to the next.
SnapshotsAreOrdered ==
  \A i, j \in DOMAIN snapshots :
    i <= j => \A n \in Node : snapshots[i].lsns[n] <= snapshots[j].lsns[n]

\* So does the part of a health answer that has been read.
ReadingIsTrue ==
  reading.busy =>
    /\ MorePolls
    /\ reading.role = "leader" =>
         reading.torn \/ [node |-> Polled, term |-> reading.term] \in won
    /\ Polled \in ledSince => reading.role = "leader"

\* Anomalies are found in the snapshots, and all of them at first.
AnomaliesAreFound ==
  /\ phase = "polling" => anomalies = {}
  /\ anomalies \subseteq DetectAnomalies(snapshots)
  /\ phase = "judged" => anomalies = DetectAnomalies(snapshots)

WatchInv ==
  /\ WatchTypeOK /\ RoundHolds /\ SnapshotsAreTrue /\ SnapshotsAreOrdered
  /\ ReadingIsTrue /\ AnomaliesAreFound

LEMMA WatchInvInit == ObserverInit => WatchInv
<1> SUFFICES ASSUME ObserverInit PROVE WatchInv
  OBVIOUS
<1>1. WatchTypeOK
  BY NodeTasksAssumption, ObserverAssumption, EmptySeq
     DEF ObserverInit, WatchTypeOK, NotReading
<1>2. DOMAIN snapshots = {}
  BY DEF ObserverInit
<1>3. RoundHolds /\ SnapshotsAreTrue /\ SnapshotsAreOrdered
  BY <1>2 DEF ObserverInit, RoundHolds, SnapshotsAreTrue, SnapshotsAreOrdered
<1>4. ReadingIsTrue /\ AnomaliesAreFound
  BY DEF ObserverInit, ReadingIsTrue, NotReading, AnomaliesAreFound
<1> QED
  BY <1>1, <1>3, <1>4 DEF WatchInv

(* Polling goes through NodeOrder, whose nodes are all different.          *)
LEMMA PolledIsNext ==
  ASSUME WatchTypeOK, MorePolls
  PROVE  /\ Polled \in Node
         /\ Len(snapshots) + 1 \in 1 .. Len(NodeOrder)
<1>1. Len(snapshots) \in Nat /\ Len(NodeOrder) \in Nat
  BY ObserverAssumption DEF WatchTypeOK
<1>2. Len(snapshots) + 1 \in 1 .. Len(NodeOrder)
  BY <1>1 DEF MorePolls
<1> QED
  BY <1>2, ObserverAssumption DEF Polled

\* The anomalies found in snapshots are well-formed.
LEMMA DetectedAreAnomalies ==
  ASSUME NEW s \in Seq(Snapshots)
  PROVE  DetectAnomalies(s) \subseteq Anomalies
<1>1. \A i \in DOMAIN s : s[i].node \in Node /\ s[i].term \in 0 .. MaxTerm
  <2> \A i \in DOMAIN s : s[i] \in Snapshots
    OBVIOUS
  <2> QED
    BY DEF Snapshots
<1>2. /\ 0 \in 0 .. MaxTerm
      /\ Reachable(s) \subseteq DOMAIN s /\ Leaders(s) \subseteq DOMAIN s
  BY NodeTasksAssumption DEF Reachable, Leaders
<1>3. \A I \in SUBSET (DOMAIN s) : NodesAt(s, I) \in SUBSET Node
  BY <1>1 DEF NodesAt
<1>4. Unreachable(s) \subseteq Anomalies
  BY <1>1, <1>2 DEF Unreachable, Anomaly, Anomalies
<1>5. NoLeader(s) \subseteq Anomalies
  <2>1. NodesAt(s, Reachable(s)) \in SUBSET Node
    BY <1>2, <1>3
  <2> QED
    BY <1>2, <2>1 DEF NoLeader, Anomaly, Anomalies
<1>6. SplitBrain(s) \subseteq Anomalies
  <2> DEFINE group(t) == {i \in Leaders(s) : s[i].term = t}
  <2>1. ASSUME NEW a \in SplitBrain(s) PROVE a \in Anomalies
    <3>1. PICK i \in Leaders(s) :
            a = Anomaly("split_brain", NodesAt(s, group(s[i].term)), s[i].term)
      BY DEF SplitBrain
    <3>2. group(s[i].term) \in SUBSET (DOMAIN s)
      BY <1>2
    <3>3. NodesAt(s, group(s[i].term)) \in SUBSET Node /\ s[i].term \in 0 .. MaxTerm
      BY <1>1, <1>2, <1>3, <3>2
    <3> QED
      BY <3>1, <3>3 DEF Anomaly, Anomalies
  <2> QED
    BY <2>1
<1>7. ReplicationLag(s) \subseteq Anomalies
  BY <1>1, <1>2 DEF ReplicationLag, Anomaly, Anomalies
<1> QED
  BY <1>4, <1>5, <1>6, <1>7 DEF DetectAnomalies

(* A poll adds a snapshot: an unanswered one, or what health() read.       *)
LEMMA SnapshotAdded ==
  ASSUME TaskInv, WatchInv, MorePolls, NEW x \in Snapshots,
         snapshots' = Append(snapshots, x),
         x.node = Polled, x.lsns = lsn,
         x.reachable => /\ x.lsn = lsn[Polled] /\ reading.busy
                        /\ x.role = reading.role /\ x.term = reading.term
                        /\ x.torn = reading.torn,
         reading' = NotReading,
         UNCHANGED <<nodeVars, phase, anomalies, roundVars>>
  PROVE  WatchInv'
<1> DEFINE k == Len(snapshots) + 1
<1>1. /\ snapshots' \in Seq(Snapshots) /\ Len(snapshots') = k
      /\ \A i \in DOMAIN snapshots : snapshots'[i] = snapshots[i]
      /\ snapshots'[k] = x
      /\ DOMAIN snapshots' = 1 .. k /\ DOMAIN snapshots = 1 .. Len(snapshots)
      /\ Len(snapshots) \in Nat
  <2> snapshots \in Seq(Snapshots)
    BY DEF WatchInv, WatchTypeOK
  <2>1. /\ snapshots' \in Seq(Snapshots) /\ Len(snapshots') = Len(snapshots) + 1
        /\ \A i \in 1 .. Len(snapshots) : snapshots'[i] = snapshots[i]
        /\ snapshots'[Len(snapshots) + 1] = x
    BY AppendProperties
  <2>2. DOMAIN snapshots' = 1 .. Len(snapshots') /\ DOMAIN snapshots = 1 .. Len(snapshots)
        /\ Len(snapshots) \in Nat
    BY <2>1
  <2> QED
    BY <2>1, <2>2
<1>2. /\ Polled \in Node /\ k \in 1 .. Len(NodeOrder) /\ Polled = NodeOrder[k]
  BY PolledIsNext DEF WatchInv, Polled
<1>3. WatchTypeOK'
  <2>1. reading' \in [busy : BOOLEAN, role : {"leader", "follower"},
                      term : 0 .. MaxTerm, torn : BOOLEAN]
    BY NodeTasksAssumption DEF NotReading
  <2>2. Len(snapshots') <= Len(NodeOrder)
    BY <1>1, <1>2, ObserverAssumption
  <2> QED
    BY <1>1, <2>1, <2>2 DEF WatchInv, WatchTypeOK
<1>4. RoundHolds'
  BY DEF WatchInv, RoundHolds, Behind
<1>5. SnapshotsAreTrue'
  <2>1. ASSUME NEW i \in DOMAIN snapshots' PROVE SnapshotIsTrue(i)'
    <3>1. CASE i \in DOMAIN snapshots
      <4>1. SnapshotIsTrue(i) /\ snapshots'[i] = snapshots[i]
        BY <1>1, <3>1 DEF WatchInv, SnapshotsAreTrue
      <4> QED
        BY <4>1 DEF SnapshotIsTrue, Behind
    <3>2. CASE i = k
      <4>1. snapshots'[i] = x
        BY <1>1, <3>2
      <4>2. \A n \in Node : x.lsns[n] <= lsn[n]
        <5> lsn \in [Node -> 0 .. MaxLsn]
          BY DEF TaskInv, NodeTypeOK
        <5> QED
          OBVIOUS
      <4>3. \A p \in behindSince : Behind(p[1], p[2], x.lsns)
        BY DEF WatchInv, RoundHolds
      <4>4. /\ x.reachable /\ x.role = "leader" =>
                 x.torn \/ [node |-> x.node, term |-> x.term] \in won
            /\ x.reachable /\ x.node \in ledSince => x.role = "leader"
        BY DEF WatchInv, ReadingIsTrue
      <4>5. x.node = NodeOrder[i] /\ (x.reachable => x.lsn = x.lsns[x.node])
        BY <1>2, <3>2
      <4> QED
        BY <4>1, <4>2, <4>3, <4>4, <4>5 DEF SnapshotIsTrue, Behind
    <3> QED
      BY <1>1, <3>1, <3>2
  <2> QED
    BY <2>1 DEF SnapshotsAreTrue
<1>6. SnapshotsAreOrdered'
  <2>1. ASSUME NEW i \in DOMAIN snapshots', NEW j \in DOMAIN snapshots', i <= j,
               NEW n \in Node
        PROVE  snapshots'[i].lsns[n] <= snapshots'[j].lsns[n]
    <3>1. CASE j \in DOMAIN snapshots
      <4>1. i \in DOMAIN snapshots
        BY <1>1, <2>1, <3>1
      <4> QED
        BY <1>1, <2>1, <3>1, <4>1 DEF WatchInv, SnapshotsAreOrdered
    <3>2. CASE j = k /\ i \in DOMAIN snapshots
      <4>1. SnapshotIsTrue(i)
        BY <3>2 DEF WatchInv, SnapshotsAreTrue
      <4> QED
        BY <1>1, <3>2, <4>1 DEF SnapshotIsTrue
    <3>3. CASE j = k /\ i = k
      <4> lsn \in [Node -> 0 .. MaxLsn]
        BY DEF TaskInv, NodeTypeOK
      <4> QED
        BY <1>1, <3>3
    <3> QED
      BY <1>1, <3>1, <3>2, <3>3
  <2> QED
    BY <2>1 DEF SnapshotsAreOrdered
<1>7. ReadingIsTrue' /\ AnomaliesAreFound'
  BY DEF WatchInv, ReadingIsTrue, NotReading, AnomaliesAreFound, MorePolls
<1> QED
  BY <1>3, <1>4, <1>5, <1>6, <1>7 DEF WatchInv

LEMMA PollStep ==
  ASSUME TaskInv, WatchInv, PollFails \/ HealthReadsLsn
  PROVE  WatchInv'
<1>1. MorePolls /\ Polled \in Node
  BY PolledIsNext DEF PollFails, HealthReadsLsn, WatchInv
<1>2. lsn \in [Node -> 0 .. MaxLsn] /\ 0 \in 0 .. MaxLsn /\ 0 \in 0 .. MaxTerm
  BY NodeTasksAssumption DEF TaskInv, NodeTypeOK
<1>3. CASE PollFails
  <2> DEFINE x == [node |-> Polled, reachable |-> FALSE, role |-> "follower",
                   term |-> 0, lsn |-> 0, torn |-> FALSE, lsns |-> lsn]
  <2>1. x \in Snapshots
    BY <1>1, <1>2 DEF Snapshots
  <2>2. /\ snapshots' = Append(snapshots, x) /\ reading' = NotReading
        /\ UNCHANGED <<nodeVars, phase, anomalies, roundVars>>
        /\ x.node = Polled /\ x.lsns = lsn /\ ~x.reachable
    BY <1>3 DEF PollFails
  <2> HIDE DEF x
  <2> QED
    BY <1>1, <2>1, <2>2, SnapshotAdded
<1>4. CASE HealthReadsLsn
  <2> DEFINE x == [node |-> Polled, reachable |-> TRUE, role |-> reading.role,
                   term |-> reading.term, lsn |-> lsn[Polled],
                   torn |-> reading.torn, lsns |-> lsn]
  <2>1. x \in Snapshots
    BY <1>1, <1>2 DEF Snapshots, WatchInv, WatchTypeOK
  <2>2. /\ snapshots' = Append(snapshots, x) /\ reading' = NotReading
        /\ UNCHANGED <<nodeVars, phase, anomalies, roundVars>>
        /\ x.node = Polled /\ x.lsns = lsn /\ x.lsn = lsn[Polled]
        /\ reading.busy /\ x.role = reading.role /\ x.term = reading.term
        /\ x.torn = reading.torn
    BY <1>4 DEF HealthReadsLsn
  <2> HIDE DEF x
  <2> QED
    BY <1>1, <2>1, <2>2, SnapshotAdded
<1> QED
  BY <1>3, <1>4

(* Health() at the next node has read _role and _term.                     *)
LEMMA ReadRoleStep ==
  ASSUME TaskInv, WatchInv, HealthReadsRole
  PROVE  WatchInv'
<1>1. /\ MorePolls /\ Polled \in Node
      /\ UNCHANGED <<nodeVars, phase, snapshots, anomalies, roundVars>>
      /\ reading' = [busy |-> TRUE, role |-> role[Polled], term |-> term[Polled],
                     torn |-> deposing[Polled]]
  BY PolledIsNext DEF HealthReadsRole, WatchInv
<1>2. WatchTypeOK'
  <2>1. /\ role[Polled] \in {"leader", "follower"} /\ term[Polled] \in 0 .. MaxTerm
        /\ deposing[Polled] \in BOOLEAN
    BY <1>1 DEF TaskInv, NodeTypeOK
  <2> QED
    BY <1>1, <2>1 DEF WatchInv, WatchTypeOK
<1>3. RoundHolds' /\ SnapshotsAreTrue' /\ SnapshotsAreOrdered' /\ AnomaliesAreFound'
  BY <1>1
     DEF WatchInv, RoundHolds, SnapshotsAreTrue, SnapshotIsTrue,
         SnapshotsAreOrdered, AnomaliesAreFound, Behind
<1>4. ReadingIsTrue'
  <2>1. /\ role[Polled] = "leader" =>
             deposing[Polled] \/ [node |-> Polled, term |-> term[Polled]] \in won
        /\ Polled \in ledSince => role[Polled] = "leader"
    BY <1>1 DEF TaskInv, LeadersWon, WatchInv, RoundHolds
  <2> QED
    BY <1>1, <2>1 DEF ReadingIsTrue, MorePolls, Polled
<1> QED
  BY <1>2, <1>3, <1>4 DEF WatchInv

(* A list of snapshots is judged, narrated and given up.                   *)
LEMMA JudgeStep ==
  ASSUME TaskInv, WatchInv, Judge \/ \E a \in anomalies : Narrate(a)
  PROVE  WatchInv'
<1>1. UNCHANGED <<nodeVars, snapshots, reading, roundVars>>
  BY DEF Judge, Narrate
<1>2. RoundHolds' /\ SnapshotsAreTrue' /\ SnapshotsAreOrdered'
  BY <1>1
     DEF WatchInv, RoundHolds, SnapshotsAreTrue, SnapshotIsTrue,
         SnapshotsAreOrdered, Behind
<1>3. ~reading.busy
  BY DEF WatchInv, ReadingIsTrue, MorePolls, Judge, Narrate
<1>4. /\ phase' \in {"judged", "narrating"}
      /\ anomalies' \subseteq DetectAnomalies(snapshots)
      /\ phase' = "judged" => anomalies' = DetectAnomalies(snapshots)
  <2>1. CASE Judge
    BY <2>1 DEF Judge
  <2>2. CASE \E a \in anomalies : Narrate(a)
    BY <2>2 DEF Narrate, DropsNarrated, WatchInv, AnomaliesAreFound
  <2> QED
    BY <2>1, <2>2
<1>5. DetectAnomalies(snapshots)' = DetectAnomalies(snapshots)
  BY <1>1
     DEF DetectAnomalies, Unreachable, NoLeader, SplitBrain, ReplicationLag,
         Reachable, Leaders, NodesAt, Lag, FirstLeader
<1>6. DetectAnomalies(snapshots) \subseteq Anomalies
  BY DetectedAreAnomalies DEF WatchInv, WatchTypeOK
<1>7. WatchTypeOK'
  BY <1>1, <1>4, <1>6 DEF WatchInv, WatchTypeOK
<1>8. ReadingIsTrue' /\ AnomaliesAreFound'
  BY <1>1, <1>3, <1>4, <1>5 DEF ReadingIsTrue, AnomaliesAreFound
<1> QED
  BY <1>2, <1>7, <1>8 DEF WatchInv

LEMMA NextRoundStep ==
  ASSUME TaskInv, WatchInv, NextRound
  PROVE  WatchInv'
<1>1. /\ phase' = "polling" /\ snapshots' = << >> /\ anomalies' = {}
      /\ ledSince' = LeadersNow /\ behindSince' = BehindNow
      /\ UNCHANGED <<nodeVars, reading>> /\ ~reading.busy
  BY DEF NextRound, WatchInv, ReadingIsTrue, MorePolls
<1>2. DOMAIN snapshots' = {} /\ snapshots' \in Seq(Snapshots) /\ Len(snapshots') = 0
  BY <1>1, EmptySeq
<1>3. WatchTypeOK'
  BY <1>1, <1>2, ObserverAssumption
     DEF WatchInv, WatchTypeOK, LeadersNow, BehindNow
<1>4. RoundHolds' /\ SnapshotsAreTrue' /\ SnapshotsAreOrdered'
  BY <1>1, <1>2
     DEF RoundHolds, LeadersNow, BehindNow, Behind, SnapshotsAreTrue,
         SnapshotsAreOrdered
<1>5. ReadingIsTrue' /\ AnomaliesAreFound'
  BY <1>1 DEF ReadingIsTrue, AnomaliesAreFound
<1> QED
  BY <1>3, <1>4, <1>5 DEF WatchInv

(* The nodes go on: what was seen stays true, what lasts is remembered.    *)
LEMMA NodeStepKeeps ==
  ASSUME TaskInv, TaskInv', WatchInv, NodeStep
  PROVE  WatchInv'
<1>1. /\ won \subseteq won' /\ \A n \in Node : lsn'[n] >= lsn[n]
      /\ UNCHANGED watchVars
      /\ ledSince' = {n \in ledSince : role'[n] = "leader"}
      /\ behindSince' = {p \in behindSince : Behind(p[1], p[2], lsn')}
  BY HistoryGrows DEF NodeStep
<1>2. WatchTypeOK'
  BY <1>1 DEF WatchInv, WatchTypeOK
<1>3. RoundHolds'
  BY <1>1 DEF RoundHolds, Behind
<1>4. SnapshotsAreTrue'
  <2>1. ASSUME NEW i \in DOMAIN snapshots' PROVE SnapshotIsTrue(i)'
    <3>1. SnapshotIsTrue(i) /\ snapshots[i] \in Snapshots /\ snapshots' = snapshots
      BY <1>1, <2>1 DEF WatchInv, SnapshotsAreTrue, WatchTypeOK
    <3>2. \A n \in Node : snapshots[i].lsns[n] <= lsn'[n]
      <4>1. /\ lsn \in [Node -> 0 .. MaxLsn] /\ lsn' \in [Node -> 0 .. MaxLsn]
        BY DEF TaskInv, NodeTypeOK
      <4>2. snapshots[i].lsns \in [Node -> 0 .. MaxLsn]
        BY <3>1 DEF Snapshots
      <4>3. \A n \in Node : snapshots[i].lsns[n] <= lsn[n]
        BY <3>1 DEF SnapshotIsTrue
      <4> QED
        BY <1>1, <4>1, <4>2, <4>3
    <3> QED
      BY <1>1, <3>1, <3>2 DEF SnapshotIsTrue, Behind
  <2> QED
    BY <2>1 DEF SnapshotsAreTrue
<1>5. SnapshotsAreOrdered'
  BY <1>1 DEF WatchInv, SnapshotsAreOrdered
<1>6. ReadingIsTrue'
  BY <1>1 DEF WatchInv, ReadingIsTrue, MorePolls, Polled
<1>7. AnomaliesAreFound'
  <2>1. DetectAnomalies(snapshots)' = DetectAnomalies(snapshots)
    BY <1>1
       DEF DetectAnomalies, Unreachable, NoLeader, SplitBrain, ReplicationLag,
           Reachable, Leaders, NodesAt, Lag, FirstLeader
  <2> QED
    BY <1>1, <2>1 DEF WatchInv, AnomaliesAreFound
<1> QED
  BY <1>2, <1>3, <1>4, <1>5, <1>6, <1>7 DEF WatchInv

LEMMA ObserverInvStep ==
  TaskInv /\ WatchInv /\ [ObserverNext]_observerVars => TaskInv' /\ WatchInv'
<1> SUFFICES ASSUME TaskInv, WatchInv, [ObserverNext]_observerVars
             PROVE  TaskInv' /\ WatchInv'
  OBVIOUS
<1>1. CASE NodeStep
  <2>1. TaskInv'
    BY <1>1, TaskInvStep DEF NodeStep
  <2> QED
    BY <1>1, <2>1, NodeStepKeeps
<1>2. CASE ObserverStep
  <2>1. TaskInv'
    <3>1. UNCHANGED nodeVars
      BY <1>2
         DEF ObserverStep, PollFails, HealthReadsRole, HealthReadsLsn, Judge,
             Narrate, NextRound
    <3> QED
      BY <3>1, TaskInvStep
  <2> QED
    BY <1>2, <2>1, PollStep, ReadRoleStep, JudgeStep, NextRoundStep
       DEF ObserverStep
<1>3. CASE UNCHANGED observerVars
  <2>1. TaskInv'
    BY <1>3, TaskInvStep DEF observerVars
  <2>2. DetectAnomalies(snapshots)' = DetectAnomalies(snapshots)
    BY <1>3
       DEF observerVars, DetectAnomalies, Unreachable, NoLeader, SplitBrain,
           ReplicationLag, Reachable, Leaders, NodesAt, Lag, FirstLeader
  <2>3. WatchTypeOK' /\ RoundHolds' /\ SnapshotsAreTrue' /\ SnapshotsAreOrdered'
    BY <1>3
       DEF observerVars, WatchInv, WatchTypeOK, RoundHolds, SnapshotsAreTrue,
           SnapshotIsTrue, SnapshotsAreOrdered, Behind
  <2>4. ReadingIsTrue' /\ AnomaliesAreFound'
    BY <1>3, <2>2
       DEF observerVars, WatchInv, ReadingIsTrue, AnomaliesAreFound, MorePolls,
           Polled
  <2> QED
    BY <2>1, <2>3, <2>4 DEF WatchInv
<1> QED
  BY <1>1, <1>2, <1>3 DEF ObserverNext

LEMMA ObserverInvHolds == ObserverSpec => [](TaskInv /\ WatchInv)
<1>1. ObserverInit => TaskInv /\ WatchInv
  BY TaskInvInit, WatchInvInit DEF ObserverInit
<1> QED
  BY <1>1, ObserverInvStep, PTL DEF ObserverSpec

-----------------------------------------------------------------------------
(* The variables keep their types.                                         *)
THEOREM ObserverTypeCorrect == ObserverSpec => []ObserverTypeOK
<1>1. TaskInv /\ WatchInv => ObserverTypeOK
  BY DEF TaskInv, WatchInv, WatchTypeOK, ObserverTypeOK
<1> QED
  BY <1>1, ObserverInvHolds, PTL

(* A leader always has a heartbeat loop nobody has cancelled, or waits for *)
(* its old one to end (main.py:92).  At a node that never won an election  *)
(* while a step-down was waiting, the loop that runs is the one of         *)
(* _hb_task, and runs only at a leader.                                    *)
THEOREM LeadersKeepBeating == ObserverSpec => []LoopsMatchRoles
<1>1. TaskInv => LoopsMatchRoles
  BY DEF TaskInv, LoopsMatchRoles
<1> QED
  BY <1>1, ObserverInvHolds, PTL

(* What a snapshot list says, by the type of the anomaly.                  *)
LEMMA AnomalyCauses ==
  ASSUME WatchInv, NEW a \in anomalies
  PROVE  /\ a.type = "split_brain" =>
              \A i \in DOMAIN snapshots : snapshots[i].node \in a.nodes =>
                i \in Leaders(snapshots) /\ snapshots[i].term = a.term
         /\ a.type = "no_leader" =>
              /\ Leaders(snapshots) = {}
              /\ a.nodes = NodesAt(snapshots, Reachable(snapshots))
         /\ a.type = "replication_lag" =>
              /\ Leaders(snapshots) # {}
              /\ \E j \in Reachable(snapshots) :
                   /\ a.nodes = {snapshots[j].node}
                   /\ Lag(snapshots, j) > LagThreshold
<1> DEFINE s == snapshots
<1>1. a \in DetectAnomalies(s)
  BY DEF WatchInv, AnomaliesAreFound
<1>2. \A i, j \in DOMAIN s : s[i].node = s[j].node => i = j
  <2>1. \A i \in DOMAIN s : s[i].node = NodeOrder[i] /\ i \in DOMAIN NodeOrder
    <3>1. DOMAIN s = 1 .. Len(s) /\ Len(s) <= Len(NodeOrder) /\ Len(s) \in Nat
      BY DEF WatchInv, WatchTypeOK
    <3>2. DOMAIN NodeOrder = 1 .. Len(NodeOrder) /\ Len(NodeOrder) \in Nat
      BY ObserverAssumption
    <3>3. DOMAIN s \subseteq DOMAIN NodeOrder
      BY <3>1, <3>2
    <3>4. \A i \in DOMAIN s : SnapshotIsTrue(i)
      BY DEF WatchInv, SnapshotsAreTrue
    <3> QED
      BY <3>3, <3>4 DEF SnapshotIsTrue
  <2> QED
    BY <2>1, ObserverAssumption
<1>3. CASE a \in Unreachable(s)
  <2>1. a.type = "node_unreachable"
    BY <1>3 DEF Unreachable, Anomaly
  <2> QED
    BY <2>1
<1>4. CASE a \in NoLeader(s)
  <2>1. /\ a.type = "no_leader" /\ Leaders(s) = {}
        /\ a.nodes = NodesAt(s, Reachable(s))
    BY <1>4 DEF NoLeader, Anomaly
  <2> QED
    BY <2>1
<1>5. CASE a \in SplitBrain(s)
  <2> DEFINE group(t) == {i \in Leaders(s) : s[i].term = t}
  <2>1. PICK k \in Leaders(s) :
          a = Anomaly("split_brain", NodesAt(s, group(s[k].term)), s[k].term)
    BY <1>5 DEF SplitBrain
  <2>2. /\ a.type = "split_brain" /\ a.term = s[k].term
        /\ a.nodes = NodesAt(s, group(a.term))
    BY <2>1 DEF Anomaly
  <2>3. ASSUME NEW i \in DOMAIN s, s[i].node \in a.nodes
        PROVE  i \in Leaders(s) /\ s[i].term = a.term
    <3>1. PICK m \in group(a.term) : s[m].node = s[i].node
      BY <2>2, <2>3 DEF NodesAt
    <3>2. m \in DOMAIN s
      BY <3>1 DEF Leaders, Reachable
    <3> QED
      BY <1>2, <2>3, <3>1, <3>2
  <2> QED
    BY <2>2, <2>3
<1>6. CASE a \in ReplicationLag(s)
  <2>1. /\ Leaders(s) # {}
        /\ \E j \in Reachable(s) :
             a = Anomaly("replication_lag", {s[j].node}, 0) /\ Lag(s, j) > LagThreshold
    BY <1>6 DEF ReplicationLag
  <2>2. a.type = "replication_lag"
    BY <2>1 DEF Anomaly
  <2> QED
    BY <2>1, <2>2 DEF Anomaly
<1> QED
  BY <1>1, <1>3, <1>4, <1>5, <1>6 DEF DetectAnomalies

\* Snapshots are numbered, so some leader among them is the first.
LEMMA FirstLeaderLeads ==
  ASSUME WatchInv, Leaders(snapshots) # {}
  PROVE  FirstLeader(snapshots) \in Leaders(snapshots)
<1> DEFINE L == Leaders(snapshots)
<1>1. L \subseteq Nat
  BY DEF Leaders, Reachable, WatchInv, WatchTypeOK
<1> HIDE DEF L
<1>2. PICK m \in L : \A y \in L : ~(<<y, m>> \in OpToRel(<, Nat))
  BY <1>1, NatLessThanWellFounded, WFMin DEF L
<1>3. \A y \in L : ~(y < m)
  BY <1>1, <1>2 DEF OpToRel
<1>4. \E i \in L : \A j \in L : i <= j
  BY <1>1, <1>3
<1> QED
  BY <1>4 DEF FirstLeader, L

\* A reachable snapshot holds the LSN of its node at that moment.
LEMMA SnapshotLsn ==
  ASSUME WatchInv, NEW i \in Reachable(snapshots)
  PROVE  /\ i \in DOMAIN snapshots /\ i \in Nat
         /\ snapshots[i].node \in Node
         /\ snapshots[i].lsns \in [Node -> 0 .. MaxLsn]
         /\ snapshots[i].lsn = snapshots[i].lsns[snapshots[i].node]
         /\ snapshots[i].lsn \in Nat
<1>1. i \in DOMAIN snapshots /\ snapshots[i].reachable
  BY DEF Reachable
<1>2. snapshots[i] \in Snapshots /\ i \in Nat
  BY <1>1 DEF WatchInv, WatchTypeOK
<1>3. SnapshotIsTrue(i)
  BY <1>1 DEF WatchInv, SnapshotsAreTrue
<1> QED
  BY <1>1, <1>2, <1>3, NodeTasksAssumption DEF Snapshots, SnapshotIsTrue

(* Whoever is accused of a split brain did win the term, or health() was   *)
(* answered between the new term and the step-down (recovery_agent.py:124, *)
(* main.py:438).                                                           *)
THEOREM SplitBrainsWereWon == ObserverSpec => []AccusedWonOrTorn
<1>1. ASSUME WatchInv PROVE AccusedWonOrTorn
  <2>1. ASSUME NEW a \in anomalies, a.type = "split_brain",
               NEW i \in DOMAIN snapshots, snapshots[i].node \in a.nodes
        PROVE  \/ [node |-> snapshots[i].node, term |-> a.term] \in won
               \/ snapshots[i].torn
    <3>1. i \in Leaders(snapshots) /\ snapshots[i].term = a.term
      BY <1>1, <2>1, AnomalyCauses
    <3>2. snapshots[i].reachable /\ snapshots[i].role = "leader"
      BY <3>1 DEF Leaders, Reachable
    <3>3. SnapshotIsTrue(i)
      BY <1>1 DEF WatchInv, SnapshotsAreTrue
    <3> QED
      BY <3>1, <3>2, <3>3 DEF SnapshotIsTrue
  <2> QED
    BY <2>1 DEF AccusedWonOrTorn
<1> QED
  BY <1>1, ObserverInvHolds, PTL

(* No no_leader is cried over a node that answered and led all through the *)
(* round (recovery_agent.py:115).                                          *)
THEOREM SteadyLeadersAreSeen == ObserverSpec => []SteadyLeaderIsSeen
<1>1. ASSUME WatchInv PROVE SteadyLeaderIsSeen
  <2>1. ASSUME NEW a \in anomalies, a.type = "no_leader",
               NEW n \in a.nodes, n \in ledSince
        PROVE  FALSE
    <3>1. /\ Leaders(snapshots) = {}
          /\ a.nodes = NodesAt(snapshots, Reachable(snapshots))
      BY <1>1, <2>1, AnomalyCauses
    <3>2. PICK i \in Reachable(snapshots) : snapshots[i].node = n
      BY <2>1, <3>1 DEF NodesAt
    <3>3. SnapshotIsTrue(i) /\ snapshots[i].reachable
      BY <1>1, <3>2 DEF Reachable, WatchInv, SnapshotsAreTrue
    <3>4. i \in Leaders(snapshots)
      BY <2>1, <3>2, <3>3 DEF SnapshotIsTrue, Leaders
    <3> QED
      BY <3>1, <3>4
  <2> QED
    BY <2>1 DEF SteadyLeaderIsSeen
<1> QED
  BY <1>1, ObserverInvHolds, PTL

(* A reported lag of a node polled after the leader was real when it was   *)
(* polled, although the leader's LSN is older (recovery_agent.py:142).     *)
LEMMA LaterLagsAreReal == WatchInv => LaterPolledLagIsReal
<1>1. ASSUME WatchInv PROVE LaterPolledLagIsReal
  <2> DEFINE l == FirstLeader(snapshots)
  <2>1. ASSUME NEW a \in anomalies, a.type = "replication_lag",
               NEW i \in DOMAIN snapshots, snapshots[i].node \in a.nodes, l < i
        PROVE  Behind(snapshots[i].node, snapshots[l].node, snapshots[i].lsns)
    <3>1. Leaders(snapshots) # {}
      BY <1>1, <2>1, AnomalyCauses
    <3>2. PICK j \in Reachable(snapshots) :
            a.nodes = {snapshots[j].node} /\ Lag(snapshots, j) > LagThreshold
      BY <1>1, <2>1, AnomalyCauses
    <3>3. l \in Reachable(snapshots)
      BY <1>1, <3>1, FirstLeaderLeads DEF Leaders
    <3>4. i = j
      <4>1. j \in DOMAIN snapshots /\ snapshots[i].node = snapshots[j].node
        BY <2>1, <3>2 DEF Reachable
      <4>2. /\ snapshots[i].node = NodeOrder[i] /\ snapshots[j].node = NodeOrder[j]
        BY <1>1, <4>1 DEF WatchInv, SnapshotsAreTrue, SnapshotIsTrue
      <4>3. i \in DOMAIN NodeOrder /\ j \in DOMAIN NodeOrder
        <5>1. /\ DOMAIN snapshots = 1 .. Len(snapshots) /\ Len(snapshots) \in Nat
              /\ Len(snapshots) <= Len(NodeOrder)
          BY <1>1 DEF WatchInv, WatchTypeOK
        <5>2. DOMAIN NodeOrder = 1 .. Len(NodeOrder) /\ Len(NodeOrder) \in Nat
          BY ObserverAssumption
        <5> QED
          BY <4>1, <5>1, <5>2
      <4> QED
        BY <4>1, <4>2, <4>3, ObserverAssumption
    <3>5. /\ snapshots[l].lsn = snapshots[l].lsns[snapshots[l].node]
          /\ snapshots[i].lsn = snapshots[i].lsns[snapshots[i].node]
          /\ snapshots[l].node \in Node /\ snapshots[i].node \in Node
          /\ snapshots[l].lsns \in [Node -> 0 .. MaxLsn]
          /\ snapshots[i].lsns \in [Node -> 0 .. MaxLsn]
          /\ l \in Nat /\ i \in Nat /\ l \in DOMAIN snapshots
      BY <1>1, <3>2, <3>3, <3>4, SnapshotLsn
    <3>6. \A n \in Node : snapshots[l].lsns[n] <= snapshots[i].lsns[n]
      BY <1>1, <2>1, <3>5 DEF WatchInv, SnapshotsAreOrdered
    <3>7. snapshots[l].lsn - snapshots[i].lsn > LagThreshold
      BY <3>2, <3>4 DEF Lag
    <3> HIDE DEF l
    <3>8. /\ snapshots[l].lsns[snapshots[l].node] \in 0 .. MaxLsn
          /\ snapshots[i].lsns[snapshots[l].node] \in 0 .. MaxLsn
          /\ snapshots[i].lsns[snapshots[i].node] \in 0 .. MaxLsn
      BY <3>5
    <3>9. snapshots[l].lsns[snapshots[l].node] <= snapshots[i].lsns[snapshots[l].node]
      BY <3>5, <3>6
    <3>10. /\ snapshots[l].lsns[snapshots[l].node]
                - snapshots[i].lsns[snapshots[i].node] > LagThreshold
           /\ LagThreshold \in Nat /\ MaxLsn \in Nat
      BY <3>5, <3>7, NodeTasksAssumption, ObserverAssumption
    <3> QED
      BY <3>8, <3>9, <3>10 DEF Behind
  <2> QED
    BY <2>1 DEF LaterPolledLagIsReal
<1> QED
  BY <1>1

(* A lag that lasts from the begin of the round is reported of a follower  *)
(* polled before the only leader in sight (recovery_agent.py:142).         *)
LEMMA LastingLagsAreReported == WatchInv => LastingLagIsReported
<1>1. ASSUME WatchInv PROVE LastingLagIsReported
  <2>1. ASSUME phase = "judged", NEW i \in Reachable(snapshots),
               NEW j \in Reachable(snapshots), Leaders(snapshots) = {j}, i # j,
               <<snapshots[i].node, snapshots[j].node>> \in behindSince, i < j
        PROVE  Anomaly("replication_lag", {snapshots[i].node}, 0) \in anomalies
    <3>1. FirstLeader(snapshots) = j
      BY <1>1, <2>1, FirstLeaderLeads
    <3>2. /\ snapshots[i].lsn = snapshots[i].lsns[snapshots[i].node]
          /\ snapshots[j].lsn = snapshots[j].lsns[snapshots[j].node]
          /\ snapshots[i].node \in Node /\ snapshots[j].node \in Node
          /\ snapshots[i].lsns \in [Node -> 0 .. MaxLsn]
          /\ snapshots[j].lsns \in [Node -> 0 .. MaxLsn]
          /\ i \in DOMAIN snapshots /\ j \in DOMAIN snapshots /\ i \in Nat /\ j \in Nat
      BY <1>1, SnapshotLsn
    <3>3. Behind(snapshots[i].node, snapshots[j].node, snapshots[i].lsns)
      <4>1. SnapshotIsTrue(i)
        BY <1>1, <3>2 DEF WatchInv, SnapshotsAreTrue
      <4> DEFINE p == <<snapshots[i].node, snapshots[j].node>>
      <4>2. Behind(p[1], p[2], snapshots[i].lsns)
        BY <2>1, <4>1 DEF SnapshotIsTrue
      <4> QED
        BY <4>2
    <3>4. snapshots[i].lsns[snapshots[j].node] <= snapshots[j].lsns[snapshots[j].node]
      BY <1>1, <2>1, <3>2 DEF WatchInv, SnapshotsAreOrdered
    <3>5. /\ snapshots[i].lsns[snapshots[j].node] \in 0 .. MaxLsn
          /\ snapshots[j].lsns[snapshots[j].node] \in 0 .. MaxLsn
          /\ snapshots[i].lsns[snapshots[i].node] \in 0 .. MaxLsn
      BY <3>2
    <3>6. Lag(snapshots, i) > LagThreshold
      <4>1. LagThreshold \in Nat /\ MaxLsn \in Nat
        BY NodeTasksAssumption, ObserverAssumption
      <4>2. snapshots[j].lsns[snapshots[j].node]
              - snapshots[i].lsns[snapshots[i].node] > LagThreshold
        BY <3>3, <3>4, <3>5, <4>1 DEF Behind
      <4> QED
        BY <3>1, <3>2, <4>2 DEF Lag
    <3>7. Anomaly("replication_lag", {snapshots[i].node}, 0) \in ReplicationLag(snapshots)
      BY <2>1, <3>6 DEF ReplicationLag
    <3> QED
      BY <1>1, <2>1, <3>7 DEF WatchInv, AnomaliesAreFound, DetectAnomalies
  <2> QED
    BY <2>1 DEF LastingLagIsReported
<1> QED
  BY <1>1

(* No lag is reported of a node polled after its leader that was not there *)
(* when it was polled, and none that lasts is passed over in a node polled *)
(* before (recovery_agent.py:142).                                         *)
THEOREM LagReportsHold == ObserverSpec => []LagReportsAreRight
<1>1. WatchInv => LagReportsAreRight
  BY LaterLagsAreReal, LastingLagsAreReported DEF LagReportsAreRight
<1> QED
  BY <1>1, ObserverInvHolds, PTL
=============================================================================
