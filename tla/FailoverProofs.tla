--------------------------- MODULE FailoverProofs ---------------------------
(***************************************************************************)
(* Theorems about Failover.tla, for every set of nodes and all timer       *)
(* values with MaxGap < TimeoutMin: with its timers the election is still  *)
(* Election's, and a follower that hears its leader does not challenge it. *)
(***************************************************************************)
EXTENDS Failover, ElectionProofs

USE DEF roleVars, walVars, historyVars, timerVars, netVars

-----------------------------------------------------------------------------
(* The inductive invariant.                                                *)
TimerTypeOK ==
  /\ waited \in [Node -> 0 .. LongestWait]
  /\ beatAge \in [Node -> 0 .. MaxGap]
  /\ inbox \subseteq Beats
  /\ cut \subseteq Node
  /\ wasCut \subseteq Node
  /\ heard \in [Node -> Node \cup {NoNode}]

\* A heartbeat on its way is one that was sent.
BeatsWereSent ==
  \A b \in inbox : [leader |-> b.leader, term |-> b.term] \in heartbeats

\* Whom a node remembers goes on beating, and nothing has come between.
HeardBeat ==
  \A n \in Node : heard[n] # NoNode =>
    /\ up[n] /\ heard[n] # n
    /\ Connected(n, heard[n])
    /\ heard[n] \in beating

\* The countdown of a node that has heard a loop runs no longer than that
\* loop has been silent, unless a heartbeat is waiting for the node.
WaitIsShort(n) ==
  /\ waited[n] <= MaxGap
  /\ \/ waited[n] <= beatAge[heard[n]]
     \/ \E b \in inbox : b.leader = heard[n] /\ b.to = n
HeardKeepWaiting ==
  \A n \in Node : heard[n] # NoNode /\ ~campaign[n].open => WaitIsShort(n)

FailoverInv ==
  /\ ElectionInv /\ TimerTypeOK
  /\ BeatsWereSent /\ HeardBeat /\ HeardKeepWaiting

LEMMA FailoverInvInit == FailoverInit => FailoverInv
<1> SUFFICES ASSUME FailoverInit PROVE FailoverInv
  OBVIOUS
<1>1. ElectionInv
  BY ElectionInvInit DEF FailoverInit
<1>2. TimerTypeOK
  <2>1. /\ LongestWait \in Nat /\ MaxGap \in Nat /\ MaxFaults \in Nat
    BY TimerAssumption DEF LongestWait
  <2> QED
    BY <2>1, NodeAssumption DEF FailoverInit, TimerTypeOK
<1>3. BeatsWereSent
  BY DEF FailoverInit, BeatsWereSent
<1>4. HeardBeat /\ HeardKeepWaiting
  BY DEF FailoverInit, HeardBeat, HeardKeepWaiting
<1> QED
  BY <1>1, <1>2, <1>3, <1>4 DEF FailoverInv

-----------------------------------------------------------------------------
(* Every step is one of Election, or leaves its variables alone.           *)
LEMMA FailoverStepElects ==
  ASSUME TimerTypeOK, BeatsWereSent, [FailoverNext]_failoverVars
  PROVE  [ElectionNext]_electionVars
<1>1. CASE Tick \/ UNCHANGED failoverVars
  BY <1>1 DEF Tick, failoverVars
<1>2. ASSUME NEW n \in Node, NodeActs(n) PROVE [ElectionNext]_electionVars
  BY <1>2
     DEF NodeActs, CampaignTimed, CountdownRestarts, CampaignEnds, BeatTimed,
         ElectionNext
<1>3. ASSUME NEW m \in requests, HandleVoteTimed(m) PROVE ElectionNext
  BY <1>3 DEF HandleVoteTimed, ElectionNext
<1>4. ASSUME NEW b \in inbox, Hear(b) PROVE [ElectionNext]_electionVars
  <2> DEFINE beat == [leader |-> b.leader, term |-> b.term]
  <2>1. CASE Follows(b.to, b)
    <3>1. beat \in heartbeats /\ HandleHeartbeat(b.to, beat)
      BY <1>4, <2>1 DEF Hear, BeatsWereSent
    <3>2. b.to \in Node
      BY DEF TimerTypeOK, Beats
    <3> QED
      BY <3>1, <3>2 DEF ElectionNext
  <2>2. CASE ~Follows(b.to, b)
    BY <1>4, <2>2 DEF Hear
  <2> QED
    BY <2>1, <2>2
<1>5. ASSUME NEW n \in Node, CrashTimed(n) \/ RestartTimed(n) \/ Cut(n) \/ Heal(n)
      PROVE  [ElectionNext]_electionVars
  BY <1>5 DEF CrashTimed, RestartTimed, Cut, Heal, ElectionNext
<1> QED
  BY <1>1, <1>2, <1>3, <1>4, <1>5 DEF FailoverNext, Runs

-----------------------------------------------------------------------------
(* The types.                                                              *)
LEMMA TimerTypesStep ==
  ASSUME FailoverInv, ElectionInv', [FailoverNext]_failoverVars
  PROVE  TimerTypeOK'
<1>1. /\ waited \in [Node -> 0 .. LongestWait] /\ beatAge \in [Node -> 0 .. MaxGap]
      /\ inbox \subseteq Beats /\ cut \subseteq Node /\ wasCut \subseteq Node
      /\ heard \in [Node -> Node \cup {NoNode}]
  BY DEF FailoverInv, TimerTypeOK
<1>2. /\ LongestWait \in Nat /\ MaxGap \in Nat /\ MaxFaults \in Nat
      /\ TimeoutMax <= LongestWait /\ VoteTimeout <= LongestWait
      /\ TimeoutMax \in Nat /\ VoteTimeout \in Nat
  BY TimerAssumption DEF LongestWait
<1>3. /\ \A n \in Node : Unhear(n) \in [Node -> Node \cup {NoNode}]
      /\ StillHeard \in [Node -> Node \cup {NoNode}]
  BY <1>1 DEF Unhear, StillHeard
<1>4. \A n \in Node : Restarted(n) \in [Node -> 0 .. LongestWait]
  BY <1>1, <1>2 DEF Restarted
<1>5. CASE Tick
  <2>1. UNCHANGED <<electionVars, netVars, heard>>
    BY <1>5 DEF Tick
  <2>2. waited' \in [Node -> 0 .. LongestWait]
    <3>1. ASSUME NEW n \in Node, up[n] PROVE waited[n] + 1 \in 0 .. LongestWait
      <4>1. ~(waited[n] >= IF campaign[n].open THEN VoteTimeout ELSE TimeoutMax)
        BY <1>5, <3>1 DEF Tick, Due
      <4> QED
        BY <1>1, <1>2, <4>1
    <3>2. 0 \in 0 .. LongestWait
      BY <1>2
    <3> QED
      BY <1>5, <3>1, <3>2 DEF Tick
  <2>3. beatAge' \in [Node -> 0 .. MaxGap]
    <3>1. ASSUME NEW n \in Node, n \in beating
          PROVE  beatAge[n] + 1 \in 0 .. MaxGap
      <4>1. ~(beatAge[n] >= MaxGap)
        BY <1>5, <3>1 DEF Tick, Due, FailoverInv, ElectionInv, LoopsHaveTerms
      <4> QED
        BY <1>1, <1>2, <4>1
    <3>2. 0 \in 0 .. MaxGap
      BY <1>2
    <3> QED
      BY <1>5, <3>1, <3>2 DEF Tick
  <2> QED
    BY <1>1, <2>1, <2>2, <2>3 DEF TimerTypeOK
<1>6. ASSUME NEW n \in Node,
             CampaignTimed(n) \/ CountdownRestarts(n) \/ CampaignEnds(n)
      PROVE  TimerTypeOK'
  <2>1. UNCHANGED netVars
    BY <1>6 DEF CampaignTimed, CountdownRestarts, CampaignEnds
  <2>2. /\ waited' \in [Node -> 0 .. LongestWait]
        /\ beatAge' \in [Node -> 0 .. MaxGap]
    BY <1>1, <1>2, <1>6 DEF CampaignTimed, CountdownRestarts, CampaignEnds
  <2>3. heard' \in [Node -> Node \cup {NoNode}]
    BY <1>1, <1>6 DEF CampaignTimed, CountdownRestarts, CampaignEnds
  <2> QED
    BY <1>1, <2>1, <2>2, <2>3 DEF TimerTypeOK
<1>7. ASSUME NEW n \in Node, BeatTimed(n) PROVE TimerTypeOK'
  <2>1. term[n] \in Terms
    BY <1>7
       DEF BeatTimed, SendHeartbeat, FailoverInv, ElectionInv, LoopsHaveTerms
  <2>2. inbox' \subseteq Beats
    BY <1>1, <1>7, <2>1 DEF BeatTimed, Peers, Beats
  <2>3. beatAge' \in [Node -> 0 .. MaxGap]
    BY <1>1, <1>2, <1>7 DEF BeatTimed
  <2> QED
    BY <1>1, <1>7, <2>2, <2>3 DEF BeatTimed, TimerTypeOK
<1>8. ASSUME NEW m \in requests, HandleVoteTimed(m) PROVE TimerTypeOK'
  <2>1. m.to \in Node
    BY DEF FailoverInv, ElectionInv, ElectionTypeOK, Requests
  <2> QED
    BY <1>1, <1>3, <1>4, <1>8, <2>1 DEF HandleVoteTimed, TimerTypeOK
<1>9. ASSUME NEW b \in inbox, Hear(b) PROVE TimerTypeOK'
  <2>1. b.to \in Node /\ b.leader \in Node
    BY <1>1 DEF Beats
  <2>2. heard' \in [Node -> Node \cup {NoNode}]
    BY <1>1, <1>3, <1>9, <2>1 DEF Hear
  <2> QED
    BY <1>1, <1>4, <1>9, <2>1, <2>2 DEF Hear, TimerTypeOK
<1>10. ASSUME NEW n \in Node, CrashTimed(n) \/ Cut(n) PROVE TimerTypeOK'
  <2>2. wasCut' \subseteq Node /\ cut' \subseteq Node
    BY <1>1, <1>10 DEF CrashTimed, Cut
  <2> QED
    BY <1>1, <1>3, <1>10, <2>2 DEF CrashTimed, Cut, TimerTypeOK
<1>11. ASSUME NEW n \in Node, RestartTimed(n) \/ Heal(n) PROVE TimerTypeOK'
  BY <1>1, <1>2, <1>11 DEF RestartTimed, Heal, TimerTypeOK
<1>12. CASE UNCHANGED failoverVars
  BY <1>1, <1>12 DEF failoverVars, TimerTypeOK
<1> QED
  BY <1>5, <1>6, <1>7, <1>8, <1>9, <1>10, <1>11, <1>12
     DEF FailoverNext, Runs, NodeActs

-----------------------------------------------------------------------------
(* What was sent and heard.                                                *)
LEMMA BeatsStep ==
  ASSUME FailoverInv, [FailoverNext]_failoverVars
  PROVE  BeatsWereSent'
<1>1. heartbeats \subseteq heartbeats'
  BY DEF FailoverNext, Runs, NodeActs, Tick, CampaignTimed, CountdownRestarts,
         CampaignEnds, BeatTimed, HandleVoteTimed, Hear, CrashTimed, RestartTimed,
         Cut, Heal, failoverVars, electionVars, StartElection, WinElection,
         LoseElection, SendHeartbeat, HandleVote, HandleHeartbeat, Crash, Restart
<1>2. ASSUME NEW n \in Node, BeatTimed(n), NEW b \in inbox', b \notin inbox
      PROVE  [leader |-> b.leader, term |-> b.term] \in heartbeats'
  BY <1>2 DEF BeatTimed, SendHeartbeat
<1>3. (\E n \in Node : BeatTimed(n)) \/ inbox' \subseteq inbox
  BY DEF FailoverNext, Runs, NodeActs, Tick, CampaignTimed, CountdownRestarts,
         CampaignEnds, HandleVoteTimed, Hear, CrashTimed, RestartTimed, Cut, Heal,
         failoverVars
<1> QED
  BY <1>1, <1>2, <1>3 DEF BeatsWereSent, FailoverInv

\* Who is remembered after a step was remembered before it, or has just been
\* followed; in any case it is beating.
LEMMA HeardIsOldOrNew ==
  ASSUME FailoverInv, [FailoverNext]_failoverVars, NEW n \in Node,
         heard'[n] # NoNode
  PROVE  /\ heard'[n] \in beating'
         /\ \/ heard'[n] = heard[n]
            \/ \E b \in inbox : /\ Hear(b) /\ b.to = n /\ Follows(n, b)
                                /\ heard'[n] = b.leader
<1>1. /\ heard \in [Node -> Node \cup {NoNode}] /\ beating \subseteq Node
      /\ inbox \subseteq Beats
      /\ heard[n] # NoNode => heard[n] \in beating
  BY DEF FailoverInv, TimerTypeOK, ElectionInv, ElectionTypeOK, HeardBeat
<1>2. ASSUME NEW b \in inbox, Hear(b)
      PROVE  /\ heard'[n] \in beating'
             /\ \/ heard'[n] = heard[n]
                \/ Hear(b) /\ b.to = n /\ Follows(n, b) /\ heard'[n] = b.leader
  <2>1. b.to \in Node
    BY <1>1 DEF Beats
  <2>2. CASE ~Follows(b.to, b)
    BY <1>1, <1>2, <2>2 DEF Hear, electionVars
  <2>3. CASE Follows(b.to, b) /\ b.to # n
    BY <1>1, <1>2, <2>1, <2>3 DEF Hear, StillHeard
  <2>4. CASE Follows(b.to, b) /\ b.to = n
    <3>1. heard'[n] = IF b.leader \in beating THEN b.leader ELSE NoNode
      BY <1>2, <2>1, <2>4 DEF Hear, StillHeard
    <3>2. b.leader # n /\ beating' \in BeatingAt(n, b.term)
      BY <1>2, <2>4 DEF Hear, HandleHeartbeat
    <3>3. b.leader \in beating => b.leader \in beating'
      BY <3>2 DEF BeatingAt
    <3> QED
      BY <1>2, <2>4, <3>1, <3>3
  <2> QED
    BY <2>2, <2>3, <2>4
<1>3. ASSUME NEW m \in Node, CrashTimed(m) \/ Cut(m)
      PROVE  heard'[n] = heard[n] /\ heard'[n] \in beating'
  <2>1. heard'[n] = IF n = m \/ heard[n] = m THEN NoNode ELSE heard[n]
    BY <1>3 DEF CrashTimed, Cut, Unhear
  <2>2. beating \ {m} \subseteq beating'
    BY <1>3 DEF CrashTimed, Cut, Crash, electionVars
  <2> QED
    BY <1>1, <2>1, <2>2
<1>4. ASSUME NEW m \in Node, CampaignTimed(m)
      PROVE  heard'[n] = heard[n] /\ heard'[n] \in beating'
  BY <1>1, <1>4 DEF CampaignTimed, StartElection
<1>5. ASSUME NEW m \in requests, HandleVoteTimed(m)
      PROVE  heard'[n] = heard[n] /\ heard'[n] \in beating'
  BY <1>1, <1>5 DEF HandleVoteTimed, StillHeard
<1>6. CASE UNCHANGED heard /\ beating \subseteq beating'
  BY <1>1, <1>6
<1> QED
  BY <1>2, <1>3, <1>4, <1>5, <1>6
     DEF FailoverNext, Runs, NodeActs, Tick, CountdownRestarts, CampaignEnds,
         BeatTimed, RestartTimed, Heal, failoverVars, electionVars, WinElection,
         LoseElection, SendHeartbeat, Restart

LEMMA HeardStep ==
  ASSUME FailoverInv, [FailoverNext]_failoverVars
  PROVE  HeardBeat'
<1>1. /\ heard \in [Node -> Node \cup {NoNode}] /\ inbox \subseteq Beats
      /\ up \in [Node -> BOOLEAN] /\ HeardBeat
  BY DEF FailoverInv, TimerTypeOK, ElectionInv, ElectionTypeOK
<1>2. ASSUME NEW n \in Node, heard'[n] = heard[n], heard[n] # NoNode
      PROVE  /\ up'[n] /\ heard'[n] # n
             /\ n \notin cut' /\ heard'[n] \notin cut'
  <2> DEFINE l == heard[n]
  <2>1. up[n] /\ l # n /\ Connected(n, l)
    BY <1>1, <1>2 DEF HeardBeat
  <2>2. ASSUME NEW m \in Node, CrashTimed(m) \/ Cut(m) PROVE m # n /\ m # l
    <3>1. heard'[n] = IF n = m \/ heard[n] = m THEN NoNode ELSE heard[n]
      BY <2>2 DEF CrashTimed, Cut, Unhear
    <3> QED
      BY <1>2, <3>1
  <2>3. up'[n]
    <3>1. (\E m \in Node : CrashTimed(m) \/ RestartTimed(m)) \/ UNCHANGED up
      BY DEF FailoverNext, Runs, NodeActs, Tick, CampaignTimed, CountdownRestarts,
             CampaignEnds, BeatTimed, HandleVoteTimed, Hear, Cut, Heal,
             failoverVars, electionVars, StartElection, WinElection,
             LoseElection, SendHeartbeat, HandleVote, HandleHeartbeat
    <3>2. ASSUME NEW m \in Node, CrashTimed(m) PROVE up'[n]
      BY <1>1, <2>1, <2>2, <3>2 DEF CrashTimed, Crash
    <3>3. ASSUME NEW m \in Node, RestartTimed(m) PROVE up'[n]
      BY <1>1, <2>1, <3>3 DEF RestartTimed, Restart
    <3> QED
      BY <2>1, <3>1, <3>2, <3>3
  <2>4. n \notin cut' /\ l \notin cut'
    <3>1. (\E m \in Node : Cut(m)) \/ cut' \subseteq cut
      BY DEF FailoverNext, Runs, NodeActs, Tick, CampaignTimed, CountdownRestarts,
             CampaignEnds, BeatTimed, HandleVoteTimed, Hear, CrashTimed,
             RestartTimed, Heal, failoverVars
    <3>2. ASSUME NEW m \in Node, Cut(m) PROVE cut' = cut \cup {m} /\ m # n /\ m # l
      BY <2>2, <3>2 DEF Cut
    <3> QED
      BY <2>1, <3>1, <3>2 DEF Connected
  <2> QED
    BY <1>2, <2>1, <2>3, <2>4 DEF Connected
<1>3. ASSUME NEW n \in Node, NEW b \in inbox, Hear(b), b.to = n, Follows(n, b),
             heard'[n] = b.leader
      PROVE  /\ up'[n] /\ heard'[n] # n
             /\ n \notin cut' /\ heard'[n] \notin cut'
  <2>1. /\ b.leader # n /\ Connected(b.leader, n)
        /\ UNCHANGED <<up, cut>> /\ up[n]
    BY <1>3 DEF Hear, HandleHeartbeat, Reaches
  <2> QED
    BY <1>3, <2>1 DEF Connected
<1>4. ASSUME NEW n \in Node, heard'[n] # NoNode
      PROVE  /\ up'[n] /\ heard'[n] # n
             /\ n \notin cut' /\ heard'[n] \notin cut'
             /\ heard'[n] \in beating'
  BY <1>2, <1>3, <1>4, HeardIsOldOrNew
<1> QED
  BY <1>4 DEF HeardBeat, Connected

-----------------------------------------------------------------------------
(* The countdown of a node that hears a loop.                              *)
LEMMA RestartedWait ==
  ASSUME NEW n \in Node, waited'[n] = 0, heard'[n] \in Node,
         beatAge' \in [Node -> 0 .. MaxGap]
  PROVE  WaitIsShort(n)'
<1>1. beatAge'[heard'[n]] >= 0 /\ MaxGap >= 0
  BY TimerAssumption
<1> QED
  BY <1>1 DEF WaitIsShort

LEMMA WaitStep ==
  ASSUME FailoverInv, TimerTypeOK', [FailoverNext]_failoverVars
  PROVE  HeardKeepWaiting'
<1> SUFFICES ASSUME NEW n \in Node, heard'[n] # NoNode, ~campaign'[n].open
             PROVE  WaitIsShort(n)'
  BY DEF HeardKeepWaiting
<1>1. /\ waited \in [Node -> 0 .. LongestWait] /\ beatAge \in [Node -> 0 .. MaxGap]
      /\ heard \in [Node -> Node \cup {NoNode}] /\ MaxGap \in Nat
      /\ campaign \in [Node -> Campaigns] /\ role \in [Node -> {"leader", "follower"}]
  BY TimerAssumption DEF FailoverInv, TimerTypeOK, ElectionInv, ElectionTypeOK
<1>2. waited'[n] = 0 => WaitIsShort(n)'
  BY RestartedWait DEF TimerTypeOK
<1>3. CASE heard'[n] # heard[n]
  <2>1. PICK b \in inbox : Hear(b) /\ b.to = n /\ Follows(n, b)
    BY <1>3, HeardIsOldOrNew
  <2>2. UNCHANGED campaign
    BY <2>1 DEF Hear, HandleHeartbeat
  <2>3. waited'[n] = 0
    BY <1>1, <2>1, <2>2 DEF Hear, Restarted
  <2> QED
    BY <1>2, <2>3
<1>4. CASE heard'[n] = heard[n]
  <2>2. PICK l \in Node : heard[n] = l /\ heard'[n] = l
    BY <1>1, <1>4
  <2>3. /\ Connected(n, l) /\ l # n /\ up[n] /\ l # NoNode
        /\ l \in beating /\ up[l]
    BY <2>2 DEF FailoverInv, HeardBeat, ElectionInv, LoopsHaveTerms
  <2>4. ~campaign[n].open =>
          /\ waited[n] <= MaxGap
          /\ \/ waited[n] <= beatAge[l]
             \/ \E b \in inbox : b.leader = l /\ b.to = n
    BY <2>2, <2>3 DEF FailoverInv, HeardKeepWaiting, WaitIsShort
  <2>5. ASSUME waited'[n] <= MaxGap,
               waited'[n] <= beatAge'[l] \/ \E b \in inbox' : b.leader = l /\ b.to = n
        PROVE  WaitIsShort(n)'
    BY <2>2, <2>5 DEF WaitIsShort
  <2>6. CASE Tick
    <3>1. ~campaign[n].open
      BY <2>6 DEF Tick, electionVars
    <3>2. ~\E b \in inbox : b.leader = l /\ b.to = n
      BY <2>3, <2>6 DEF Tick, Due, Reaches, Connected
    <3>3. beatAge[l] < MaxGap
      <4>1. ~(beatAge[l] >= MaxGap)
        BY <2>3, <2>6 DEF Tick, Due
      <4> QED
        BY <1>1, <4>1
    <3>4. waited'[n] = waited[n] + 1 /\ beatAge'[l] = beatAge[l] + 1
      BY <2>3, <2>6 DEF Tick
    <3>5. waited[n] <= beatAge[l] /\ waited[n] \in Nat /\ beatAge[l] \in Nat
      BY <1>1, <2>4, <3>1, <3>2
    <3>6. waited'[n] <= MaxGap /\ waited'[n] <= beatAge'[l]
      BY <1>1, <3>3, <3>4, <3>5
    <3> QED
      BY <2>5, <3>6
  <2>7. ASSUME NEW m \in Node, CampaignTimed(m) PROVE WaitIsShort(n)'
    <3>1. m # n
      BY <1>1, <2>7 DEF CampaignTimed, StartElection, NewCampaign
    <3>2. /\ campaign'[n] = campaign[n] /\ waited'[n] = waited[n]
          /\ UNCHANGED <<beatAge, inbox>>
      BY <1>1, <2>7, <3>1 DEF CampaignTimed, StartElection
    <3> QED
      BY <2>4, <2>5, <3>2
  <2>8. ASSUME NEW m \in Node, CountdownRestarts(m) PROVE WaitIsShort(n)'
    <3>1. CASE m = n
      BY <1>1, <1>2, <2>8, <3>1 DEF CountdownRestarts
    <3>2. CASE m # n
      <4>1. /\ campaign'[n] = campaign[n] /\ waited'[n] = waited[n]
            /\ UNCHANGED <<beatAge, inbox>>
        BY <1>1, <2>8, <3>2 DEF CountdownRestarts, electionVars
      <4> QED
        BY <2>4, <2>5, <4>1
    <3> QED
      BY <3>1, <3>2
  <2>9. ASSUME NEW m \in Node, CampaignEnds(m) PROVE WaitIsShort(n)'
    <3>1. CASE m = n
      BY <1>1, <1>2, <2>9, <3>1 DEF CampaignEnds
    <3>2. CASE m # n
      <4>2. beatAge'[l] = beatAge[l]
        BY <1>1, <2>3, <2>9 DEF CampaignEnds
      <4>3. /\ campaign'[n] = campaign[n] /\ waited'[n] = waited[n]
            /\ beatAge'[l] = beatAge[l] /\ UNCHANGED inbox
        BY <1>1, <2>9, <3>2, <4>2 DEF CampaignEnds, WinElection, LoseElection
      <4> QED
        BY <2>4, <2>5, <4>3
    <3> QED
      BY <3>1, <3>2
  <2>10. ASSUME NEW m \in Node, BeatTimed(m) PROVE WaitIsShort(n)'
    <3>1. UNCHANGED <<campaign, waited>> /\ inbox \subseteq inbox'
      BY <2>10 DEF BeatTimed, SendHeartbeat
    <3>2. CASE m = l
      <4>1. [leader |-> l, term |-> term[l], to |-> n] \in inbox'
        BY <2>3, <2>10, <3>2 DEF BeatTimed, Peers, Reaches, Connected
      <4>2. \E b \in inbox' : b.leader = l /\ b.to = n
        BY <4>1
      <4> QED
        BY <2>4, <2>5, <3>1, <4>2
    <3>3. CASE m # l
      <4>1. beatAge'[l] = beatAge[l]
        BY <1>1, <2>10, <3>3 DEF BeatTimed
      <4> QED
        BY <2>4, <2>5, <3>1, <4>1
    <3> QED
      BY <3>2, <3>3
  <2>11. ASSUME NEW m \in requests, HandleVoteTimed(m) PROVE WaitIsShort(n)'
    <3>1. m.from \in Node /\ m.to \in Node
      BY DEF FailoverInv, ElectionInv, ElectionTypeOK, Requests
    <3>2. campaign'[n].open = campaign[n].open /\ UNCHANGED <<beatAge, inbox>>
      BY <1>1, <2>11, <3>1 DEF HandleVoteTimed, HandleVote, CountReply
    <3>3. waited'[n] = waited[n] \/ waited'[n] = 0
      BY <1>1, <2>11, <3>1 DEF HandleVoteTimed, Restarted
    <3> QED
      BY <1>2, <2>4, <2>5, <3>2, <3>3
  <2>12. ASSUME NEW b \in inbox, Hear(b) PROVE WaitIsShort(n)'
    <3>1. UNCHANGED <<campaign, beatAge>> /\ inbox' = inbox \ {b}
      BY <2>12 DEF Hear, HandleHeartbeat, electionVars
    <3>2. CASE b.to = n
      BY <1>1, <1>2, <2>12, <3>1, <3>2 DEF Hear, Restarted
    <3>3. CASE b.to # n
      <4>1. waited'[n] = waited[n]
        BY <1>1, <2>12, <3>3 DEF Hear, Restarted
      <4>2. \A d \in inbox : d.to = n => d \in inbox'
        BY <3>1, <3>3
      <4> QED
        BY <2>4, <2>5, <3>1, <4>1, <4>2
    <3> QED
      BY <3>2, <3>3
  <2>13. ASSUME NEW m \in Node, CrashTimed(m) \/ Cut(m) PROVE WaitIsShort(n)'
    <3>1. heard'[n] = IF n = m \/ heard[n] = m THEN NoNode ELSE heard[n]
      BY <2>13 DEF CrashTimed, Cut, Unhear
    <3>2. m # n /\ m # l
      BY <2>2, <2>3, <3>1
    <3>3. /\ campaign'[n] = campaign[n] /\ UNCHANGED timerVars
          /\ inbox' = inbox \ BeatsOf(m)
      BY <1>1, <2>13, <3>2 DEF CrashTimed, Cut, Crash, electionVars
    <3>4. \A b \in inbox : b.leader = l /\ b.to = n => b \in inbox'
      BY <3>2, <3>3 DEF BeatsOf
    <3> QED
      BY <2>4, <2>5, <3>3, <3>4
  <2>14. ASSUME NEW m \in Node, RestartTimed(m) PROVE WaitIsShort(n)'
    <3>1. /\ UNCHANGED <<campaign, beatAge, inbox>>
          /\ waited'[n] = waited[n] \/ waited'[n] = 0
      BY <1>1, <2>14 DEF RestartTimed, Restart
    <3> QED
      BY <1>2, <2>4, <2>5, <3>1
  <2>15. CASE (\E m \in Node : Heal(m)) \/ UNCHANGED failoverVars
    <3>1. UNCHANGED <<campaign, waited, beatAge, inbox>>
      BY <2>15 DEF Heal, failoverVars, electionVars
    <3> QED
      BY <2>4, <2>5, <3>1
  <2> QED
    BY <2>6, <2>7, <2>8, <2>9, <2>10, <2>11, <2>12, <2>13, <2>14, <2>15
       DEF FailoverNext, Runs, NodeActs
<1> QED
  BY <1>3, <1>4

LEMMA FailoverInvStep ==
  FailoverInv /\ [FailoverNext]_failoverVars => FailoverInv'
<1> SUFFICES ASSUME FailoverInv, [FailoverNext]_failoverVars PROVE FailoverInv'
  OBVIOUS
<1>1. ElectionInv'
  BY FailoverStepElects, ElectionInvStep DEF FailoverInv
<1>2. TimerTypeOK'
  BY <1>1, TimerTypesStep
<1> QED
  BY <1>1, <1>2, BeatsStep, HeardStep, WaitStep DEF FailoverInv

LEMMA FailoverInvHolds == FailoverSpec => []FailoverInv
BY FailoverInvInit, FailoverInvStep, PTL DEF FailoverSpec

-----------------------------------------------------------------------------
(* The variables keep their types, and no timer runs past its limit.       *)
THEOREM FailoverTypeCorrect == FailoverSpec => []FailoverTypeOK
<1>1. FailoverInv => FailoverTypeOK
  BY DEF FailoverInv, TimerTypeOK, ElectionInv, FailoverTypeOK
<1> QED
  BY <1>1, FailoverInvHolds, PTL

(* With its timers and messages, the election is the one of Election.tla:  *)
(* what is proved of that holds here (node/election.py:194).               *)
THEOREM FailoverIsElection == FailoverSpec => ElectionSpec
<1>1. FailoverInit => ElectionInit
  BY DEF FailoverInit
<1>2. FailoverInv /\ [FailoverNext]_failoverVars => [ElectionNext]_electionVars
  BY FailoverStepElects DEF FailoverInv
<1> QED
  BY <1>1, <1>2, FailoverInvHolds, PTL DEF FailoverSpec, ElectionSpec

(* So two leaders of one term need a voter that forgot.                    *)
THEOREM FailoverElectionSafety == FailoverSpec => []SplitNeedsForgetfulVoter
BY FailoverIsElection, ElectionSafety, PTL

(* A follower that hears its leader starts no election, whatever the other *)
(* nodes do: the heartbeats outrun its countdown (main.py:425,             *)
(* election.py:194).                                                       *)
THEOREM HeardLeadersAreFollowed == FailoverSpec => NoElectionBesideLeader
<1> DEFINE Quiet == \A n \in Node :
      HearsLeader(n) /\ ~campaign[n].open => ~campaign'[n].open
<1>1. FailoverInv /\ [FailoverNext]_failoverVars => [Quiet]_failoverVars
  <2> SUFFICES ASSUME FailoverInv, FailoverNext, NEW n \in Node, HearsLeader(n),
                      ~campaign[n].open
               PROVE  ~campaign'[n].open
    OBVIOUS
  <2>1. waited[n] <= MaxGap
    BY DEF FailoverInv, HeardKeepWaiting, WaitIsShort, HearsLeader
  <2>2. waited[n] \in Nat /\ waited[n] < TimeoutMin
    BY <2>1, TimerAssumption DEF FailoverInv, TimerTypeOK
  <2>3. campaign \in [Node -> Campaigns]
    BY DEF FailoverInv, ElectionInv, ElectionTypeOK
  <2>4. ~CampaignTimed(n)
    BY <2>2, TimerAssumption DEF CampaignTimed, Expires
  <2>5. ASSUME NEW m \in Node, CampaignTimed(m) PROVE ~campaign'[n].open
    BY <2>3, <2>4, <2>5 DEF CampaignTimed, StartElection
  <2>6. ASSUME NEW m \in Node, CampaignEnds(m) \/ CrashTimed(m)
        PROVE  ~campaign'[n].open
    BY <2>3, <2>6
       DEF CampaignEnds, WinElection, LoseElection, CrashTimed, Crash, NoCampaign
  <2>7. ASSUME NEW m \in requests, HandleVoteTimed(m) PROVE ~campaign'[n].open
    <3> m.from \in Node
      BY DEF FailoverInv, ElectionInv, ElectionTypeOK, Requests
    <3> QED
      BY <2>3, <2>7 DEF HandleVoteTimed, HandleVote, CountReply
  <2>8. CASE UNCHANGED campaign
    BY <2>8
  <2> QED
    BY <2>5, <2>6, <2>7, <2>8
       DEF FailoverNext, Runs, NodeActs, Tick, CountdownRestarts, BeatTimed, Hear,
           RestartTimed, Cut, Heal, SendHeartbeat, HandleHeartbeat, Restart,
           electionVars
<1> QED
  BY <1>1, FailoverInvHolds, PTL DEF FailoverSpec, NoElectionBesideLeader
=============================================================================
