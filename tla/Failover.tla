------------------------------ MODULE Failover ------------------------------
(***************************************************************************)
(* Election with its timers: the heartbeat interval, the countdown of      *)
(* every node, the vote timeout (config/cluster.json, node/election.py,    *)
(* node/main.py), and a network that a partition cuts (the adversary's     *)
(* PARTITION_NODE) and that otherwise delivers within one tick.  Election  *)
(* says what a timeout does whenever it fires; here it fires when it may.  *)
(*                                                                         *)
(* Time is counted in ticks.  A timer is an age; nothing that is due waits *)
(* for the next tick.  Every step is a step of Election, or only moves     *)
(* time, cuts, and messages.                                               *)
(***************************************************************************)
EXTENDS Election

CONSTANTS
  Interval,     \* heartbeat_interval_ms
  MaxGap,       \* interval and the 0.1 s a round may take for a mute peer
  TimeoutMin,   \* election_timeout_min_ms
  TimeoutMax,   \* election_timeout_max_ms
  VoteTimeout,  \* vote_timeout_ms
  MaxFaults     \* bound: crashes and partitions in a behaviour

ASSUME TimerAssumption ==
  /\ {Interval, MaxGap, TimeoutMin, TimeoutMax, VoteTimeout, MaxFaults}
       \subseteq Nat
  /\ Interval <= MaxGap
  /\ MaxGap < TimeoutMin   \* holds for config/cluster.json: 300 ms < 600 ms
  /\ TimeoutMin <= TimeoutMax

VARIABLES
  waited,   \* ticks _timeout_loop has waited for its event or its votes
  beatAge,  \* ticks since a heartbeat loop's last round
  inbox,    \* heartbeats on their way
  cut,      \* nodes disconnected from the network
  wasCut,   \* history: nodes that have been disconnected
  heard     \* history: whose heartbeat a node has followed last, as long as
            \* that one goes on beating and is connected to it

timerVars == <<waited, beatAge>>
netVars == <<inbox, cut, wasCut>>
failoverVars == <<electionVars, timerVars, netVars, heard>>

-----------------------------------------------------------------------------
Connected(a, b) == a \notin cut /\ b \notin cut
Reaches(a, b) == up[b] /\ Connected(a, b)

Due ==
  \/ \E b \in inbox : Reaches(b.leader, b.to)
  \/ \E m \in requests : Reaches(m.from, m.to)
  \/ \E n \in Node :
       /\ up[n]
       /\ \/ n \in beating /\ beatAge[n] >= MaxGap
          \/ waited[n] >= IF campaign[n].open THEN VoteTimeout ELSE TimeoutMax

FailoverInit ==
  /\ ElectionInit
  /\ waited  = [n \in Node |-> 0]
  /\ beatAge = [n \in Node |-> 0]
  /\ inbox = {} /\ cut = {} /\ wasCut = {}
  /\ heard   = [n \in Node |-> NoNode]

\* Time passes for what is running.
Tick ==
  /\ ~Due
  /\ waited'  = [n \in Node |-> IF up[n] THEN waited[n] + 1 ELSE 0]
  /\ beatAge' = [n \in Node |-> IF n \in beating THEN beatAge[n] + 1 ELSE 0]
  /\ UNCHANGED <<electionVars, netVars, heard>>

-----------------------------------------------------------------------------
\* random.uniform(min, max) of _timeout_loop is over.
ExpiresEarly(n) == waited[n] + 1 >= TimeoutMin
Expires(n) == waited[n] >= TimeoutMin

\* At a follower it starts an election, which the loop awaits.
CampaignTimed(n) ==
  /\ Expires(n)
  /\ StartElection(n)
  /\ waited' = [waited EXCEPT ![n] = 0]
  /\ heard' = [heard EXCEPT ![n] = NoNode]
  /\ UNCHANGED <<beatAge, netVars>>

\* At a leader nothing happens and the loop restarts; so it does where the
\* bound on terms stops elections.
CountdownRestarts(n) ==
  /\ up[n] /\ ~campaign[n].open /\ Expires(n)
  /\ role[n] = "leader" \/ term[n] = MaxTerm
  /\ waited' = [waited EXCEPT ![n] = 0]
  /\ UNCHANGED <<electionVars, beatAge, netVars, heard>>

\* reset_timeout() sets the event _timeout_loop waits for; while the loop
\* awaits its own election it does not look, and clears the event later.
Restarted(n) ==
  IF campaign[n].open THEN waited ELSE [waited EXCEPT ![n] = 0]

\* What is left of heard when a step-down has ended a loop.
StillHeard ==
  [n \in Node |-> IF heard[n] \in beating \ beating' THEN NoNode ELSE heard[n]]

\* A vote that is granted resets the countdown.
HandleVoteTimed(m) ==
  LET v == m.to IN
  /\ Reaches(m.from, v)
  /\ HandleVote(m, TRUE)
  /\ waited' = IF GrantsVote(v, m) THEN Restarted(v) ELSE waited
  /\ heard'  = StillHeard
  /\ UNCHANGED <<beatAge, netVars>>

\* gather ends: no call that can be answered is still open.  The others end
\* by the vote timeout.
AwaitsEveryReply(n) == Outstanding(n) = {}
Answered(n) == \A m \in Outstanding(n) : ~Reaches(n, m.to)

\* A loop that was left behind goes on beside the one a winner starts; the
\* two count as one, with the rounds of the older.
CampaignEnds(n) ==
  /\ Answered(n)
  /\ WinElection(n) \/ LoseElection(n)
  /\ waited'  = [waited EXCEPT ![n] = 0]
  /\ beatAge' = IF n \in beating THEN beatAge ELSE [beatAge EXCEPT ![n] = 0]
  /\ UNCHANGED <<netVars, heard>>

-----------------------------------------------------------------------------
\* One round of _heartbeat_loop; a call that cannot get through is dropped.
BeatTimed(n) ==
  /\ SendHeartbeat(n)
  /\ beatAge[n] >= Interval
  /\ beatAge' = [beatAge EXCEPT ![n] = 0]
  /\ inbox' = inbox \cup {[leader |-> n, term |-> term[n], to |-> p] :
                            p \in {q \in Peers(n) : Reaches(n, q)}}
  /\ UNCHANGED <<waited, cut, wasCut, heard>>

\* POST /heartbeat whole: the countdown restarts also for a stale sender.
Hear(b) ==
  LET n == b.to IN
  /\ b \in inbox /\ Reaches(b.leader, n)
  /\ inbox' = inbox \ {b}
  /\ waited' = Restarted(n)
  /\ IF Follows(n, b)
     THEN /\ HandleHeartbeat(n, [leader |-> b.leader, term |-> b.term])
          /\ heard' = [StillHeard EXCEPT ![n] =
                         IF b.leader \in beating THEN b.leader ELSE NoNode]
     ELSE UNCHANGED <<electionVars, heard>>
  /\ UNCHANGED <<beatAge, cut, wasCut>>

-----------------------------------------------------------------------------
Unhear(n) ==
  [m \in Node |-> IF m = n \/ heard[m] = n THEN NoNode ELSE heard[m]]
BeatsOf(n) == {b \in inbox : n \in {b.leader, b.to}}

Faults == crashes + Cardinality(wasCut)

CrashTimed(n) ==
  /\ Crash(n) /\ Faults < MaxFaults
  /\ inbox' = inbox \ BeatsOf(n)
  /\ heard' = Unhear(n)
  /\ UNCHANGED <<timerVars, cut, wasCut>>

RestartTimed(n) ==
  /\ Restart(n)
  /\ waited' = [waited EXCEPT ![n] = 0]
  /\ UNCHANGED <<beatAge, netVars, heard>>

\* docker network disconnect (bound: once for a node), and connect.
Cut(n) ==
  /\ n \notin wasCut /\ Faults < MaxFaults
  /\ cut' = cut \cup {n} /\ wasCut' = wasCut \cup {n}
  /\ inbox' = inbox \ BeatsOf(n)
  /\ heard' = Unhear(n)
  /\ UNCHANGED <<electionVars, timerVars>>

Heal(n) ==
  /\ n \in cut
  /\ cut' = cut \ {n}
  /\ UNCHANGED <<electionVars, timerVars, inbox, wasCut, heard>>

NodeActs(n) ==
  \/ CampaignTimed(n) \/ CountdownRestarts(n) \/ CampaignEnds(n) \/ BeatTimed(n)

\* What happens by itself: time passes, and what is due before it does.
Runs ==
  \/ Tick
  \/ \E n \in Node : NodeActs(n)
  \/ \E m \in requests : HandleVoteTimed(m)
  \/ \E b \in inbox : Hear(b)

FailoverNext ==
  \/ Runs
  \/ \E n \in Node :
       CrashTimed(n) \/ RestartTimed(n) \/ Cut(n) \/ Heal(n)

FailoverSpec == FailoverInit /\ [][FailoverNext]_failoverVars

\* The clock and the event loops do not stop.  Crashes and cuts need not
\* happen, and nobody has to restart a node or to heal a partition.
FairFailoverSpec == FailoverSpec /\ WF_failoverVars(Runs)

-----------------------------------------------------------------------------
LongestWait == IF VoteTimeout < TimeoutMax THEN TimeoutMax ELSE VoteTimeout
Beats == [leader : Node, term : Terms, to : Node]

\* The types of the variables; no timer runs past its limit.
FailoverTypeOK ==
  /\ ElectionTypeOK
  /\ waited \in [Node -> 0 .. LongestWait]
  /\ beatAge \in [Node -> 0 .. MaxGap]
  /\ inbox \subseteq Beats
  /\ cut \subseteq Node
  /\ wasCut \subseteq Node
  /\ heard \in [Node -> Node \cup {NoNode}]

(* A follower that hears its leader starts no election: as long as the     *)
(* leader it last followed is alive, leads and is connected to it, its     *)
(* countdown does not run out, whatever other nodes do, crash and come     *)
(* back (main.py:425, election.py:194).                                    *)
HearsLeader(n) ==
  LET l == heard[n] IN
  /\ l # NoNode /\ up[l] /\ role[l] = "leader"
  /\ Connected(n, l)
NoElectionBesideLeader ==
  [][\A n \in Node :
       HearsLeader(n) /\ ~campaign[n].open => ~campaign'[n].open]_failoverVars

\* A leader that a majority can follow, itself included.
Serves(l) ==
  /\ up[l] /\ role[l] = "leader"
  /\ Cardinality({n \in Node : Reaches(l, n) /\ term[n] <= term[l]}
                   \cup {l}) >= Majority

\* A node that beats and should not: a leader that reaches a node in a later
\* term and does not learn of it, or a follower whose loop was left behind.
Lingers(l) ==
  /\ up[l] /\ l \in beating
  /\ \/ role[l] # "leader"
     \/ \E n \in Node : Reaches(l, n) /\ term[n] > term[l]

(* What the model cannot ask for: more nodes that reach each other, and    *)
(* terms past its bound.  The last term has to have a leader all the same  *)
(* if only one node called an election in it, and neither that node nor    *)
(* too many of the others had crashed or been cut off.                     *)
LastCandidates == {c \in Node : Vote(c, MaxTerm, c) \in votes}
Unstruck == Node \ (forgot \cup wasCut)
OutOfTerms ==
  /\ LastCandidates # {}
  /\ \/ Cardinality(LastCandidates) > 1
     \/ ~(LastCandidates \subseteq Unstruck)
     \/ Cardinality(Unstruck) < Majority
OutOfBounds ==
  \/ Cardinality({n \in Node : up[n]} \ cut) < Majority
  \/ OutOfTerms

(* main.py:442 "Reset election countdown whenever we hear from a valid     *)
(* leader": nodes that have no leader they can follow hold elections until *)
(* they have one.                                                          *)
LeaderlessElects == []<>((\E l \in Node : Serves(l)) \/ OutOfBounds)

(* The same as long as nobody beats on who should not: then a leader that  *)
(* dies or is cut off is replaced by one that a majority can follow,       *)
(* whether it comes back or not.                                           *)
ElectsUnlessLingering ==
  []<>((\E l \in Node : Serves(l) \/ Lingers(l)) \/ OutOfBounds)
=============================================================================
