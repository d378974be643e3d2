------------------------------ MODULE Election ------------------------------
(***************************************************************************)
(* Leader election between the nodes of a rainman cluster: ElectionManager *)
(* (src/rainman/node/election.py) with the module globals it drives in     *)
(* src/rainman/node/main.py (_role, _term, _leader_id) and the two         *)
(* endpoints that carry it, POST /vote and POST /heartbeat.                *)
(*                                                                         *)
(* A node runs one asyncio loop, so the code between two awaits is one     *)
(* step.  HTTP calls may be lost, may arrive late (after their caller has  *)
(* given up) and may overtake one another.  Timers are left out: a timeout *)
(* may fire whenever the code allows it, and a call may time out whenever  *)
(* it is outstanding.                                                      *)
(*                                                                         *)
(* The write path (PUT /kv, POST /replicate) is visible here only through  *)
(* what the election reads, the LSN and the terms of the WAL, and what a   *)
(* forwarded entry does to the term and the role; Cluster.tla gives it     *)
(* whole and implements this module.  A restart replays the WAL and skips  *)
(* the lines it cannot parse: what an entry was glued to, a line that an   *)
(* earlier crash had cut, is lost with it, and so may be its LSN and term. *)
(***************************************************************************)
EXTENDS Integers, FiniteSets

CONSTANTS
  Node,        \* the members of config/cluster.json
  NoNode,      \* Python's None, as a leader or as a vote
  Majority,    \* replication.majority of config/cluster.json
  MaxTerm,     \* bound: elections stop at this term
  MaxLsn,      \* bound: no WAL grows past this LSN
  MaxCrashes,  \* bound: crashes in a behaviour, over all nodes
  MaxLate      \* bound: abandoned vote requests that may still arrive

ASSUME NodeAssumption == IsFiniteSet(Node) /\ NoNode \notin Node
ASSUME MajorityAssumption ==
  Majority \in Nat /\ 2 * Majority > Cardinality(Node)
ASSUME BoundAssumption ==
  MaxTerm \in Nat /\ MaxLsn \in Nat /\ MaxCrashes \in Nat /\ MaxLate \in Nat

Terms == 1 .. MaxTerm

VARIABLES
  up,          \* is the process running
  role,        \* _role
  term,        \* _term
  leaderId,    \* _leader_id
  votedFor,    \* ElectionManager._voted_for, lost by a crash
  campaign,    \* the locals of _run_election while it awaits the replies
  requests,    \* POST /vote calls not handled yet
  heartbeats,  \* what the heartbeat loops have sent
  beating,     \* nodes on which a _heartbeat_loop runs
  lsn,         \* StorageEngine._lsn
  walLsn,      \* the highest LSN that replay would find in the WAL file
  walTerm,     \* the highest term that replay would find there
  entries,     \* history: who has written entries (put_kv), in which terms
  crashes,     \* crashes so far
  votes,       \* history: every vote ever cast
  won,         \* history: every election ever won, with its quorum
  forgot,      \* history: nodes that crashed, and lost their votes
  rewound      \* history: nodes whose term a won election set back

roleVars == <<role, term, leaderId>>
walVars  == <<lsn, walLsn, walTerm, entries>>
historyVars == <<votes, won, forgot, rewound>>
electionVars ==
  <<up, roleVars, votedFor, campaign, requests, heartbeats, beating, walVars,
    crashes, historyVars>>

-----------------------------------------------------------------------------
Peers(n) == Node \ {n}
MaxOf(a, b) == IF a >= b THEN a ELSE b

NoVotes == [t \in Terms |-> NoNode]
NoCampaign == [open |-> FALSE, term |-> 0, granted |-> {}, peerTerm |-> 0]
NewCampaign(t) == [open |-> TRUE, term |-> t, granted |-> {}, peerTerm |-> 0]

\* What the results loop of _run_election keeps of a peer's reply.
CountReply(c, v, granted, t) ==
  [open |-> c.open, term |-> c.term,
   granted |-> c.granted \cup (IF granted THEN {v} ELSE {}),
   peerTerm |-> MaxOf(c.peerTerm, t)]

Vote(v, t, c) == [voter |-> v, term |-> t, candidate |-> c]

\* The caller n stops waiting for its calls: each of them is lost, or may
\* still arrive although its reply goes nowhere.
Outstanding(n) == {m \in requests : m.from = n /\ m.live}
Abandon(n) ==
  \E late \in SUBSET Outstanding(n) :
    /\ requests' = (requests \ Outstanding(n)) \cup
                      {[m EXCEPT !.live = FALSE] : m \in late}
    /\ Cardinality({m \in requests' : ~m.live}) <= MaxLate

\* A node that sees a higher term is a follower in it; a leader that steps
\* down for a vote request or an entry (_step_down(term, None)) forgets who
\* leads, a follower does not.
RoleAt(n, t) == IF t > term[n] THEN "follower" ELSE role[n]
LeaderIdAt(n, t) ==
  IF t > term[n] /\ role[n] = "leader" THEN NoNode ELSE leaderId[n]

(* The heartbeat loops that run after n has seen term t.  _step_down       *)
(* cancels the loop that _hb_task names.  On a node that has won a second  *)
(* election while a step-down was waiting, it may miss the loop that runs  *)
(* (NodeTasks.tla has the race).                                           *)
WonTwice(n) ==
  \E w1, w2 \in won : w1.leader = n /\ w2.leader = n /\ w1.term # w2.term
BeatingAt(n, t) ==
  IF t > term[n] /\ role[n] = "leader"
  THEN {beating \ {n}} \cup {b \in {beating} : WonTwice(n)}
  ELSE {beating}

-----------------------------------------------------------------------------
ElectionInit ==
  /\ up         = [n \in Node |-> TRUE]
  /\ role       = [n \in Node |-> "follower"]
  /\ term       = [n \in Node |-> 0]
  /\ leaderId   = [n \in Node |-> NoNode]
  /\ votedFor   = [n \in Node |-> NoVotes]
  /\ campaign   = [n \in Node |-> NoCampaign]
  /\ requests   = {}
  /\ heartbeats = {}
  /\ beating    = {}
  /\ lsn        = [n \in Node |-> 0]
  /\ walLsn     = [n \in Node |-> 0]
  /\ walTerm    = [n \in Node |-> 0]
  /\ entries    = {}
  /\ crashes    = 0
  /\ votes      = {}
  /\ won        = {}
  /\ forgot     = {}
  /\ rewound    = {}

-----------------------------------------------------------------------------
\* The term in which a new candidate votes for itself.
SelfVoteBeforeAdvance(n) == term[n]
SelfVoteTerm(n) == term[n] + 1

(* The countdown of _timeout_loop expires and the node is a follower:      *)
(* _run_election up to its await.  The self-vote overwrites whatever       *)
(* voted_for held for the new term.                                        *)
StartElection(n) ==
  LET t == term[n] + 1 IN
  /\ up[n] /\ role[n] = "follower" /\ ~campaign[n].open
  /\ t \in Terms
  /\ term'     = [term EXCEPT ![n] = t]
  /\ votedFor' = [votedFor EXCEPT ![n][SelfVoteTerm(n)] = n]
  /\ campaign' = [campaign EXCEPT ![n] = NewCampaign(t)]
  /\ requests' = requests \cup
       [from : {n}, to : Peers(n), term : {t}, lsn : {lsn[n]}, live : {TRUE}]
  /\ votes'    = votes \cup {Vote(n, SelfVoteTerm(n), n)}
  /\ UNCHANGED <<up, role, leaderId, heartbeats, beating, walVars, crashes, won,
                 forgot, rewound>>

(* handle_vote_request: the three grant conditions, in the code's order;   *)
(* the term is advanced even when the vote is then denied.                 *)
GrantsAnyCandidate(v, m) == m.term >= term[v] /\ m.lsn >= lsn[v]
GrantsVote(v, m) ==
  /\ m.term >= term[v]
  /\ votedFor[v][m.term] \in {NoNode, m.from}
  /\ m.lsn >= lsn[v]

\* The term and the role after POST /vote.
RoleUnchanged(n, t) == role[n]
RoleAfterVote(n, t) == RoleAt(n, t)

(* POST /vote: the whole handler at the voter.  The reply reaches the      *)
(* candidate, or is lost or late (reply = FALSE); only a call its caller   *)
(* still waits for can be answered.                                        *)
HandleVote(m, reply) ==
  LET v == m.to
      t == MaxOf(term[v], m.term)
      granted == GrantsVote(v, m)
  IN
  /\ up[v]
  /\ reply => m.live
  /\ requests' = requests \ {m}
  /\ term'     = [term EXCEPT ![v] = t]
  /\ role'     = [role EXCEPT ![v] = RoleAfterVote(v, m.term)]
  /\ leaderId' = [leaderId EXCEPT ![v] = LeaderIdAt(v, m.term)]
  /\ beating'  \in BeatingAt(v, m.term)
  /\ votedFor' = IF granted THEN [votedFor EXCEPT ![v][m.term] = m.from]
                            ELSE votedFor
  /\ votes'    = IF granted THEN votes \cup {Vote(v, m.term, m.from)} ELSE votes
  /\ campaign' = IF reply
                 THEN [campaign EXCEPT ![m.from] = CountReply(@, v, granted, t)]
                 ELSE campaign
  /\ UNCHANGED <<up, heartbeats, walVars, crashes, won, forgot,
                 rewound>>

(* The results loop of _run_election counts the self-vote and the grants   *)
(* and compares with the configured majority.                              *)
HasMajority(n) == Cardinality(campaign[n].granted) + 1 >= Majority

(* gather returns with a majority: the results loop, then                  *)
(* _on_became_leader, which sets _term back to the campaign's term         *)
(* whatever the node has seen since.                                       *)
WinElection(n) ==
  LET c == campaign[n] IN
  /\ up[n] /\ c.open /\ HasMajority(n)
  /\ role'     = [role EXCEPT ![n] = "leader"]
  /\ term'     = [term EXCEPT ![n] = c.term]
  /\ leaderId' = [leaderId EXCEPT ![n] = n]
  /\ campaign' = [campaign EXCEPT ![n] = NoCampaign]
  /\ beating'  = beating \cup {n}
  /\ Abandon(n)
  /\ won'      = won \cup {[leader |-> n, term |-> c.term,
                            quorum |-> c.granted \cup {n}]}
  /\ rewound'  = IF c.term < term[n] THEN rewound \cup {n} ELSE rewound
  /\ UNCHANGED <<up, votedFor, heartbeats, walVars, crashes, votes, forgot>>

\* gather returns without one: only the terms the peers reported remain.
LoseElection(n) ==
  LET c == campaign[n] IN
  /\ up[n] /\ c.open /\ ~HasMajority(n)
  /\ term'     = [term EXCEPT ![n] = MaxOf(@, c.peerTerm)]
  /\ campaign' = [campaign EXCEPT ![n] = NoCampaign]
  /\ Abandon(n)
  /\ UNCHANGED <<up, role, leaderId, votedFor, heartbeats, beating, walVars,
                 crashes, historyVars>>

-----------------------------------------------------------------------------
(* One round of _heartbeat_loop, which looks at the term but never at the  *)
(* role.  The loop repeats the same payload every interval and a copy may  *)
(* be delivered late, so what was sent stays.                              *)
SendHeartbeat(n) ==
  /\ up[n] /\ n \in beating
  /\ heartbeats' = heartbeats \cup {[leader |-> n, term |-> term[n]]}
  /\ UNCHANGED <<up, roleVars, votedFor, campaign, requests, beating, walVars,
                 crashes, historyVars>>

\* heartbeat() follows a sender whose term is not behind its own.
FollowsAnySender(n, h) == TRUE
Follows(n, h) == h.term >= term[n]

(* POST /heartbeat.  A stale one only resets the countdown, which is not   *)
(* part of this module.                                                    *)
HandleHeartbeat(n, h) ==
  /\ up[n] /\ h.leader # n
  /\ Follows(n, h)
  /\ term'     = [term EXCEPT ![n] = h.term]
  /\ role'     = [role EXCEPT ![n] = RoleAt(n, h.term)]
  /\ leaderId' = [leaderId EXCEPT ![n] = h.leader]
  /\ beating'  \in BeatingAt(n, h.term)
  /\ UNCHANGED <<up, votedFor, campaign, requests, heartbeats, walVars,
                 crashes, historyVars>>

-----------------------------------------------------------------------------
(* What the write path does to the state of an election.                   *)

(* StorageEngine.put appends the next line.  A line that goes on where a   *)
(* crash cut one off (kept = FALSE) cannot be parsed: the running process  *)
(* counts it, replay will not.                                             *)
AppendLine(n, t, kept) ==
  /\ lsn[n] < MaxLsn
  /\ kept \/ n \in forgot
  /\ lsn'     = [lsn EXCEPT ![n] = @ + 1]
  /\ walLsn'  = [walLsn EXCEPT ![n] = IF kept THEN lsn[n] + 1 ELSE @]
  /\ walTerm' = [walTerm EXCEPT ![n] = IF kept THEN MaxOf(@, t) ELSE @]

(* put_kv writes the next LSN with whatever _term holds when it gets the   *)
(* lock; the node was a leader when the request came in.                   *)
LocalWrite(n, kept) ==
  /\ up[n]
  /\ \E w \in won : w.leader = n
  /\ AppendLine(n, term[n], kept)
  /\ entries' = entries \cup {[from |-> n, term |-> term[n]]}
  /\ UNCHANGED <<up, roleVars, votedFor, campaign, requests, heartbeats,
                 beating, crashes, historyVars>>

(* replicate adopts the term of an entry another node has written, and     *)
(* steps down if it led.                                                   *)
SeeEntry(n, t) ==
  /\ up[n] /\ \E e \in entries : e.from # n /\ e.term = t
  /\ term'     = [term EXCEPT ![n] = MaxOf(@, t)]
  /\ role'     = [role EXCEPT ![n] = RoleAt(n, t)]
  /\ leaderId' = [leaderId EXCEPT ![n] = LeaderIdAt(n, t)]
  /\ beating'  \in BeatingAt(n, t)
  /\ UNCHANGED <<up, votedFor, campaign, requests, heartbeats, entries,
                 crashes, historyVars>>

\* The LSN does not fit, or the entry is not appended yet.
EntrySeen(n, t) == SeeEntry(n, t) /\ UNCHANGED <<lsn, walLsn, walTerm>>
EntryAppended(n, t, kept) == SeeEntry(n, t) /\ AppendLine(n, t, kept)

-----------------------------------------------------------------------------
\* The process dies (compose kill, restart): only the WAL file remains.
Crash(n) ==
  /\ up[n] /\ crashes < MaxCrashes
  /\ up'       = [up EXCEPT ![n] = FALSE]
  /\ role'     = [role EXCEPT ![n] = "follower"]
  /\ term'     = [term EXCEPT ![n] = 0]
  /\ leaderId' = [leaderId EXCEPT ![n] = NoNode]
  /\ votedFor' = [votedFor EXCEPT ![n] = NoVotes]
  /\ campaign' = [campaign EXCEPT ![n] = NoCampaign]
  /\ beating'  = beating \ {n}
  /\ Abandon(n)
  /\ crashes'  = crashes + 1
  /\ forgot'   = forgot \cup {n}
  /\ UNCHANGED <<heartbeats, walVars, votes, won, rewound>>

\* lifespan: a follower with no votes, with the highest LSN and the highest
\* term of the lines that replay can parse.
Restart(n) ==
  /\ ~up[n]
  /\ up'   = [up EXCEPT ![n] = TRUE]
  /\ term' = [term EXCEPT ![n] = walTerm[n]]
  /\ lsn'  = [lsn EXCEPT ![n] = walLsn[n]]
  /\ UNCHANGED <<role, leaderId, votedFor, campaign, requests, heartbeats,
                 beating, walLsn, walTerm, entries, crashes, historyVars>>

-----------------------------------------------------------------------------
ElectionNext ==
  \/ \E n \in Node :
       \/ StartElection(n) \/ WinElection(n) \/ LoseElection(n)
       \/ SendHeartbeat(n)
       \/ Crash(n) \/ Restart(n)
       \/ \E h \in heartbeats : HandleHeartbeat(n, h)
       \/ \E kept \in BOOLEAN : LocalWrite(n, kept)
       \/ \E t \in Terms :
            EntrySeen(n, t) \/ \E kept \in BOOLEAN : EntryAppended(n, t, kept)
  \/ \E m \in requests, reply \in BOOLEAN : HandleVote(m, reply)

ElectionSpec == ElectionInit /\ [][ElectionNext]_electionVars

-----------------------------------------------------------------------------
Campaigns == [open : BOOLEAN, term : 0 .. MaxTerm, granted : SUBSET Node,
              peerTerm : 0 .. MaxTerm]
Requests == [from : Node, to : Node, term : Terms, lsn : 0 .. MaxLsn,
             live : BOOLEAN]
Heartbeats == [leader : Node, term : Terms]
Votes == [voter : Node, term : Terms, candidate : Node]
Wins == [leader : Node, term : Terms, quorum : SUBSET Node]

\* The types of the variables.
ElectionTypeOK ==
  /\ up \in [Node -> BOOLEAN]
  /\ role \in [Node -> {"leader", "follower"}]
  /\ term \in [Node -> 0 .. MaxTerm]
  /\ leaderId \in [Node -> Node \cup {NoNode}]
  /\ votedFor \in [Node -> [Terms -> Node \cup {NoNode}]]
  /\ campaign \in [Node -> Campaigns]
  /\ requests \subseteq Requests
  /\ heartbeats \subseteq Heartbeats
  /\ beating \subseteq Node
  /\ lsn \in [Node -> 0 .. MaxLsn]
  /\ walLsn \in [Node -> 0 .. MaxLsn]
  /\ walTerm \in [Node -> 0 .. MaxTerm]
  /\ entries \subseteq [from : Node, term : 0 .. MaxTerm]
  /\ crashes \in 0 .. MaxCrashes
  /\ votes \subseteq Votes
  /\ won \subseteq Wins
  /\ forgot \subseteq Node
  /\ rewound \subseteq Node

(* Two nodes have led the same term only if some node voted for both, and  *)
(* that node had crashed (_voted_for is not persisted) or had won an       *)
(* election that set its term back (_on_became_leader): voting itself      *)
(* never elects two leaders in one term.                                   *)
VotedForBoth(v, w1, w2) ==
  Vote(v, w1.term, w1.leader) \in votes /\ Vote(v, w2.term, w2.leader) \in votes
SplitNeedsForgetfulVoter ==
  \A w1, w2 \in won :
    w1.term = w2.term /\ w1.leader # w2.leader =>
      \E v \in forgot \cup rewound : VotedForBoth(v, w1, w2)

(* A node that is leader now won the term it is in: no message that makes  *)
(* its term move (vote request, heartbeat, forwarded entry) leaves it      *)
(* leader of a term it was not elected for.                                *)
LeaderWonItsTerm ==
  \A n \in Node : role[n] = "leader" =>
    \E w \in won : w.leader = n /\ w.term = term[n]

(* Every election ever won had a majority whose votes for that leader in   *)
(* that term were really cast, however late the replies or whatever an     *)
(* earlier campaign left in flight.                                        *)
WinsHaveMajority ==
  \A w \in won :
    /\ Cardinality(w.quorum) >= Majority
    /\ \A v \in w.quorum : Vote(v, w.term, w.leader) \in votes

(* Whoever leads was elected for the term it is in, by a majority.         *)
LeadersWereElected == LeaderWonItsTerm /\ WinsHaveMajority

(* No message sets the term of a running node back: only winning an        *)
(* election does, and never below the term the campaign started in.        *)
TermGoesBackOnlyByWinning ==
  [][\A n \in Node :
       (up[n] /\ up'[n] /\ term'[n] < term[n]) =>
          (role'[n] = "leader" /\ term'[n] = campaign[n].term)]_electionVars

-----------------------------------------------------------------------------
(* A claim of the repository that this code does not meet.                 *)

(* main.py:447 "at most one leader per term; higher term wins".            *)
AtMostOneLeaderPerTerm ==
  \A w1, w2 \in won : w1.term = w2.term => w1.leader = w2.leader
=============================================================================
