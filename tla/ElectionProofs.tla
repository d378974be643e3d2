--------------------------- MODULE ElectionProofs ---------------------------
(***************************************************************************)
(* Theorems about Election.tla for every set of nodes, every majority that *)
(* is one, and every value of the bounds.                                  *)
(***************************************************************************)
EXTENDS Election, FiniteSetTheorems, TLAPS

\* Tuples of variables are only abbreviations in UNCHANGED.
USE DEF roleVars, walVars, historyVars

-----------------------------------------------------------------------------
(* The inductive invariant.                                                *)

\* A call that is still awaited belongs to the open campaign of its sender.
RequestsAwaited ==
  \A m \in requests :
    /\ m.to \in Peers(m.from)
    /\ m.live => campaign[m.from].open /\ campaign[m.from].term = m.term

\* What an open campaign counts are votes that were cast.
CampaignsCountCastVotes ==
  \A n \in Node : campaign[n].open =>
    /\ campaign[n].term \in Terms
    /\ campaign[n].granted \subseteq Peers(n)
    /\ \A v \in campaign[n].granted \cup {n} :
         Vote(v, campaign[n].term, n) \in votes

\* A node whose memory never went back is running, remembers each vote it
\* cast, and has reached the term of each of them.
OthersRemember ==
  \A v \in Node \ (forgot \cup rewound) :
    /\ up[v]
    /\ \A t \in Terms, c \in Node :
         Vote(v, t, c) \in votes => votedFor[v][t] = c /\ t <= term[v]

\* A node that is down, or a candidate, does not lead.
OthersFollow ==
  \A n \in Node : ~up[n] \/ campaign[n].open => role[n] = "follower"

\* A heartbeat loop runs on every leader, and else only where one has led.
LoopsHaveTerms ==
  \A n \in Node :
    /\ n \in beating => up[n] /\ term[n] \in Terms
    /\ role[n] = "leader" => n \in beating

ElectionInv ==
  /\ ElectionTypeOK
  /\ OthersFollow
  /\ LoopsHaveTerms
  /\ RequestsAwaited
  /\ CampaignsCountCastVotes
  /\ OthersRemember
  /\ LeaderWonItsTerm
  /\ WinsHaveMajority

-----------------------------------------------------------------------------
(* Two majorities of the cluster have a node in common.                    *)
LEMMA QuorumsIntersect ==
  ASSUME NEW Q1 \in SUBSET Node, NEW Q2 \in SUBSET Node,
         Cardinality(Q1) >= Majority, Cardinality(Q2) >= Majority
  PROVE  Q1 \cap Q2 # {}
<1>1. SUFFICES ASSUME Q1 \cap Q2 = {} PROVE FALSE
  OBVIOUS
<1>2. IsFiniteSet(Node)
  BY NodeAssumption
<1>3. IsFiniteSet(Q1) /\ IsFiniteSet(Q2)
  BY <1>2, FS_Subset
<1>4. Cardinality(Q1 \cup Q2) = Cardinality(Q1) + Cardinality(Q2)
  <2>1. Cardinality(Q1 \cup Q2)
          = Cardinality(Q1) + Cardinality(Q2) - Cardinality(Q1 \cap Q2)
    BY <1>3, FS_Union
  <2>2. Cardinality(Q1 \cap Q2) = 0
    BY <1>1, FS_EmptySet
  <2>3. Cardinality(Q1) \in Nat /\ Cardinality(Q2) \in Nat
    BY <1>3, FS_CardinalityType
  <2>4. QED BY <2>1, <2>2, <2>3
<1>5. Q1 \cup Q2 \in SUBSET Node
  OBVIOUS
<1>6. Cardinality(Q1 \cup Q2) <= Cardinality(Node)
  BY <1>2, <1>5, FS_Subset
<1>7. /\ Cardinality(Q1) \in Nat /\ Cardinality(Q2) \in Nat
      /\ Cardinality(Node) \in Nat
  BY <1>2, <1>3, FS_CardinalityType
<1>8. QED BY <1>4, <1>6, <1>7, MajorityAssumption

(* The self-vote of a candidate adds one to the votes its peers granted.   *)
LEMMA SelfVoteCounts ==
  ASSUME NEW n \in Node, NEW S \in SUBSET Peers(n)
  PROVE  Cardinality(S \cup {n}) = Cardinality(S) + 1
<1>1. IsFiniteSet(S)
  <2>1. S \in SUBSET Node
    BY DEF Peers
  <2>2. QED BY <2>1, NodeAssumption, FS_Subset
<1>2. n \notin S
  BY DEF Peers
<1>3. QED BY <1>1, <1>2, FS_AddElement

(* An abandoned campaign leaves only calls that nobody waits for.          *)
LEMMA AbandonLeavesOrphans ==
  ASSUME NEW n \in Node, requests \subseteq Requests, Abandon(n)
  PROVE  /\ requests' \subseteq Requests
         /\ \A m \in requests' : m.live => m \in requests /\ m.from # n
         /\ RequestsAwaited => \A m \in requests' : m.to \in Peers(m.from)
<1>1. PICK late \in SUBSET Outstanding(n) :
        requests' = (requests \ Outstanding(n)) \cup
                      {[m EXCEPT !.live = FALSE] : m \in late}
  BY DEF Abandon
<1>2. \A m \in late : m \in requests /\ m \in Requests
  BY DEF Outstanding
<1>3. \A m \in late : /\ [m EXCEPT !.live = FALSE] \in Requests
                      /\ ~[m EXCEPT !.live = FALSE].live
                      /\ [m EXCEPT !.live = FALSE].to = m.to
                      /\ [m EXCEPT !.live = FALSE].from = m.from
  BY <1>2 DEF Requests
<1>4. requests' \subseteq Requests
  BY <1>1, <1>3
<1>5. ASSUME NEW m \in requests', m.live
      PROVE  m \in requests /\ m.from # n
  BY <1>1, <1>3, <1>5 DEF Outstanding
<1>6. ASSUME RequestsAwaited, NEW m \in requests'
      PROVE  m.to \in Peers(m.from)
  <2>1. CASE m \in requests
    BY <2>1, <1>6 DEF RequestsAwaited
  <2>2. CASE m \notin requests
    <3>1. PICK k \in late : m = [k EXCEPT !.live = FALSE]
      BY <1>1, <2>2
    <3>2. QED BY <3>1, <1>2, <1>3, <1>6 DEF RequestsAwaited
  <2>3. QED BY <2>1, <2>2
<1>7. QED BY <1>4, <1>5, <1>6

(* A term that n sees takes a loop away at most from a leader it deposes.  *)
LEMMA SeenTermKeepsLoops ==
  ASSUME NEW n \in Node, NEW t \in 0 .. MaxTerm, ElectionTypeOK,
         LoopsHaveTerms, up[n],
         beating' \in BeatingAt(n, t), up' = up,
         role' = [role EXCEPT ![n] = RoleAt(n, t)],
         \/ term' = [term EXCEPT ![n] = MaxOf(@, t)]
         \/ /\ t >= term[n]
            /\ term' = [term EXCEPT ![n] = t]
  PROVE  beating' \subseteq beating /\ LoopsHaveTerms'
<1>1. /\ \/ beating' = beating
         \/ beating' = beating \ {n} /\ t > term[n]
      /\ beating \subseteq Node
  BY DEF BeatingAt, ElectionTypeOK
<1>2. term'[n] \in 0 .. MaxTerm /\ term'[n] >= term[n] /\ term[n] \in 0 .. MaxTerm
  BY DEF ElectionTypeOK, MaxOf
<1>3. ASSUME NEW p \in Node
      PROVE  /\ p \in beating' => up[p] /\ term'[p] \in Terms
             /\ role'[p] = "leader" => p \in beating'
  <2>1. CASE p = n
    BY <1>1, <1>2, <2>1, BoundAssumption
    DEF LoopsHaveTerms, RoleAt, ElectionTypeOK, Terms
  <2>2. CASE p # n
    BY <1>1, <2>2 DEF LoopsHaveTerms, ElectionTypeOK
  <2>3. QED BY <2>1, <2>2
<1>4. QED BY <1>1, <1>3 DEF LoopsHaveTerms

-----------------------------------------------------------------------------
(* Each step preserves the invariant, one lemma per action.                *)

LEMMA StartElectionInv ==
  ASSUME NEW n \in Node, ElectionInv, StartElection(n)
  PROVE  ElectionInv'
<1> DEFINE t == term[n] + 1
<1> USE DEF ElectionInv
<1>0. t \in Terms /\ t \in 0 .. MaxTerm
  BY BoundAssumption DEF StartElection, Terms
<1>1. ElectionTypeOK'
  <2>1. campaign' \in [Node -> Campaigns]
    <3>1. NewCampaign(t) \in Campaigns
      BY <1>0, BoundAssumption DEF NewCampaign, Campaigns
    <3>2. QED BY <3>1 DEF StartElection, ElectionTypeOK
  <2>2. requests' \subseteq Requests
    BY <1>0 DEF StartElection, ElectionTypeOK, Requests, Peers
  <2>3. votes' \subseteq Votes
    BY <1>0 DEF StartElection, SelfVoteTerm, ElectionTypeOK, Votes, Vote
  <2>4. votedFor' \in [Node -> [Terms -> Node \cup {NoNode}]]
    BY <1>0 DEF StartElection, SelfVoteTerm, ElectionTypeOK
  <2>5. term' \in [Node -> 0 .. MaxTerm]
    BY <1>0 DEF StartElection, ElectionTypeOK
  <2>6. QED BY <2>1, <2>2, <2>3, <2>4, <2>5
            DEF StartElection, ElectionTypeOK
<1>2. RequestsAwaited'
  <2>1. ASSUME NEW m \in requests' PROVE m.to \in Peers(m.from)
    BY DEF RequestsAwaited, StartElection
  <2>2. ASSUME NEW m \in requests', m.live
        PROVE  campaign'[m.from].open /\ campaign'[m.from].term = m.term
    <3>1. CASE m \in requests
      BY <2>2, <3>1
      DEF RequestsAwaited, StartElection, ElectionTypeOK, Requests
    <3>2. CASE m \notin requests
      BY <3>2 DEF StartElection, ElectionTypeOK, NewCampaign
    <3>3. QED BY <3>1, <3>2
  <2>3. QED BY <2>1, <2>2 DEF RequestsAwaited, Peers
<1>3. CampaignsCountCastVotes'
  BY DEF CampaignsCountCastVotes, StartElection, SelfVoteTerm, ElectionTypeOK,
         NewCampaign
<1>4. OthersRemember'
  <2>1. SUFFICES ASSUME NEW v \in Node \ (forgot \cup rewound)
                 PROVE  /\ up[v]
                        /\ \A u \in Terms, c \in Node :
                             Vote(v, u, c) \in votes' =>
                               votedFor'[v][u] = c /\ u <= term'[v]
    BY DEF OthersRemember, StartElection, Vote
  <2>2. ASSUME NEW u \in Terms, NEW c \in Node, Vote(v, u, c) \in votes'
        PROVE  votedFor'[v][u] = c /\ u <= term'[v]
    <3>1. CASE Vote(v, u, c) \in votes
      <4>1. votedFor[v][u] = c /\ u <= term[v]
        BY <3>1 DEF OthersRemember
      <4>2. v = n => u # t
        BY <4>1 DEF ElectionTypeOK, Terms
      <4>3. QED BY <4>1, <4>2
                DEF StartElection, SelfVoteTerm, ElectionTypeOK, Terms
    <3>2. CASE Vote(v, u, c) \notin votes
      <4>1. v = n /\ u = t /\ c = n
        BY <3>2, <2>2 DEF StartElection, SelfVoteTerm, Vote
      <4>2. votedFor'[v][u] = c
        BY <4>1, <1>0 DEF StartElection, SelfVoteTerm, ElectionTypeOK
      <4>3. term'[v] = t
        BY <4>1 DEF StartElection, ElectionTypeOK
      <4>4. QED BY <4>1, <4>2, <4>3, <1>0 DEF Terms
    <3>3. QED BY <3>1, <3>2
  <2>3. QED BY <2>2 DEF OthersRemember
<1>5. LeaderWonItsTerm'
  BY DEF LeaderWonItsTerm, StartElection, ElectionTypeOK
<1>6. WinsHaveMajority'
  BY DEF WinsHaveMajority, StartElection, Vote
<1>7. OthersFollow'
  BY DEF OthersFollow, StartElection, ElectionTypeOK
<1>8. LoopsHaveTerms'
  BY <1>0 DEF LoopsHaveTerms, StartElection, ElectionTypeOK
<1>9. QED BY <1>1, <1>2, <1>3, <1>4, <1>5, <1>6, <1>7, <1>8

LEMMA HandleVoteInv ==
  ASSUME NEW m \in requests, NEW reply \in BOOLEAN, ElectionInv,
         HandleVote(m, reply)
  PROVE  ElectionInv'
<1> DEFINE v == m.to
           c == m.from
           t == MaxOf(term[v], m.term)
<1> USE DEF ElectionInv
<1>1. /\ m \in Requests /\ v \in Node /\ c \in Node /\ m.term \in Terms
      /\ v \in Peers(c) /\ t \in 0 .. MaxTerm /\ t >= term[v] /\ t >= m.term
  BY BoundAssumption
  DEF ElectionTypeOK, Requests, RequestsAwaited, MaxOf, Terms
<1>10. beating' \subseteq beating /\ LoopsHaveTerms'
  <2>1. /\ m.term \in 0 .. MaxTerm /\ up[v] /\ up' = up
        /\ beating' \in BeatingAt(v, m.term)
        /\ role' = [role EXCEPT ![v] = RoleAt(v, m.term)]
        /\ term' = [term EXCEPT ![v] = MaxOf(@, m.term)]
    BY <1>1 DEF HandleVote, RoleAfterVote, Terms, ElectionTypeOK
  <2>2. QED BY <1>1, <2>1, SeenTermKeepsLoops
<1>2. ElectionTypeOK'
  <2>1. campaign' \in [Node -> Campaigns]
    <3>1. CASE ~reply
      BY <3>1 DEF ElectionTypeOK, HandleVote
    <3>2. CASE reply
      <4>1. MaxOf(campaign[c].peerTerm, t) \in 0 .. MaxTerm
        BY <1>1 DEF ElectionTypeOK, Campaigns, MaxOf
      <4>2. CountReply(campaign[c], v, GrantsVote(v, m), t) \in Campaigns
        BY <4>1, <1>1 DEF ElectionTypeOK, Campaigns, CountReply
      <4>3. QED BY <3>2, <4>2, <1>1 DEF ElectionTypeOK, HandleVote
    <3>3. QED BY <3>1, <3>2
  <2>2. votes' \subseteq Votes
    BY <1>1 DEF ElectionTypeOK, HandleVote, Votes, Vote
  <2>3. votedFor' \in [Node -> [Terms -> Node \cup {NoNode}]]
    BY <1>1 DEF ElectionTypeOK, HandleVote
  <2>4. QED BY <1>1, <1>10, <2>1, <2>2, <2>3
            DEF ElectionTypeOK, HandleVote, RoleAfterVote, RoleAt, LeaderIdAt
<1>3. RequestsAwaited'
  <2>1. \A n \in Node : campaign'[n].open = campaign[n].open
                        /\ campaign'[n].term = campaign[n].term
    BY <1>1 DEF HandleVote, ElectionTypeOK, CountReply
  <2>2. requests' \subseteq requests /\ \A k \in requests : k.from \in Node
    BY DEF HandleVote, ElectionTypeOK, Requests
  <2>3. QED BY <2>1, <2>2 DEF RequestsAwaited, Peers
<1>4. CampaignsCountCastVotes'
  <2>1. SUFFICES ASSUME NEW n \in Node, campaign'[n].open
                 PROVE  /\ campaign'[n].term \in Terms
                        /\ campaign'[n].granted \subseteq Peers(n)
                        /\ \A w \in campaign'[n].granted \cup {n} :
                             Vote(w, campaign'[n].term, n) \in votes'
    BY DEF CampaignsCountCastVotes, Peers, Vote
  <2>2. votes \subseteq votes'
    BY DEF HandleVote
  <2>3. CASE ~(reply /\ n = c)
    BY <2>1, <2>2, <2>3 DEF HandleVote, ElectionTypeOK, CampaignsCountCastVotes
  <2>4. CASE reply /\ n = c
    <3>1. campaign[n].open /\ campaign[n].term = m.term
      BY <2>4 DEF HandleVote, RequestsAwaited
    <3>2. campaign'[n] = CountReply(campaign[n], v, GrantsVote(v, m), t)
      BY <2>4, <1>1 DEF HandleVote, ElectionTypeOK
    <3>3. /\ campaign'[n].term = campaign[n].term
          /\ campaign'[n].granted \subseteq campaign[n].granted \cup {v}
          /\ ~GrantsVote(v, m) => campaign'[n].granted = campaign[n].granted
      BY <3>2 DEF CountReply
    <3>4. GrantsVote(v, m) => Vote(v, m.term, n) \in votes'
      BY <2>4 DEF HandleVote
    <3>5. QED BY <3>1, <3>2, <3>3, <3>4, <2>2, <1>1, <2>4
              DEF CampaignsCountCastVotes
  <2>5. QED BY <2>3, <2>4
<1>5. OthersRemember'
  <2>1. SUFFICES ASSUME NEW w \in Node \ (forgot \cup rewound)
                 PROVE  /\ up[w]
                        /\ \A u \in Terms, d \in Node :
                             Vote(w, u, d) \in votes' =>
                               votedFor'[w][u] = d /\ u <= term'[w]
    BY DEF OthersRemember, HandleVote, Vote
  <2>2. ASSUME NEW u \in Terms, NEW d \in Node, Vote(w, u, d) \in votes'
        PROVE  votedFor'[w][u] = d /\ u <= term'[w]
    <3>1. term'[w] \in Int /\ term[w] \in Int /\ term'[w] >= term[w]
      BY <1>1 DEF HandleVote, ElectionTypeOK
    <3>2. CASE Vote(w, u, d) \in votes
      <4>1. votedFor[w][u] = d /\ u <= term[w]
        BY <3>2 DEF OthersRemember
      <4>2. CASE w = v /\ u = m.term /\ GrantsVote(v, m)
        <5>1. d = c
          BY <4>1, <4>2, NodeAssumption DEF GrantsVote
        <5>2. QED BY <4>1, <4>2, <5>1, <3>1, <1>1
                  DEF HandleVote, ElectionTypeOK, Terms
      <4>3. CASE ~(w = v /\ u = m.term /\ GrantsVote(v, m))
        <5>1. votedFor'[w][u] = votedFor[w][u]
          BY <4>3, <1>1 DEF HandleVote, ElectionTypeOK
        <5>2. QED BY <4>1, <5>1, <3>1 DEF Terms
      <4>4. QED BY <4>2, <4>3
    <3>3. CASE Vote(w, u, d) \notin votes
      <4>1. GrantsVote(v, m) /\ w = v /\ u = m.term /\ d = c
        BY <3>3, <2>2 DEF HandleVote, Vote
      <4>2. votedFor'[w][u] = d
        BY <4>1, <1>1 DEF HandleVote, ElectionTypeOK
      <4>3. term'[w] = t
        BY <4>1, <1>1 DEF HandleVote, ElectionTypeOK
      <4>4. QED BY <4>1, <4>2, <4>3, <1>1
    <3>4. QED BY <3>2, <3>3
  <2>3. QED BY <2>2 DEF OthersRemember
<1>6. LeaderWonItsTerm'
  <2>1. ASSUME NEW n \in Node, role'[n] = "leader"
        PROVE  role[n] = "leader" /\ term'[n] = term[n]
    BY <2>1, <1>1
    DEF HandleVote, RoleAfterVote, RoleAt, ElectionTypeOK, MaxOf, Terms
  <2>2. QED BY <2>1 DEF LeaderWonItsTerm, HandleVote
<1>7. WinsHaveMajority'
  BY DEF WinsHaveMajority, HandleVote, Vote
<1>8. OthersFollow'
  <2>1. \A n \in Node : campaign'[n].open = campaign[n].open
    BY <1>1 DEF HandleVote, ElectionTypeOK, CountReply
  <2>2. \A n \in Node : role[n] = "follower" => role'[n] = "follower"
    BY <1>1 DEF HandleVote, RoleAfterVote, RoleAt, ElectionTypeOK
  <2>3. QED BY <2>1, <2>2 DEF OthersFollow, HandleVote
<1>9. QED BY <1>2, <1>3, <1>4, <1>5, <1>6, <1>7, <1>8, <1>10

LEMMA WinElectionInv ==
  ASSUME NEW n \in Node, ElectionInv, WinElection(n)
  PROVE  ElectionInv'
<1> DEFINE c == campaign[n]
           w == [leader |-> n, term |-> c.term, quorum |-> c.granted \cup {n}]
<1> USE DEF ElectionInv
<1>1. /\ c.open /\ c.term \in Terms /\ c.granted \in SUBSET Peers(n)
      /\ \A v \in c.granted \cup {n} : Vote(v, c.term, n) \in votes
  BY DEF WinElection, CampaignsCountCastVotes
<1>2. /\ requests' \subseteq Requests
      /\ \A m \in requests' : m.live => m \in requests /\ m.from # n
      /\ \A m \in requests' : m.to \in Peers(m.from)
  BY AbandonLeavesOrphans DEF WinElection, ElectionTypeOK
<1>3. w \in Wins
  BY <1>1 DEF Wins, Peers
<1>4. NoCampaign \in Campaigns
  BY BoundAssumption DEF NoCampaign, Campaigns
<1>5. ElectionTypeOK'
  <2>1. won' \subseteq Wins
    BY <1>3 DEF ElectionTypeOK, WinElection
  <2>2. term' \in [Node -> 0 .. MaxTerm]
    BY <1>1, BoundAssumption DEF ElectionTypeOK, WinElection, Terms
  <2>3. campaign' \in [Node -> Campaigns]
    BY <1>4 DEF ElectionTypeOK, WinElection
  <2>4. /\ role' \in [Node -> {"leader", "follower"}]
        /\ leaderId' \in [Node -> Node \cup {NoNode}]
        /\ rewound' \subseteq Node /\ beating' \subseteq Node
    BY DEF ElectionTypeOK, WinElection
  <2>5. QED BY <1>2, <2>1, <2>2, <2>3, <2>4
            DEF ElectionTypeOK, WinElection
<1>6. RequestsAwaited'
  <2>1. ASSUME NEW m \in requests', m.live
        PROVE  campaign'[m.from].open /\ campaign'[m.from].term = m.term
    <3>1. m \in requests /\ m.from # n /\ m.from \in Node
      BY <2>1, <1>2 DEF Requests
    <3>2. QED BY <3>1, <2>1 DEF RequestsAwaited, WinElection, ElectionTypeOK
  <2>2. QED BY <2>1, <1>2 DEF RequestsAwaited, Peers
<1>7. CampaignsCountCastVotes'
  BY DEF CampaignsCountCastVotes, WinElection, ElectionTypeOK, NoCampaign,
         Peers, Vote
<1>8. OthersRemember'
  <2>1. ASSUME NEW v \in Node \ (forgot' \cup rewound') PROVE v \notin forgot \cup rewound /\ term'[v] >= term[v]
    BY <1>1 DEF WinElection, ElectionTypeOK, Terms
  <2>2. ASSUME NEW v \in Node \ (forgot' \cup rewound'), NEW t \in Terms, NEW d \in Node,
               Vote(v, t, d) \in votes
        PROVE  votedFor[v][t] = d /\ t <= term'[v]
    <3>1. term'[v] \in Int /\ term[v] \in Int
      BY <1>5 DEF ElectionTypeOK
    <3>2. QED BY <2>1, <2>2, <3>1 DEF OthersRemember, Terms
  <2>3. QED BY <2>1, <2>2 DEF OthersRemember, WinElection, Vote
<1>9. LeaderWonItsTerm'
  <2>1. w \in won' /\ won \subseteq won'
    BY DEF WinElection
  <2>2. \A p \in Node : p # n => role'[p] = role[p] /\ term'[p] = term[p]
    BY DEF WinElection, ElectionTypeOK
  <2>3. term'[n] = c.term
    BY DEF WinElection, ElectionTypeOK
  <2>4. QED BY <2>1, <2>2, <2>3 DEF LeaderWonItsTerm
<1>10. WinsHaveMajority'
  <2>1. Cardinality(w.quorum) = Cardinality(c.granted) + 1
    BY <1>1, SelfVoteCounts
  <2>2. Cardinality(w.quorum) >= Majority
    BY <2>1 DEF WinElection, HasMajority
  <2>3. won' = won \cup {w} /\ votes' = votes
    BY DEF WinElection
  <2>4. \A v \in w.quorum : Vote(v, w.term, w.leader) \in votes
    BY <1>1
  <2>5. QED BY <2>2, <2>3, <2>4 DEF WinsHaveMajority, Vote
<1>11. OthersFollow'
  BY DEF OthersFollow, WinElection, ElectionTypeOK, NoCampaign
<1>12. LoopsHaveTerms'
  BY <1>1 DEF LoopsHaveTerms, WinElection, ElectionTypeOK
<1>13. QED BY <1>5, <1>6, <1>7, <1>8, <1>9, <1>10, <1>11, <1>12

LEMMA LoseElectionInv ==
  ASSUME NEW n \in Node, ElectionInv, LoseElection(n)
  PROVE  ElectionInv'
<1> USE DEF ElectionInv
<1>1. /\ requests' \subseteq Requests
      /\ \A m \in requests' : m.live => m \in requests /\ m.from # n
      /\ \A m \in requests' : m.to \in Peers(m.from)
  BY AbandonLeavesOrphans DEF LoseElection, ElectionTypeOK
<1>2. NoCampaign \in Campaigns
  BY BoundAssumption DEF NoCampaign, Campaigns
<1>3. /\ MaxOf(term[n], campaign[n].peerTerm) \in 0 .. MaxTerm
      /\ MaxOf(term[n], campaign[n].peerTerm) >= term[n]
  BY DEF ElectionTypeOK, Campaigns, MaxOf
<1>4. \A v \in Node : term'[v] \in Int /\ term[v] \in Int /\ term'[v] >= term[v]
  BY <1>3 DEF LoseElection, ElectionTypeOK
<1>5. ElectionTypeOK'
  BY <1>1, <1>2, <1>3 DEF ElectionTypeOK, LoseElection
<1>6. RequestsAwaited'
  <2>1. ASSUME NEW m \in requests', m.live
        PROVE  campaign'[m.from].open /\ campaign'[m.from].term = m.term
    <3>1. m \in requests /\ m.from # n /\ m.from \in Node
      BY <2>1, <1>1 DEF Requests
    <3>2. QED BY <3>1, <2>1 DEF RequestsAwaited, LoseElection, ElectionTypeOK
  <2>2. QED BY <2>1, <1>1 DEF RequestsAwaited, Peers
<1>7. CampaignsCountCastVotes'
  BY DEF CampaignsCountCastVotes, LoseElection, ElectionTypeOK, NoCampaign,
         Peers, Vote
<1>8. OthersRemember'
  BY <1>4 DEF OthersRemember, LoseElection, Vote, Terms
<1>9. LeaderWonItsTerm'
  <2>1. role[n] = "follower"
    BY DEF LoseElection, OthersFollow
  <2>2. QED BY <2>1 DEF LeaderWonItsTerm, LoseElection, ElectionTypeOK
<1>10. WinsHaveMajority'
  BY DEF WinsHaveMajority, LoseElection, Vote
<1>11. OthersFollow'
  BY DEF OthersFollow, LoseElection, ElectionTypeOK, NoCampaign
<1>12. LoopsHaveTerms'
  BY <1>3, <1>4, <1>5 DEF LoopsHaveTerms, LoseElection, ElectionTypeOK, Terms
<1>13. QED BY <1>5, <1>6, <1>7, <1>8, <1>9, <1>10, <1>11, <1>12

LEMMA SendHeartbeatInv ==
  ASSUME NEW n \in Node, ElectionInv, SendHeartbeat(n)
  PROVE  ElectionInv'
<1> USE DEF ElectionInv
<1>1. term[n] \in Terms
  BY DEF SendHeartbeat, LoopsHaveTerms
<1>2. ElectionTypeOK'
  BY <1>1 DEF ElectionTypeOK, SendHeartbeat, Heartbeats
<1>3. QED
  BY <1>2 DEF SendHeartbeat, RequestsAwaited, CampaignsCountCastVotes,
              OthersRemember, OthersFollow, LoopsHaveTerms, LeaderWonItsTerm,
              WinsHaveMajority, Vote, Peers

LEMMA HandleHeartbeatInv ==
  ASSUME NEW n \in Node, NEW h \in heartbeats, ElectionInv, HandleHeartbeat(n, h)
  PROVE  ElectionInv'
<1> USE DEF ElectionInv
<1>1. h \in Heartbeats /\ h.term \in 0 .. MaxTerm /\ h.leader \in Node
  BY DEF ElectionTypeOK, Heartbeats, Terms
<1>8. beating' \subseteq beating /\ LoopsHaveTerms'
  BY <1>1, SeenTermKeepsLoops DEF HandleHeartbeat, Follows
<1>2. ElectionTypeOK'
  BY <1>1, <1>8 DEF ElectionTypeOK, HandleHeartbeat, RoleAt
<1>3. \A v \in Node : term'[v] \in Int /\ term[v] \in Int /\ term'[v] >= term[v]
  BY <1>1 DEF HandleHeartbeat, Follows, ElectionTypeOK
<1>4. OthersRemember'
  BY <1>3 DEF OthersRemember, HandleHeartbeat, Vote, Terms
<1>5. LeaderWonItsTerm'
  <2>1. ASSUME NEW p \in Node, role'[p] = "leader"
        PROVE  role[p] = "leader" /\ term'[p] = term[p]
    <3>1. CASE p # n
      BY <2>1, <3>1 DEF HandleHeartbeat, ElectionTypeOK
    <3>2. CASE p = n
      <4>1. ~(h.term > term[n]) /\ role[n] = "leader"
        BY <2>1, <3>2 DEF HandleHeartbeat, RoleAt, ElectionTypeOK
      <4>2. h.term = term[n]
        <5>1. h.term >= term[n]
          BY DEF HandleHeartbeat, Follows
        <5>2. h.term \in Int /\ term[n] \in Int
          BY <1>1 DEF ElectionTypeOK
        <5>3. QED BY <4>1, <5>1, <5>2
      <4>3. QED BY <4>1, <4>2, <3>2 DEF HandleHeartbeat, ElectionTypeOK
    <3>3. QED BY <3>1, <3>2
  <2>2. QED BY <2>1 DEF LeaderWonItsTerm, HandleHeartbeat
<1>6. OthersFollow'
  BY DEF OthersFollow, HandleHeartbeat, RoleAt, ElectionTypeOK
<1>7. QED
  BY <1>2, <1>4, <1>5, <1>6, <1>8
  DEF HandleHeartbeat, RequestsAwaited, CampaignsCountCastVotes,
      WinsHaveMajority, Vote, Peers

(* A line appended leaves the types of the WAL's variables alone.          *)
LEMMA AppendLineTypes ==
  ASSUME NEW n \in Node, NEW t \in 0 .. MaxTerm, NEW kept \in BOOLEAN,
         ElectionTypeOK, AppendLine(n, t, kept)
  PROVE  /\ lsn' \in [Node -> 0 .. MaxLsn]
         /\ walLsn' \in [Node -> 0 .. MaxLsn]
         /\ walTerm' \in [Node -> 0 .. MaxTerm]
<1>1. MaxOf(walTerm[n], t) \in 0 .. MaxTerm
  BY DEF ElectionTypeOK, MaxOf
<1>2. lsn[n] + 1 \in 0 .. MaxLsn
  BY BoundAssumption DEF AppendLine, ElectionTypeOK
<1>3. QED BY <1>1, <1>2 DEF AppendLine, ElectionTypeOK

LEMMA LocalWriteInv ==
  ASSUME NEW n \in Node, NEW kept \in BOOLEAN, ElectionInv,
         LocalWrite(n, kept)
  PROVE  ElectionInv'
<1> USE DEF ElectionInv
<1>1. term[n] \in 0 .. MaxTerm
  BY DEF ElectionTypeOK
<1>2. /\ lsn' \in [Node -> 0 .. MaxLsn]
      /\ walLsn' \in [Node -> 0 .. MaxLsn]
      /\ walTerm' \in [Node -> 0 .. MaxTerm]
  BY <1>1, AppendLineTypes DEF LocalWrite
<1>3. ElectionTypeOK'
  BY <1>1, <1>2 DEF ElectionTypeOK, LocalWrite
<1>4. QED
  BY <1>3 DEF LocalWrite, RequestsAwaited, CampaignsCountCastVotes,
              OthersRemember, OthersFollow, LoopsHaveTerms, LeaderWonItsTerm,
              WinsHaveMajority, Vote, Peers

LEMMA SeeEntryInv ==
  ASSUME NEW n \in Node, NEW t \in Terms, ElectionInv, SeeEntry(n, t),
         /\ lsn' \in [Node -> 0 .. MaxLsn]
         /\ walLsn' \in [Node -> 0 .. MaxLsn]
         /\ walTerm' \in [Node -> 0 .. MaxTerm]
  PROVE  ElectionInv'
<1> USE DEF ElectionInv
<1>1. MaxOf(term[n], t) \in 0 .. MaxTerm /\ MaxOf(term[n], t) >= term[n]
  BY BoundAssumption DEF ElectionTypeOK, MaxOf, Terms
<1>2. beating' \subseteq beating /\ LoopsHaveTerms'
  <2>1. t \in 0 .. MaxTerm
    BY DEF Terms
  <2>2. QED BY <2>1, SeenTermKeepsLoops DEF SeeEntry
<1>3. ElectionTypeOK'
  BY <1>1, <1>2 DEF ElectionTypeOK, SeeEntry, RoleAt, LeaderIdAt
<1>4. \A v \in Node : term'[v] \in Int /\ term[v] \in Int /\ term'[v] >= term[v]
  BY <1>1 DEF SeeEntry, ElectionTypeOK
<1>5. OthersRemember'
  BY <1>4 DEF OthersRemember, SeeEntry, Vote, Terms
<1>6. LeaderWonItsTerm'
  <2>1. ASSUME NEW p \in Node, role'[p] = "leader"
        PROVE  role[p] = "leader" /\ term'[p] = term[p]
    <3>1. CASE p = n
      BY <2>1, <3>1 DEF SeeEntry, RoleAt, MaxOf, ElectionTypeOK, Terms
    <3>2. CASE p # n
      BY <2>1, <3>2 DEF SeeEntry, ElectionTypeOK
    <3>3. QED BY <3>1, <3>2
  <2>2. QED BY <2>1 DEF LeaderWonItsTerm, SeeEntry
<1>7. OthersFollow'
  BY DEF OthersFollow, SeeEntry, RoleAt, ElectionTypeOK
<1>8. QED
  BY <1>2, <1>3, <1>5, <1>6, <1>7
  DEF SeeEntry, RequestsAwaited, CampaignsCountCastVotes,
      WinsHaveMajority, Vote, Peers

LEMMA ForwardedEntryInv ==
  ASSUME NEW n \in Node, NEW t \in Terms, ElectionInv,
         \/ EntrySeen(n, t)
         \/ \E kept \in BOOLEAN : EntryAppended(n, t, kept)
  PROVE  ElectionInv'
<1>1. SeeEntry(n, t)
  BY DEF EntrySeen, EntryAppended
<1>2. /\ lsn' \in [Node -> 0 .. MaxLsn]
      /\ walLsn' \in [Node -> 0 .. MaxLsn]
      /\ walTerm' \in [Node -> 0 .. MaxTerm]
  <2>1. CASE EntrySeen(n, t)
    BY <2>1 DEF EntrySeen, ElectionInv, ElectionTypeOK
  <2>2. ASSUME NEW kept \in BOOLEAN, EntryAppended(n, t, kept)
        PROVE  /\ lsn' \in [Node -> 0 .. MaxLsn]
               /\ walLsn' \in [Node -> 0 .. MaxLsn]
               /\ walTerm' \in [Node -> 0 .. MaxTerm]
    <3>1. t \in 0 .. MaxTerm
      BY DEF Terms
    <3>2. QED BY <2>2, <3>1, AppendLineTypes DEF EntryAppended, ElectionInv
  <2>3. QED BY <2>1, <2>2
<1>3. QED BY <1>1, <1>2, SeeEntryInv

LEMMA CrashInv ==
  ASSUME NEW n \in Node, ElectionInv, Crash(n)
  PROVE  ElectionInv'
<1> USE DEF ElectionInv
<1>1. /\ requests' \subseteq Requests
      /\ \A m \in requests' : m.live => m \in requests /\ m.from # n
      /\ \A m \in requests' : m.to \in Peers(m.from)
  BY AbandonLeavesOrphans DEF Crash, ElectionTypeOK
<1>2. NoCampaign \in Campaigns /\ NoVotes \in [Terms -> Node \cup {NoNode}]
  BY BoundAssumption DEF NoCampaign, Campaigns, NoVotes
<1>3. 0 \in 0 .. MaxTerm /\ crashes + 1 \in 0 .. MaxCrashes
  BY BoundAssumption DEF Crash, ElectionTypeOK
<1>4. ElectionTypeOK'
  BY <1>1, <1>2, <1>3 DEF ElectionTypeOK, Crash
<1>5. RequestsAwaited'
  <2>1. ASSUME NEW m \in requests', m.live
        PROVE  campaign'[m.from].open /\ campaign'[m.from].term = m.term
    <3>1. m \in requests /\ m.from # n /\ m.from \in Node
      BY <2>1, <1>1 DEF Requests
    <3>2. QED BY <3>1, <2>1 DEF RequestsAwaited, Crash, ElectionTypeOK
  <2>2. QED BY <2>1, <1>1 DEF RequestsAwaited, Peers
<1>6. CampaignsCountCastVotes'
  BY DEF CampaignsCountCastVotes, Crash, ElectionTypeOK, NoCampaign, Peers, Vote
<1>7. OthersRemember'
  BY DEF OthersRemember, Crash, ElectionTypeOK, Vote
<1>8. LeaderWonItsTerm'
  BY DEF LeaderWonItsTerm, Crash, ElectionTypeOK
<1>9. WinsHaveMajority'
  BY DEF WinsHaveMajority, Crash, Vote
<1>10. OthersFollow'
  BY DEF OthersFollow, Crash, ElectionTypeOK, NoCampaign
<1>11. LoopsHaveTerms'
  BY DEF LoopsHaveTerms, Crash, ElectionTypeOK
<1>12. QED BY <1>4, <1>5, <1>6, <1>7, <1>8, <1>9, <1>10, <1>11

LEMMA RestartInv ==
  ASSUME NEW n \in Node, ElectionInv, Restart(n)
  PROVE  ElectionInv'
<1> USE DEF ElectionInv
<1>1. ElectionTypeOK'
  BY DEF ElectionTypeOK, Restart
<1>2. n \in forgot \cup rewound
  BY DEF Restart, OthersRemember
<1>3. OthersRemember'
  BY <1>2 DEF OthersRemember, Restart, ElectionTypeOK, Vote
<1>4. LeaderWonItsTerm' /\ OthersFollow'
  <2>1. role[n] = "follower"
    BY DEF Restart, OthersFollow
  <2>2. QED BY <2>1
            DEF Restart, LeaderWonItsTerm, OthersFollow, ElectionTypeOK
<1>6. LoopsHaveTerms'
  BY DEF LoopsHaveTerms, Restart, ElectionTypeOK
<1>5. QED
  BY <1>1, <1>3, <1>4, <1>6
  DEF Restart, RequestsAwaited, CampaignsCountCastVotes, WinsHaveMajority, Vote,
      Peers

-----------------------------------------------------------------------------
LEMMA ElectionInvInit == ElectionInit => ElectionInv
<1>1. SUFFICES ASSUME ElectionInit PROVE ElectionInv
  OBVIOUS
<1>2. NoCampaign \in Campaigns /\ NoVotes \in [Terms -> Node \cup {NoNode}]
  BY BoundAssumption DEF NoCampaign, Campaigns, NoVotes
<1>3. ElectionTypeOK
  BY <1>1, <1>2, BoundAssumption DEF ElectionInit, ElectionTypeOK
<1>4. QED
  BY <1>1, <1>3
  DEF ElectionInit, ElectionInv, OthersFollow, LoopsHaveTerms, RequestsAwaited,
      CampaignsCountCastVotes, OthersRemember, LeaderWonItsTerm,
      WinsHaveMajority, NoCampaign

LEMMA ElectionInvStep ==
  ElectionInv /\ [ElectionNext]_electionVars => ElectionInv'
<1>1. SUFFICES ASSUME ElectionInv, [ElectionNext]_electionVars
               PROVE  ElectionInv'
  OBVIOUS
<1>2. CASE UNCHANGED electionVars
  BY <1>1, <1>2
  DEF electionVars, ElectionInv, ElectionTypeOK, OthersFollow, LoopsHaveTerms,
      RequestsAwaited, CampaignsCountCastVotes, OthersRemember, LeaderWonItsTerm,
      WinsHaveMajority, Vote, Peers
<1>3. ASSUME NEW n \in Node, StartElection(n) PROVE ElectionInv'
  BY <1>1, <1>3, StartElectionInv
<1>4. ASSUME NEW n \in Node, WinElection(n) PROVE ElectionInv'
  BY <1>1, <1>4, WinElectionInv
<1>5. ASSUME NEW n \in Node, LoseElection(n) PROVE ElectionInv'
  BY <1>1, <1>5, LoseElectionInv
<1>6. ASSUME NEW n \in Node, SendHeartbeat(n) PROVE ElectionInv'
  BY <1>1, <1>6, SendHeartbeatInv
<1>7. ASSUME NEW n \in Node, NEW kept \in BOOLEAN, LocalWrite(n, kept)
      PROVE  ElectionInv'
  BY <1>1, <1>7, LocalWriteInv
<1>8. ASSUME NEW n \in Node, Crash(n) PROVE ElectionInv'
  BY <1>1, <1>8, CrashInv
<1>9. ASSUME NEW n \in Node, Restart(n) PROVE ElectionInv'
  BY <1>1, <1>9, RestartInv
<1>10. ASSUME NEW n \in Node, NEW h \in heartbeats, HandleHeartbeat(n, h)
       PROVE  ElectionInv'
  BY <1>1, <1>10, HandleHeartbeatInv
<1>11. ASSUME NEW n \in Node, NEW t \in Terms,
              \/ EntrySeen(n, t)
              \/ \E kept \in BOOLEAN : EntryAppended(n, t, kept)
       PROVE  ElectionInv'
  BY <1>1, <1>11, ForwardedEntryInv
<1>12. ASSUME NEW m \in requests, NEW reply \in BOOLEAN, HandleVote(m, reply)
       PROVE  ElectionInv'
  BY <1>1, <1>12, HandleVoteInv
<1>13. QED
  BY <1>1, <1>2, <1>3, <1>4, <1>5, <1>6, <1>7, <1>8, <1>9, <1>10, <1>11, <1>12
  DEF ElectionNext

(* The inductive invariant holds in every behaviour of the election.       *)
THEOREM ElectionInvariant == ElectionSpec => []ElectionInv
<1>1. ElectionInit => ElectionInv
  BY ElectionInvInit
<1>2. ElectionInv /\ [ElectionNext]_electionVars => ElectionInv'
  BY ElectionInvStep
<1>3. QED BY <1>1, <1>2, PTL DEF ElectionSpec

(* Type correctness of the election state.                                 *)
THEOREM ElectionTypeCorrect == ElectionSpec => []ElectionTypeOK
<1>1. ElectionInv => ElectionTypeOK
  BY DEF ElectionInv
<1>2. QED BY <1>1, ElectionInvariant, PTL

(* Whatever messages move a leader's term, it stays leader only of a term  *)
(* it won; and every election won, in any cluster, had a majority of votes *)
(* that were really cast for it.                                           *)
THEOREM LeadersElected == ElectionSpec => []LeadersWereElected
<1>1. ElectionInv => LeadersWereElected
  BY DEF ElectionInv, LeadersWereElected
<1>2. QED BY <1>1, ElectionInvariant, PTL

(* Election safety: two leaders of one term share a voter whose memory of  *)
(* its votes went back, by a crash or by winning an election that set its  *)
(* term back.  Where neither happens, a term has one leader.               *)
THEOREM ElectionSafety == ElectionSpec => []SplitNeedsForgetfulVoter
<1>1. ElectionInv => SplitNeedsForgetfulVoter
  <2>1. SUFFICES ASSUME ElectionInv, NEW w1 \in won, NEW w2 \in won,
                        w1.term = w2.term, w1.leader # w2.leader
                 PROVE  \E v \in forgot \cup rewound : VotedForBoth(v, w1, w2)
    BY DEF SplitNeedsForgetfulVoter
  <2>2. w1 \in Wins /\ w2 \in Wins
    BY <2>1 DEF ElectionInv, ElectionTypeOK
  <2>3. /\ Cardinality(w1.quorum) >= Majority
        /\ Cardinality(w2.quorum) >= Majority
    BY <2>1 DEF ElectionInv, WinsHaveMajority
  <2>4. PICK v \in w1.quorum \cap w2.quorum : TRUE
    <3>1. w1.quorum \in SUBSET Node /\ w2.quorum \in SUBSET Node
      BY <2>2 DEF Wins
    <3>2. w1.quorum \cap w2.quorum # {}
      BY <2>3, <3>1, QuorumsIntersect
    <3>3. QED BY <3>2
  <2>5. VotedForBoth(v, w1, w2)
    BY <2>1, <2>4 DEF ElectionInv, WinsHaveMajority, VotedForBoth
  <2>6. v \in forgot \cup rewound
    <3>1. SUFFICES ASSUME v \notin forgot \cup rewound PROVE FALSE
      OBVIOUS
    <3>2. v \in Node \ (forgot \cup rewound) /\ w1.leader \in Node /\ w2.leader \in Node
          /\ w1.term \in Terms
      BY <2>2, <2>4, <3>1 DEF Wins
    <3>3. votedFor[v][w1.term] = w1.leader /\ votedFor[v][w2.term] = w2.leader
      BY <2>1, <2>5, <3>2 DEF ElectionInv, OthersRemember, VotedForBoth
    <3>4. QED BY <2>1, <3>3
  <2>7. QED BY <2>5, <2>6
<1>2. QED BY <1>1, ElectionInvariant, PTL

(* The promise of main.py:447, with what it takes: where no node has lost  *)
(* its votes, and no election won has set a term back, a term has at most  *)
(* one leader.                                                             *)
THEOREM RememberedVotesElectOne ==
  ElectionSpec => [](forgot = {} /\ rewound = {} => AtMostOneLeaderPerTerm)
<1>1. SplitNeedsForgetfulVoter
        => (forgot = {} /\ rewound = {} => AtMostOneLeaderPerTerm)
  BY DEF SplitNeedsForgetfulVoter, AtMostOneLeaderPerTerm
<1>2. QED BY <1>1, ElectionSafety, PTL

(* A running node's term goes back only when it wins an election, and then *)
(* to the term its campaign started in.                                    *)
THEOREM TermRegression == ElectionSpec => TermGoesBackOnlyByWinning
<1> DEFINE TermStep ==
      \A n \in Node :
        (up[n] /\ up'[n] /\ term'[n] < term[n]) =>
           (role'[n] = "leader" /\ term'[n] = campaign[n].term)
<1>1. ElectionInv /\ [ElectionNext]_electionVars => [TermStep]_electionVars
  <2>1. SUFFICES ASSUME ElectionInv, ElectionNext, NEW p \in Node,
                        up[p], up'[p], term'[p] < term[p]
                 PROVE  role'[p] = "leader" /\ term'[p] = campaign[p].term
    OBVIOUS
  <2>2. ElectionTypeOK
    BY <2>1 DEF ElectionInv
  <2>3. ASSUME NEW n \in Node, WinElection(n)
        PROVE  role'[p] = "leader" /\ term'[p] = campaign[p].term
    BY <2>1, <2>2, <2>3 DEF WinElection, ElectionTypeOK
  <2>4. ASSUME NEW n \in Node, StartElection(n) PROVE FALSE
    BY <2>1, <2>2, <2>4 DEF StartElection, ElectionTypeOK
  <2>5. ASSUME NEW n \in Node, LoseElection(n) PROVE FALSE
    BY <2>1, <2>2, <2>5 DEF LoseElection, ElectionTypeOK, Campaigns, MaxOf
  <2>6. ASSUME NEW n \in Node,
               SendHeartbeat(n) \/ \E kept \in BOOLEAN : LocalWrite(n, kept)
        PROVE  FALSE
    BY <2>1, <2>2, <2>6 DEF SendHeartbeat, LocalWrite, ElectionTypeOK
  <2>7. ASSUME NEW n \in Node, Crash(n) \/ Restart(n) PROVE FALSE
    <3>1. p # n
      BY <2>1, <2>2, <2>7 DEF Crash, Restart, ElectionTypeOK
    <3>2. term'[p] = term[p]
      BY <2>2, <2>7, <3>1 DEF Crash, Restart, ElectionTypeOK
    <3>3. term[p] \in Int
      BY <2>2 DEF ElectionTypeOK
    <3>4. QED BY <2>1, <3>2, <3>3
  <2>8. ASSUME NEW n \in Node, NEW h \in heartbeats, HandleHeartbeat(n, h)
        PROVE  FALSE
    BY <2>1, <2>2, <2>8
    DEF HandleHeartbeat, Follows, ElectionTypeOK, Heartbeats, Terms
  <2>9. ASSUME NEW n \in Node, NEW t \in Terms, SeeEntry(n, t) PROVE FALSE
    BY <2>1, <2>2, <2>9 DEF SeeEntry, MaxOf, ElectionTypeOK, Terms
  <2>10. ASSUME NEW m \in requests, NEW reply \in BOOLEAN, HandleVote(m, reply)
         PROVE  FALSE
    BY <2>1, <2>2, <2>10 DEF HandleVote, MaxOf, ElectionTypeOK, Requests, Terms
  <2>11. QED BY <2>1, <2>3, <2>4, <2>5, <2>6, <2>7, <2>8, <2>9, <2>10
             DEF ElectionNext, EntrySeen, EntryAppended
<1>2. QED
  BY <1>1, ElectionInvariant, PTL DEF ElectionSpec, TermGoesBackOnlyByWinning
=============================================================================
