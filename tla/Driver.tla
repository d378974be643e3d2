------------------------------- MODULE Driver -------------------------------
(***************************************************************************)
(* The demo driver (run_demo.py) as a client of the cluster, from the      *)
(* sampled data (SampleData) over the oracle (scripts/build_oracle.py) and *)
(* the stream of PUTs to the verdict (scripts/verify_cluster.py).          *)
(*                                                                         *)
(* A review changes the running average and the count of its business; the *)
(* value of a business is represented by how often each review has been    *)
(* folded into it.  The nodes are seen through their endpoints: Cluster,   *)
(* Election and WAL have what is inside, here a PUT and its fan-out are    *)
(* one step, an election one step, and a new term is new everywhere.       *)
(***************************************************************************)
EXTENDS SampleData

CONSTANTS
  Node,        \* the members of config/cluster.json
  NodeOrder,   \* and their order there
  Majority,    \* replication.majority
  MaxRetries,  \* how often stream_reviews tries again: 3
  MaxPolls,    \* bound: polls again before a deadline (5 s, 60 s)
  MaxFaults,   \* bound: failures in a behaviour
  MaxTerm      \* bound: elections in a behaviour

ASSUME DriverAssumption ==
  /\ IsFiniteSet(Node)
  /\ NodeOrder \in Seq(Node) /\ NodeOrder # << >>
  /\ \A n \in Node : \E i \in DOMAIN NodeOrder : NodeOrder[i] = n
  /\ {Majority, MaxRetries, MaxPolls, MaxFaults, MaxTerm} \subseteq Nat

VARIABLES
  up,         \* nodes that can be reached
  leads,      \* nodes whose _role is leader
  term,       \* _term
  log,        \* what a node has appended to its WAL
  late,       \* PUTs that may be handled after the driver gave up on them
  faults,     \* failures so far
  pc,         \* what the driver is doing
  answers,    \* /health of the nodes asked so far
  leader,     \* current_leader
  pos,        \* lines read of the current file
  tries,      \* retries of a PUT, or polls before a deadline
  state,      \* the driver's state, by business
  oracle,     \* expected_state.json
  unread,     \* <<node, key>> that verify has not read yet
  passed,     \* has verify found no error
  converged,  \* history: the LSN and the nodes wait_convergence printed
  judged,     \* history: the nodes that verify read
  confirmed,  \* history: PUTs answered 200
  led,        \* history: nodes that have been leader
  overtaken   \* history: was a late PUT carried out

nodeVars == <<up, leads, term, log, led>>
verdictVars == <<unread, passed, judged>>
driverVars == <<sampleVars, nodeVars, late, faults, pc, answers, leader, pos,
                tries, state, oracle, verdictVars, converged, confirmed,
                overtaken>>

-----------------------------------------------------------------------------
Values == [1 .. MaxReviews -> Nat]
Unreviewed == [i \in 1 .. MaxReviews |-> 0]
Entry(k, v) == [key |-> k, value |-> v]
Call(n, e) == [to |-> n, entry |-> e]

\* One line of reviews.jsonl, in build_oracle.py and in stream_reviews.
AddReview(s, i) ==
  IF reviews[i].business \in Ids THEN [s EXCEPT ![reviews[i].business][i] = @ + 1]
                                 ELSE s

DriverInit ==
  /\ SampleInit
  /\ up = Node /\ leads = {} /\ term = [n \in Node |-> 0]
  /\ log = [n \in Node |-> << >>]
  /\ late = {} /\ faults = 0
  /\ pc = "count" /\ answers = << >> /\ leader = NodeOrder[1] /\ pos = 0 /\ tries = 0
  /\ state = [b \in Business |-> Unreviewed]
  /\ oracle = [b \in Business |-> Unreviewed]
  /\ unread = {} /\ passed = FALSE
  /\ converged = [lsn |-> 0, nodes |-> {}] /\ judged = {}
  /\ confirmed = {} /\ led = {} /\ overtaken = FALSE

Fault == faults < MaxFaults /\ faults' = faults + 1
NoFault == UNCHANGED faults

-----------------------------------------------------------------------------
\* What a node does with a PUT.

\* The peers whose next LSN is the entry's and that are in no later term.
AcceptorsPastEnd(n) ==
  {p \in up \ {n} : term[p] <= term[n] /\ Len(log[p]) + 1 = Len(log[n])}
Acceptors(n) ==
  {p \in up \ {n} : term[p] <= term[n] /\ Len(log[p]) = Len(log[n])}

\* A leader appends an entry, and the peers in S with it.
Append1(n, e, S) ==
  /\ log' = [p \in Node |-> IF p \in S \cup {n} THEN Append(log[p], e)
                                                ELSE log[p]]
  /\ term' = [p \in Node |-> IF p \in S THEN term[n] ELSE term[p]]
  /\ leads' = leads \ S
  /\ UNCHANGED <<up, led>>

(* An entry reaches every peer that can take it, or a call is lost.  The   *)
(* majority decides between 200 and 503, unless the answer is lost.        *)
Serves(n, e, result) ==
  /\ n \in up \cap leads
  /\ \E S \in SUBSET Acceptors(n) :
       /\ Append1(n, e, S)
       /\ \/ /\ result = IF Cardinality(S) + 1 >= Majority THEN "200" ELSE "503"
             /\ IF S = Acceptors(n) THEN NoFault ELSE Fault
          \/ result = "none" /\ Fault
  /\ UNCHANGED late

Refuses(n, result) ==
  /\ n \in up \ leads /\ result = "409"
  /\ NoFault /\ UNCHANGED <<nodeVars, late>>

\* The WAL cannot be written, or the node cannot be reached.
Breaks(n, result) ==
  /\ UNCHANGED <<nodeVars, late>>
  /\ \/ n \in up \cap leads /\ result = "500" /\ Fault
     \/ n \notin up /\ result = "none" /\ NoFault

\* The driver's ten seconds are over, and the call waits at a leader that is
\* frozen or slow (bound: one call at a time).
Hangs(n, e, result) ==
  /\ n \in leads /\ result = "none"
  /\ late = {} /\ late' = {Call(n, e)}
  /\ IF n \in up THEN Fault ELSE NoFault
  /\ UNCHANGED nodeVars

Put(n, e, result) ==
  \/ Serves(n, e, result) \/ Refuses(n, result) \/ Breaks(n, result)
  \/ Hangs(n, e, result)

Results == {"200", "409", "500", "503", "none"}
Confirms(e, result) ==
  confirmed' = IF result = "200" THEN confirmed \cup {e} ELSE confirmed

-----------------------------------------------------------------------------
\* What else happens at the nodes.
envVars == <<sampleVars, pc, answers, leader, pos, tries, state, oracle,
             verdictVars, converged, confirmed>>

\* Whoever is up and has no longer WAL votes for n.  After the first election
\* there is another one only if something failed.
Elect(n) ==
  LET voters == {p \in up : Len(log[p]) <= Len(log[n])} IN
  /\ n \in up \ leads
  /\ led = {} \/ faults > 0
  /\ Cardinality(voters) >= Majority
  /\ \E t \in 1 .. MaxTerm :
       /\ \A p \in Node : term[p] < t
       /\ \E p \in Node : term[p] = t - 1
       /\ term' = [p \in Node |-> IF p \in voters THEN t ELSE term[p]]
  /\ leads' = (leads \ voters) \cup {n}
  /\ led' = led \cup {n}
  /\ UNCHANGED <<up, log, late, faults, overtaken, envVars>>

StepsDown(n) ==
  /\ n \in up \cap leads
  /\ \E p \in up : term[p] > term[n] /\ term' = [term EXCEPT ![n] = term[p]]
  /\ leads' = leads \ {n}
  /\ UNCHANGED <<up, log, late, faults, led, overtaken, envVars>>

(* A node is killed, or frozen or cut off, and comes back.  A killed one    *)
(* has the log it had, since no crash cuts a line here (WAL.tla and         *)
(* Cluster.tla have that), and the highest term of its WAL (main.py:157),   *)
(* which may be lower than the one it was in.                               *)
Leaves(n, killed) ==
  /\ n \in up /\ Fault
  /\ up' = up \ {n}
  /\ leads' = IF killed THEN leads \ {n} ELSE leads
  /\ late'  = IF killed THEN {c \in late : c.to # n} ELSE late
  /\ \E t \in 0 .. term[n] :
       /\ killed \/ t = term[n]
       /\ term' = [term EXCEPT ![n] = t]
  /\ UNCHANGED <<log, led, overtaken, envVars>>

Returns(n) ==
  /\ n \notin up
  /\ up' = up \cup {n}
  /\ UNCHANGED <<leads, term, log, late, faults, led, overtaken, envVars>>

\* A call the driver has given up on is handled, at a node that leads still.
LatePut(c) ==
  /\ c.to \in up \cap leads
  /\ \E S \in SUBSET Acceptors(c.to) : Append1(c.to, c.entry, S)
  /\ late' = late \ {c} /\ overtaken' = TRUE
  /\ UNCHANGED <<faults, envVars>>

\* So is an entry whose fan-out is over.
LateEntry(n, p) ==
  /\ faults > 0 /\ n \in led
  /\ p \in up /\ term[p] <= term[n] /\ Len(log[p]) < Len(log[n])
  /\ log' = [log EXCEPT ![p] = Append(@, log[n][Len(@) + 1])]
  /\ UNCHANGED <<up, leads, term, late, faults, led, overtaken, envVars>>

EnvStep ==
  /\ sampled
  /\ \/ \E n \in Node :
          \/ Elect(n) \/ StepsDown(n) \/ Returns(n)
          \/ \E killed \in BOOLEAN : Leaves(n, killed)
          \/ \E p \in Node : LateEntry(n, p)
     \/ \E c \in late : LatePut(c)

-----------------------------------------------------------------------------
\* GET /health of one node after the other: preflight, _find_leader,
\* wait_convergence and verify.
AllAnswered == Len(answers) = Len(NodeOrder)
Answered == {i \in DOMAIN answers : answers[i].live}
LeaderFound == answers # << >> /\ answers[Len(answers)].leads

Asks ==
  LET n == NodeOrder[Len(answers) + 1]
      health == [node |-> n, live |-> TRUE, leads |-> n \in leads,
                 lsn |-> Len(log[n])]
      none == [node |-> n, live |-> FALSE, leads |-> FALSE, lsn |-> 0]
  IN
  /\ pc \in {"count", "seek", "return", "converge", "health"} /\ ~AllAnswered
  /\ pc \in {"seek", "return"} => ~LeaderFound
  /\ \/ n \in up /\ answers' = Append(answers, health) /\ NoFault
     \/ n \notin up /\ answers' = Append(answers, none) /\ NoFault
     \/ n \in up /\ answers' = Append(answers, none) /\ Fault
  /\ UNCHANGED <<sampleVars, nodeVars, late, pc, leader, pos, tries, state,
                 oracle, verdictVars, converged, confirmed, overtaken>>

\* Whatever follows from the answers leaves the cluster alone.
Concludes(next) ==
  /\ pc' = next /\ answers' = << >>
  /\ UNCHANGED <<sampleVars, nodeVars, late, faults, pos, state, oracle,
                 confirmed, overtaken>>

CountNodes ==
  /\ pc = "count" /\ AllAnswered
  /\ Concludes(IF Cardinality(Answered) < 2 THEN "aborted" ELSE "seek")
  /\ UNCHANGED <<leader, tries, verdictVars, converged>>

\* "seek" belongs to preflight, "return" to a PUT that failed.
FindsLeader ==
  /\ pc \in {"seek", "return"} /\ LeaderFound
  /\ Concludes(IF pc = "seek" THEN "greet" ELSE "send")
  /\ leader' = answers[Len(answers)].node
  /\ UNCHANGED <<tries, verdictVars, converged>>

\* preflight asks the leader once more to print its term; without an answer
\* it ends in a TypeError.
Greets ==
  /\ pc = "greet"
  /\ \/ leader \in up /\ pc' = "oracle" /\ NoFault
     \/ leader \notin up /\ pc' = "aborted" /\ NoFault
     \/ leader \in up /\ pc' = "aborted" /\ Fault
  /\ UNCHANGED <<sampleVars, nodeVars, late, answers, leader, pos, tries, state,
                 oracle, verdictVars, converged, confirmed, overtaken>>

FindsNone ==
  /\ pc \in {"seek", "return"} /\ AllAnswered /\ ~LeaderFound
  /\ IF pc = "return"
     THEN Concludes("send") /\ UNCHANGED tries
     ELSE /\ Concludes(IF tries < MaxPolls THEN "seek" ELSE "aborted")
          /\ tries' = IF tries < MaxPolls THEN tries + 1 ELSE tries
  /\ UNCHANGED <<leader, verdictVars, converged>>

-----------------------------------------------------------------------------
BuildOracle ==
  /\ pc = "oracle"
  /\ IF pos < Len(reviews)
     THEN /\ pos' = pos + 1 /\ oracle' = AddReview(oracle, pos + 1)
          /\ UNCHANGED pc
     ELSE pos' = 0 /\ pc' = "load" /\ UNCHANGED oracle
  /\ UNCHANGED <<sampleVars, nodeVars, late, faults, answers, leader, tries,
                 state, verdictVars, converged, confirmed, overtaken>>

\* load_businesses counts failures and goes on, always to the same node.
LoadBusiness ==
  /\ pc = "load" /\ pos < Len(businesses)
  /\ pos' = pos + 1
  /\ \E result \in Results :
       LET e == Entry(businesses[pos + 1], Unreviewed) IN
       Put(leader, e, result) /\ Confirms(e, result)
  /\ UNCHANGED <<sampleVars, pc, answers, leader, tries, state, oracle,
                 verdictVars, converged, overtaken>>

LoadEnds ==
  /\ pc = "load" /\ pos = Len(businesses)
  /\ pc' = "next" /\ pos' = 0
  /\ UNCHANGED <<sampleVars, nodeVars, late, faults, answers, leader, tries,
                 state, oracle, verdictVars, converged, confirmed, overtaken>>

\* stream_reviews: the new value is computed once per line.
NextReview ==
  /\ pc = "next"
  /\ tries' = 0
  /\ IF pos < Len(reviews)
     THEN /\ pos' = pos + 1
          /\ state' = AddReview(state, pos + 1)
          /\ pc' = IF reviews[pos + 1].business \in Ids THEN "send" ELSE "next"
     ELSE pc' = "converge" /\ UNCHANGED <<pos, state>>
  /\ UNCHANGED <<sampleVars, nodeVars, late, faults, answers, leader, oracle,
                 verdictVars, converged, confirmed, overtaken>>

SentAgain(b) == [state[b] EXCEPT ![pos] = @ + tries]
Sent(b) == state[b]

MayRetryOnceMore == tries <= MaxRetries + 1
MayRetry == tries <= MaxRetries

CountsNot(result) == IF result = "409" THEN tries ELSE tries + 1
Counts(result) == tries + 1

SendReview ==
  LET b == reviews[pos].business
      e == Entry(b, Sent(b))
  IN
  /\ pc = "send" /\ MayRetry
  /\ \E result \in Results :
       /\ Put(leader, e, result) /\ Confirms(e, result)
       /\ tries' = IF result = "200" THEN tries ELSE Counts(result)
       /\ pc' = CASE result = "200" -> "next"
                  [] result \in {"409", "none"} -> "return"
                  [] OTHER -> "send"
  /\ UNCHANGED <<sampleVars, answers, leader, pos, state, oracle, verdictVars,
                 converged, overtaken>>

SkipReview ==
  /\ pc = "send" /\ ~MayRetry
  /\ pc' = "next"
  /\ UNCHANGED <<sampleVars, nodeVars, late, faults, answers, leader, pos,
                 tries, state, oracle, verdictVars, converged, confirmed,
                 overtaken>>

-----------------------------------------------------------------------------
\* wait_convergence: len(lsns) == 1 over the nodes that answered.
Lsns == {answers[i].lsn : i \in Answered}
SomeLsn == Answered # {}
SameLsn == Cardinality(Lsns) = 1

Converges ==
  /\ pc = "converge" /\ AllAnswered
  /\ IF SameLsn
     THEN /\ Concludes("health")
          /\ \E lsn \in Lsns :
               converged' = [lsn |-> lsn,
                             nodes |-> {answers[i].node : i \in Answered}]
          /\ UNCHANGED tries
     ELSE /\ Concludes(IF tries < MaxPolls THEN "converge" ELSE "health")
          /\ tries' = IF tries < MaxPolls THEN tries + 1 ELSE tries
          /\ UNCHANGED converged
  /\ UNCHANGED <<leader, verdictVars>>

\* verify: the nodes that answer are read, all keys of the oracle at each.
ChooseNodes ==
  /\ pc = "health" /\ AllAnswered
  /\ Concludes(IF Answered = {} THEN "done" ELSE "fetch")
  /\ judged' = {answers[i].node : i \in Answered}
  /\ unread' = judged' \X Ids
  /\ passed' = (Answered # {})
  /\ UNCHANGED <<leader, tries, converged>>

\* The value a node's index has for a key.
HasFirst(n, k, v) ==
  \E i \in DOMAIN log[n] :
    log[n][i] = Entry(k, v) /\ \A j \in 1 .. i - 1 : log[n][j].key # k
Has(n, k, v) ==
  \E i \in DOMAIN log[n] :
    log[n][i] = Entry(k, v) /\ \A j \in i + 1 .. Len(log[n]) : log[n][j].key # k

\* No answer and 404 are errors, and so is every other value.
MatchesOrMissing(n, k) ==
  n \in up => \/ Has(n, k, oracle[k])
              \/ \A i \in DOMAIN log[n] : log[n][i].key # k
Matches(n, k) == n \in up /\ Has(n, k, oracle[k])

FetchKey(n, k) ==
  /\ pc = "fetch" /\ <<n, k>> \in unread
  /\ unread' = unread \ {<<n, k>>}
  /\ \/ passed' = (passed /\ Matches(n, k)) /\ NoFault
     \/ passed' = FALSE /\ Fault
  /\ UNCHANGED <<sampleVars, nodeVars, late, pc, answers, leader, pos, tries,
                 state, oracle, judged, converged, confirmed, overtaken>>

Verdict ==
  /\ pc = "fetch" /\ unread = {}
  /\ pc' = "done"
  /\ UNCHANGED <<sampleVars, nodeVars, late, faults, answers, leader, pos,
                 tries, state, oracle, verdictVars, converged, confirmed,
                 overtaken>>

-----------------------------------------------------------------------------
Sampling ==
  /\ SampleStep
  /\ UNCHANGED <<nodeVars, late, faults, pc, answers, leader, pos, tries, state,
                 oracle, verdictVars, converged, confirmed, overtaken>>

DriverStep ==
  \/ Sampling
  \/ /\ sampled
     /\ \/ Asks \/ CountNodes \/ FindsLeader \/ Greets \/ FindsNone
        \/ BuildOracle \/ LoadBusiness \/ LoadEnds
        \/ NextReview \/ SendReview \/ SkipReview
        \/ Converges \/ ChooseNodes
        \/ \E n \in Node, k \in Business : FetchKey(n, k)
        \/ Verdict

DriverNext == EnvStep \/ DriverStep

DriverSpec == DriverInit /\ [][DriverNext]_driverVars

\* Every call of the driver has a timeout; nothing is asked of the cluster.
FairDriverSpec == DriverSpec /\ WF_driverVars(DriverStep)

-----------------------------------------------------------------------------
Entries == [key : Business, value : Values]
Answers == [node : Node, live : BOOLEAN, leads : BOOLEAN, lsn : Nat]

\* The types of the variables; no PUT is sent more often than allowed.
DriverTypeOK ==
  /\ up \subseteq Node /\ leads \subseteq Node /\ led \subseteq Node
  /\ term \in [Node -> Nat]
  /\ log \in [Node -> Seq(Entries)]
  /\ late \subseteq [to : Node, entry : Entries]
  /\ faults \in 0 .. MaxFaults
  /\ pc \in {"count", "seek", "greet", "return", "oracle", "load", "next",
             "send", "converge", "health", "fetch", "done", "aborted"}
  /\ answers \in Seq(Answers) /\ Len(answers) <= Len(NodeOrder)
  /\ leader \in Node
  /\ pos \in Nat
  /\ tries \in 0 .. (IF MaxPolls > MaxRetries THEN MaxPolls ELSE MaxRetries + 1)
  /\ state \in [Business -> Values] /\ oracle \in [Business -> Values]
  /\ unread \subseteq Node \X Business
  /\ passed \in BOOLEAN /\ overtaken \in BOOLEAN
  /\ converged \in [lsn : Nat, nodes : SUBSET Node]
  /\ judged \subseteq Node
  /\ confirmed \subseteq Entries

(* Whatever is sent again, lost or late: every value in a WAL is that of a *)
(* business after some first lines of the stream, each review folded in    *)
(* once (run_demo.py:229 "mirrors build_oracle.py exactly").               *)
AfterLines(b, k) ==
  [i \in 1 .. MaxReviews |->
     IF i <= k /\ reviews[i].business = b THEN 1 ELSE 0]
StoredValuesArePrefixes ==
  \A n \in Node : \A i \in DOMAIN log[n] :
    \E k \in 0 .. Len(reviews) : log[n][i].value = AfterLines(log[n][i].key, k)

\* The cluster never changed its leader.
OneLeader == Cardinality(led) <= 1

(* run_demo.py:295 "Convergence = all reachable nodes report the same      *)
(* LSN": without a change of leader, those nodes do have the same entries. *)
ConvergedNodesAgree ==
  OneLeader =>
    \A n, m \in converged.nodes :
      /\ Len(log[n]) >= converged.lsn
      /\ SubSeq(log[n], 1, converged.lsn) = SubSeq(log[m], 1, converged.lsn)

(* A value that was confirmed is only replaced by one with more reviews,   *)
(* unless the leader changes or a PUT is handled after the driver gave it  *)
(* up: lost answers and retries do not bring an old value back.            *)
Outdated(v, w) == \E i \in 1 .. MaxReviews : v[i] < w[i]
ConfirmedStays ==
  OneLeader /\ ~overtaken =>
    \A n \in led, e \in confirmed :
      \E i \in DOMAIN log[n] :
        /\ log[n][i].key = e.key /\ ~Outdated(log[n][i].value, e.value)
        /\ Has(n, e.key, log[n][i].value)

(* A run that passed stays right: what verify read at different moments    *)
(* from different nodes is what they all hold, unless the leader changed   *)
(* or a PUT came late.                                                     *)
PassIsFinal ==
  pc = "done" /\ passed /\ OneLeader /\ ~overtaken =>
    \A n \in judged, b \in Ids : Has(n, b, oracle[b])

\* A run in which nothing fails passes.
CalmRunPasses == pc = "done" /\ faults = 0 => passed

(* How far the driver is from its end: the stages left, the lines of the   *)
(* file it reads, the attempts at a PUT or the polls before a deadline,    *)
(* the nodes or keys to ask.                                               *)
Stage == [count |-> 9, seek |-> 8, greet |-> 7, oracle |-> 6, load |-> 5,
          next |-> 4, send |-> 4, return |-> 4, converge |-> 3, health |-> 2,
          fetch |-> 1, done |-> 0, aborted |-> 0]
LinesLeft == (IF pc = "load" THEN Len(businesses) ELSE Len(reviews)) - pos
TriesLeft ==
  CASE pc \in {"send", "return"} -> MaxRetries + 2 - tries
    [] pc \in {"seek", "converge"} -> MaxPolls - tries
    [] OTHER -> 0
CallsLeft ==
  CASE pc \in {"count", "seek", "return", "converge", "health"} ->
         Len(NodeOrder) - Len(answers) + 1
    [] pc = "fetch" -> Cardinality(unread)
    [] OTHER -> 0
Distance ==
  IF sampled THEN <<Stage[pc], LinesLeft, TriesLeft, CallsLeft>>
             ELSE <<10, Len(RawBusinesses) - read, 0, 0>>

Lower(d, e) == \E i \in 1 .. 4 : d[i] < e[i] /\ \A j \in 1 .. i - 1 : d[j] = e[j]

(* Nothing the driver does is done in vain: each of its steps brings it    *)
(* nearer to its end, whatever the nodes answer or fail to, and nothing    *)
(* that happens to the cluster sets it back (stream_reviews, _find_leader, *)
(* wait_convergence, the polls of preflight).                              *)
DriverAdvances ==
  [][/\ Distance \in Nat \X Nat \X Nat \X Nat
     /\ DriverStep => Lower(Distance', Distance)
     /\ EnvStep => Distance' = Distance]_driverVars

\* The driver ends whatever the cluster does.
DriverEnds == <>(pc \in {"done", "aborted"})
=============================================================================
