# rainman in TLA+

rainman (`src/`) is a replicated key-value store for three nodes, written in
Python (FastAPI, httpx, asyncio), with a simple form of Raft elections,
replication to a majority, a write-ahead log per node, and two agents that
inject faults and observe the cluster. This directory models its behaviour,
checks it with TLC on small instances and proves the main safety properties
with TLAPS for any number of nodes, requests and terms.

Paths below are relative to `src/`; `node/` is `src/rainman/node/`.

## 1. The system

| Component | State | Operations | Interacts through |
|---|---|---|---|
| **Election and roles**: `node/election.py`, `node/main.py` | `_role`, `_term`, `_leader_id`, `_voted_for`, the locals of `_run_election`, the heartbeat task | election timeout, `POST /vote`, counting replies, `_on_became_leader`, `_step_down`, `POST /heartbeat`, start-up in `lifespan` | HTTP between nodes; reads the LSN and, at start-up, the highest term of the storage engine |
| **Write path**: `put_kv`, `replicate` in `node/main.py`, `node/replication.py` | `_write_lock`, `_inject_delay_ms`, one coroutine per request | `PUT /kv`, fan-out to the peers, `POST /replicate`, `POST /admin/inject_delay` | HTTP; changes `_term` and `_role` (step-down), appends to the storage engine |
| **Storage engine**: `node/storage.py` | the WAL file, `_index`, `_lsn`, `_highest_term` | `replay`, `put`, `get`, `current_lsn`, `highest_term` | called by the write path (event loop) and by the read endpoints (worker threads) |
| **Read endpoints**: `GET /kv`, `GET /health` | none | read several globals one by one, in worker threads | polled by both agents and by the demo |
| **Configuration**: `node/config.py`, `config/cluster.json` | none | node list, majority, timeouts | read at start-up |
| **Adversary**: `agents/adversary_agent.py` | last fault time, fault history | poll, safety check, ask the model, nine fault executors | `GET /health`, docker, `POST /admin/inject_delay`, the WAL file on the host |
| **Observer**: `agents/recovery_agent.py` | time of the last healthy line | poll, `detect_anomalies`, narrate | `GET /health` |
| **Demo driver**: `run_demo.py` | current leader, running averages | load, stream reviews with redirect and retry, wait for convergence, verify | `PUT /kv`, `GET /health` |
| **Scripts**: `scripts/` | files | sample, load, build the oracle, verify | `PUT /kv`, `GET /kv` |

What is hard here: the election and the write path share the term and the role,
and change them on both sides of awaits (the injected delay, the write lock, the
fan-out, the end of the heartbeat task); calls are lost, late, or applied after
their caller has given up; observer and driver ask nodes at different moments
and compare the answers; only the WAL survives a crash, the votes do not, and of
the WAL replay skips the lines it cannot parse; and a follower that has missed
one entry refuses all later ones.
`PROJECT.json` lists these hazards line by line, with the properties that cover
each, or why none does.

What makes each component correct:

* election: two leaders never share a term unless a voter has lost its memory;
  who leads has won exactly that term; no message moves a term back;
* write path: what a client was told is stored is on a majority, and stays there
  but for one copy at most for each line a crash has cut; an entry has one LSN
  and one term in every WAL that can be read; fan-outs of one node do not
  overlap; every PUT is answered;
* storage: a later replay finds what `put` has returned for, and no LSN that was
  acknowledged is given again, but for one entry at most for each line a crash
  has cut; where no line was cut, reads show only what is on disk and a restart
  keeps the term;
* adversary: one node is always left, which is less than a majority: the agent
  may well leave a cluster that can neither elect nor write, and from then on it
  changes nothing any more, repairs included;
* observer: what it reports of polls at different moments was so at one of them,
  and what lasts is reported;
* driver: whatever is lost, sent again or late, each review counts once, what was
  confirmed is not taken back, and a verdict of "pass" remains true;
* sample: complete, without duplicates, the earliest reviews first.

## 2. The modules

| Module | Models | Uses |
|---|---|---|
| `Election.tla` | `ElectionManager`, the node globals, `/vote`, `/heartbeat`, crash and restart | |
| `Failover.tla` | the same with its timers and a network that partitions cut | extends `Election` |
| `NodeTasks.tla` | the heartbeat loops of a node and the awaits that start and end them | |
| `Observer.tla` | `GET /health` in its worker thread, the observer agent | extends `NodeTasks` |
| `Cluster.tla` | `/kv`, the fan-out, `/replicate`, the lock and the delay | extends `Election` |
| `QuorumStore.tla` | the abstract promise of the cluster: readable copies only grow, and a confirmed write has a majority of them, less one for each cut line | instance in `Cluster` |
| `WAL.tla` | the storage engine, step by step, with crashes that cut the file | |
| `DurableLog.tla` | the abstract promise of the storage engine: what is kept stays, and a put returns when what it wrote is kept | instance in `WAL` |
| `Adversary.tla` | the fault injector, over what its polls show of the cluster | |
| `SampleData.tla` | `scripts/sample_data.py` | |
| `Driver.tla` | `run_demo.py`, the oracle and the verdict, as a client of the cluster | extends `SampleData` |
| `ElectionProofs`, `FailoverProofs`, `ObserverProofs`, `ClusterProofs`, `ClusterLogProofs`, `WALProofs`, `AdversaryProofs`, `DriverProofs` | theorems | |
| `MCElection`, `MCFailover`, `MCObserver`, `MCCluster`, `MCWAL`, `MCAdversary`, `MCDriver` | instances for TLC | |

### Election

One action is the code between two awaits, since a node runs one asyncio loop.

| Action | Code |
|---|---|
| `StartElection` | the countdown of `_timeout_loop` expires at a follower; `_run_election` up to its `gather` |
| `HandleVote` | `vote` and `handle_vote_request`: term, the three grant conditions, step-down, and the reply (or its loss) |
| `WinElection`, `LoseElection` | `gather` returns; the results loop; `_on_became_leader` |
| `SendHeartbeat`, `HandleHeartbeat` | one round of `_heartbeat_loop`, which does not look at the role; `POST /heartbeat` |
| `LocalWrite`, `EntrySeen`, `EntryAppended` | what `put_kv` and `replicate` do to term, role, LSN and WAL |
| `Crash`, `Restart` | the process dies; `lifespan`, which replays the WAL |

Calls are a set of records: they may be handled in any order, or never. When
the caller stops waiting (`gather` returns, or the process dies), each call it
has out is lost or becomes one that may still arrive although its reply goes
nowhere (`live = FALSE`). A heartbeat that was sent may be delivered at any
later time and any number of times, since the loop repeats it. Timers do not
appear: a timeout may fire whenever the code can be in that state, so every
safety result holds for any timing. `LocalWrite`, `EntrySeen` and
`EntryAppended` allow more than the write path does; that `Cluster` only takes
steps `Election` allows is a theorem (`ClusterImplementsElection`).

`beating` is the set of nodes on which a heartbeat loop runs. A step-down ends
the loop, except that on a node that has won twice (`WonTwice`) it may miss it:
`NodeTasks` shows how, and such a node beats on as a follower.

`lsn` is what the running process reports, `walLsn` and `walTerm` what replay
would find. They part where a line cannot be read back (`kept = FALSE`): the
process counts it, and a restart goes back to the last line that can be read.

`entries`, `won`, `votes`, `forgot` and `rewound` are history variables: who
wrote entries in which terms, elections won with their quorum, votes cast, nodes
that have crashed, and nodes whose term `_on_became_leader` has set back.

### Failover

What `Election` leaves to chance is due at a time here. `waited` is how long
`_timeout_loop` has waited for its event (or for the votes it has asked for),
`beatAge` how long ago a leader sent its last heartbeats. A `Tick` passes only
when nothing is `Due`; it is about 300 ms, the longest a heartbeat round takes
(200 ms of sleep and 100 ms for a peer that is silent).

| Action | Code |
|---|---|
| `CampaignTimed`, `CountdownRestarts` | the countdown is over, anywhere between its minimum and its maximum, at a follower or at a leader |
| `HandleVoteTimed` | a granted vote calls `reset_timeout` |
| `CampaignEnds` | the `gather` of `_run_election`: answers of all that can answer, the vote timeout for the others |
| `BeatTimed`, `Hear` | a round of `_heartbeat_loop`; `POST /heartbeat`, which restarts the countdown whatever the term of its sender |
| `CrashTimed`, `RestartTimed`, `Cut`, `Heal` | a process dies and comes back; `PARTITION_NODE` and its end |

`CampaignTimed`, `BeatTimed` and `CountdownRestarts` act on `waited`, `beatAge`
and `beating`, whatever else the node is: a loop that was left behind beats as
punctually as a leader's. `heard` names whose heartbeat a node has followed last,
as long as that one goes on beating and is connected to it; `wasCut` the nodes
that have been cut off.

Between nodes that are connected, calls arrive within a tick. Every step is a
step of `Election` or leaves its variables alone, which is a theorem
(`FailoverIsElection`), so the timed system inherits every safety result.

### NodeTasks and Observer

`Election` takes `_on_became_leader` and `_step_down` as one step each.
`NodeTasks` takes them apart where they await the cancelled heartbeat task, and
keeps the task itself: `hbTask` is `_hb_task`, `running` and `dying` the loops
that exist. The callers that await the same loop go on in the order they came
(`WaitersGoOn`), so the last of them decides what `_hb_task` is. One more place
is split although the event loop does not leave it: `heartbeat()` and `vote()`
advance `_term` before they call `_step_down` (`deposing`), and a worker thread
can look in between. Votes are left out: any campaign may be won.

`Observer` adds `health()`, which reads role and term together
(`HealthReadsRole`) and the LSN later (`HealthReadsLsn`): CPython switches threads
at calls and backward jumps, and there is none between the two globals.
The agent polls the nodes one after the other, any poll may go unanswered,
`DetectAnomalies` is `detect_anomalies` with its four checks, and the narration
drops one anomaly per step whether the language model answers or not. Snapshots
carry `torn` and `lsns` as history: was the node in the midst of a deposition,
and what were the LSNs at that moment.

### Cluster

`puts[r]` is the `put_kv` handler of request `r`, `calls[r][n]` the call that
carries its entry to `n`. A handler stops in the model exactly where it can wait
in the code: in the injected delay or for `_write_lock` (`"queued"`), in the
fan-out with the lock held (`"fanout"`), and in the await of `_step_down` with
the lock held (`"locked"`). Where nothing makes it wait (`RunsAtOnce`) it runs
through in one step: an asyncio lock that is free and has no waiters is taken
without suspension. Waiters may be served in any order here, in the code in
their order of arrival; the delay is not timed, so this only adds behaviours.
A request is one attempt of a client; `409 not_leader` changes nothing and has
no action. `storage.put` runs on the event loop without an await and is one
step here (`AppendEntry`); `WAL` takes it apart.

`wal[n]` has one line for each LSN the process has counted. A crash may come in
the middle of a write and cut its line (`NodeCrash` with the request that is
`Writing`). Then `torn` has the node, and the next entry it appends goes on in
the same line: the process acknowledges it, but the line is `Unreadable`.
`NodeRestart` is replay: the lines after the last readable one are gone from what
the process knows, and their LSNs are given again. `tears` counts the lines that
were cut. Two things stay in `WAL`: a failed fsync, after which no put returns,
and a cut just before the newline, which leaves a line that replay can read: the
entry glued to it is lost as here, and the entry in it was never acknowledged by
this node.

Pauses and network partitions are calls that are lost or late; `MayTimeOut`
switches them on. Crashes end all handlers of a node; its calls may still
arrive, and its clients hear nothing (`"lost"`).

### WAL

A line is a record or `Garbage` (what `json.loads` rejects). `file` holds the
complete lines on disk, `tail` a line without its newline, `unsynced` what was
written and not fsynced. `put` takes four steps (`PutWrite`, `Fsync`,
`UpdateIndex`, `UpdateLsn`), because reads run in other threads without a lock
and because the process may die in between. A crash keeps any prefix of the
unsynced text, cut between lines, inside a line, or just before a newline; the
next process appends behind it (`Glued`: two lines become one that replay
rejects). `FsyncFails` is `os.fsync` raising an `OSError`: the entry stays in
the file, the index and the LSN do not follow. `CorruptWal` is the adversary's
malformed line. `put_kv` and `replicate` pass the current LSN plus one, so
`PutWrite` does too.

### Adversary

The agent polls one node after the other, checks, asks, and carries out
whatever it is told; between any two of these steps leaders come and go. The
model may answer anything, which `_parse_decision` reduces to a fault of the
catalogue or nothing. Every executor may fail without effect; docker commands
may time out with or without effect, and then the exception ends `run`, as does
a null target. A node counts as answering when its process runs, is not frozen
and is not disconnected (a disconnected container has no published port). The
agent is the only source of faults here, as in the demo.

### SampleData and Driver

`DrawBusiness` is one line of the reservoir pass, with any draw; `WriteSample`
sorts and cuts the matching reviews. `pc` names the part of `run_demo.py` that
is running: `"count"`, `"seek"`, `"greet"` are the preflight, `"oracle"`, `"load"`,
`"next"` and `"send"` the data, `"return"` is `_find_leader` after a PUT that
failed, `"converge"`, `"health"` and `"fetch"` are `wait_convergence` and
`verify_cluster`. Every loop over nodes asks one of them per step (`Asks`), and
the cluster moves between any two. A PUT has every outcome the driver tells
apart (200, 409, 500, 503, none) with the effects it may have had: on the leader
and any set of the peers that can take it, or later (`LatePut`), after the driver
has gone on.

The value of a business is a running average and a count; it is represented
by how often each review has been folded in, so "the same value" is the same
multiset of reviews. Floating point and the tolerance of the comparison are not
represented. The nodes are seen through their endpoints only: `Elect` is one
election, with the vote's condition on LSNs, and a PUT with its fan-out is one
step; `Election`, `Cluster` and `WAL` have the inside. A killed node comes back
with its log, since no crash cuts a line here, and with any term up to the one it
was in: in the code it is the highest of its WAL.

## 3. What is checked

All instances have the three nodes and the majority of `config/cluster.json`,
except `Observer`, which has two nodes.

| Run | Bounds | Properties |
|---|---|---|
| `Election` | 2 terms, and either 1 crash, or 1 entry, heartbeats and 1 late vote request (`CrashOrTraffic`) | `ElectionTypeOK`, `SplitNeedsForgetfulVoter`, `LeadersWereElected`, `TermGoesBackOnlyByWinning` |
| `Failover` | 2 more terms after the third, 1 crash or partition | `FailoverTypeOK`, `NoElectionBesideLeader`, `ElectsUnlessLingering` |
| `ClusterCalm` | 2 terms, 1 candidate, 2 writes, delays at 2 nodes, no failure | `ClusterTypeOK`, `CalmWritesGoOn`, `CalmLogsAgree`, `CalmWritesSucceed` |
| `ClusterFailover` | 2 terms, 2 writes at LSN 1, 2 crashes that may cut a line | `AckedOnMajority` |
| `ClusterTakeover` | 2 terms, 2 writes, lost and late calls | `EntriesKeepTheirPlace`, `LocksMatchHolders`, `ImplementsQuorumStore`, `EveryPutAnswered` |
| `WALCrashes` | 2 keys, 2 terms, 3 puts, 2 crashes, 1 malformed line, failing fsyncs | `WALTypeOK`, `LossBoundedByTears`, `MemoryIsReplay`, `LsnReuseNeedsTear`, `RestartKeepsTerm`, `ImplementsDurableLog` |
| `Adversary` | none needed: the state space is finite | `TypeOK`, `SomeNodeAnswers`, `DamageIsFinal` |
| `Observer` | 2 nodes, 3 terms, 1 entry | `ObserverTypeOK`, `LoopsMatchRoles`, `AccusedWonOrTorn`, `SteadyLeaderIsSeen`, `LagReportsAreRight`, `RoundsGoOn` |
| `Driver` | a sample of 1 business out of 2, 1 review out of 2, 1 retry, 1 more poll, 1 failure, 2 terms | `DriverTypeOK`, `SampleIsConsistent`, `StoredValuesArePrefixes`, `ConvergedNodesAgree`, `ConfirmedStays`, `PassIsFinal`, `CalmRunPasses`, `DriverAdvances`, `DriverEnds` |
| `ElectionTwoLeaders` | 2 terms, 1 crash | violates `AtMostOneLeaderPerTerm` |
| `FailoverSuppressed` | 3 terms, 2 crashes or partitions | violates `LeaderlessElects` |
| `ClusterDataLoss` | 3 terms, 2 writes, 1 crash | violates `ConfirmedSurviveFailover` |

Why these bounds.

* An election that goes wrong needs two candidates of one term or one later
  term, a single forgotten vote, a single late request; the third term is
  needed only where a deposed leader must meet a third one
  (`ClusterDataLoss`, `FailoverSuppressed`). A crash together with all the
  traffic is more than a run can explore; `CrashOrTraffic` in `MCElection.tla`
  leaves each of the two whole, the cluster's runs have crashes with writes and
  restarts that lose a line, `Failover` has crashes with heartbeats, and the
  theorems have everything.
* Of the timers only their order matters: 300, 600 and 1000 ms are 1, 2 and 3
  ticks, and the countdown may end at any of them.
* `Failover` starts at the third election (`ElectedInit` in `MCFailover.tla`), which
  gives the cluster its first leader for the second time, so that a loop can be
  left behind, and has two more terms. The fault costs one of them; an election
  that two nodes call at once may use up the other. `OutOfBounds` ends the
  obligation only there, or where no majority is connected: when one node alone
  has called an election in the last term, and the fault has struck neither it
  nor as many as would deny it a majority, it must win and be followed. That the
  run asks something is shown by its mutant, whose candidate waits for a dead
  peer for ever.
* `ClusterFailover` has what an acknowledged entry needs to be lost: a write that
  is cut, a restart, a second write glued to it and confirmed, and another crash.
  In this run `AckedOnMajority` without its `tears` is violated. Lost and late
  calls are in `ClusterTakeover`, where `ImplementsQuorumStore` says the same of
  confirmed writes; the theorems have both together.
* Two writes are the least that can collide at one LSN or wait for each other's
  locks. The cluster's runs that need a second election start from the end
  of the first one (`ElectedInit` in `MCCluster.tla`); the first election is
  covered by `ClusterCalm` and by the election run. `Candidates` limits whose
  countdown expires, `Slowable` whose handlers can be delayed.
* Three puts in the WAL are one that is torn, one that is glued to it and one
  that follows, with the LSN of the second if there is a crash in between.
* Two nodes are enough for two leaders, or a leader and a lag; with three terms
  a node can win, be deposed and win again while its first loop is ending. The
  lag threshold is 0, so that one entry is a lag.
* With one business of two the driver has a key that is loaded and then
  overwritten by a review, or one that has no review. One failure is a lost
  answer, a 503 by a lost call, a hanging PUT, a node that leaves, or a poll
  without an answer, at any moment of the run.

`CHECK_DEADLOCK FALSE` stands in every configuration because every bound ends
in a state with no further step.

Fairness:

* `ClusterCalm` and `ClusterTakeover` (`WriteFairness`): a handler that can go on
  goes on, because the event loop runs ready coroutines; a waiter gets the
  lock, because `asyncio.Lock` is first come first served and a request takes
  each lock once; a fan-out ends, because every call has httpx's timeout; and
  a call whose handler can go on is handled, be it by waiting, by stepping down
  or by applying the entry. With `MayTimeOut = FALSE` every fan-out therefore
  gets all its answers.
* `Failover` (`FairFailoverSpec`): the clock and the event loops go on (`Runs`).
  Restarts and the end of a partition are the choice of the adversary's model
  and are not assumed.
* `Observer` and `Driver`: only the agent's or the driver's own steps, each of
  which ends by a timeout. Nothing is asked of the nodes.

### What the runs show about the code

* **A restarted voter votes again** (`node/main.py:157`, `node/election.py:73`).
  `_voted_for` is in memory, and the term comes back as the highest term in the
  WAL, which does not know terms without an entry. Two leaders in one term
  follow (`ElectionTwoLeaders`). `SplitNeedsForgetfulVoter` says that this, or
  a term set back, is the only way.
* **A stale leader suppresses elections** (`node/main.py:443`). Any heartbeat
  resets the countdown, also one of a term the receiver has left behind, and
  the answer carries no term. A leader that missed a later term beats on and is
  never told; the node that knows that term refuses its entries and still
  never campaigns, and no write gets a majority (`FailoverSuppressed`). A
  follower whose heartbeat loop was left behind (see below) does the same.
  `ElectsUnlessLingering` says that, within the bounds of its run, these two are
  all that stops elections: as long as neither beats, the cluster comes to a
  leader that has won its election and that a majority can follow.
* **A confirmed write can be missing at a new leader** (`node/election.py:175`):
  votes compare LSNs and not the terms of entries, so a node with an
  unconfirmed entry of an old term at the same LSN is "as complete"
  (`ClusterDataLoss`).

The observer's alarms are true in the sense its properties state, and not in a
stronger one: a lag may be reported of a node that was polled *before* the
leader and never lagged, and a lag may go unreported behind the second of two
leaders or at a node polled after the leader.

A node that wins while the heartbeat loop of an earlier leadership is still
ending may later beat as a follower: a step-down that was waiting clears the
`_hb_task` of the new loop (`node/main.py:115`), or the node is deposed before
`_on_became_leader`, which does not look at the role again, starts it (`:98`).
The loop does not look at the role either. `LoopsMatchRoles` has two parts:
`LoopsFollowRole` says that nothing but this race leaves a follower with a loop,
`LeaderBeats` that even then no leader loses its own.

The driver sends computed values, not increments, so a retry never folds a
review in twice (`StoredValuesArePrefixes`). A PUT that hangs at a frozen leader
and is handled after its successor has been confirmed brings an old value back;
`ConfirmedStays` and `PassIsFinal` are therefore stated for runs without such a
late PUT (`overtaken`) and with one leader.

**LSNs can be given twice.** `docs/project-description.md:48` says of the LSN
"Strictly monotonically increasing. Never reused." The code does not keep that.
A put that a crash has cut in the middle of its line is followed by one that is
glued to it, acknowledged, and skipped by the next replay; its LSN is then free
again, and the next put is acknowledged with it. `LsnReuseNeedsTear` says how far
it goes: once at most for each cut line, whatever fsyncs fail. (With `Reused = {}`
in its place the same run has a counterexample.)

**A confirmed write can lose its majority** in the same way: where its copy at one
node is the line glued to a cut one, that node's next restart is without it.
`AckedOnMajority` and `QuorumStore` count what may be missing.

Seen while modelling and not given a run of their own: a winner ignores a
higher term in a reply and sets its own term back (`node/election.py:266`,
`node/main.py:90`); an entry is appended after its term check has become stale
(`node/main.py:390`); a `PUT` that waits for the lock is written by a node that
has been deposed meanwhile (`node/main.py:315`, `:329`); after a failed
fsync the next put takes the same LSN (`node/storage.py:87`); a follower that has
missed an entry is never sent it again (`node/main.py:410`), whatever the LSN of
a restart; the adversary carries a fault out on a snapshot up to half a minute
old (`adversary_agent.py:456`) and dies of a null target (`:469`); the driver's
preflight ends in a `TypeError` when the leader it has just found does not answer
the next poll (`run_demo.py:107`).

## 4. What is proved

All theorems are for every finite `Node`, every `Majority` that is more than
half of it (the driver's hold for any number), every `Req` and `Key`, all timer
values with `MaxGap < TimeoutMin`, every sample, and all bounds. The named
`ASSUME`s of the modules are the only assumptions; TLC evaluates them for the
instances.

| Theorem | Says |
|---|---|
| `ElectionTypeCorrect`, `FailoverTypeCorrect`, `ClusterTypeCorrect`, `WALTypeCorrect`, `AdversaryTypeCorrect`, `ObserverTypeCorrect`, `DriverTypeCorrect` | type correctness, with the bounds on timers, counters and retries |
| `LeadersElected` | a leader won the term it is in, and every election ever won had a majority of votes really cast |
| `ElectionSafety` | two leaders in a term need a common voter that crashed or whose term was set back |
| `RememberedVotesElectOne` | where no node has lost its votes and no term was set back, a term has at most one leader |
| `TermRegression` | a running node's term goes back only by winning an election |
| `FailoverIsElection`, `FailoverElectionSafety` | with its timers the election only takes steps of `Election`, and is as safe |
| `HeardLeadersAreFollowed` | a follower that hears its leader starts no election |
| `ClusterImplementsElection`, `ClusterElectionSafety` | every behaviour of `Cluster` is one of `Election`, hence as safe |
| `LossesAreBounded` | of all entries that nodes have acknowledged, no more are unreadable than lines were cut |
| `ConfirmedIsDurable` | a confirmed write can be read on a majority, but for one copy at most for each line a crash has cut, over all crashes, restarts and elections |
| `ConfirmedIsKnown` | of as many nodes as a majority and the cut lines together, one holds a given confirmed write; where nothing was cut, every quorum has such a node |
| `ClusterImplementsStore` | `Cluster` implements `QuorumStore` |
| `PlacesAreKept` | an entry has one LSN and one term in every WAL that holds it in a readable line |
| `LocksHaveOwners` | one node has at most one fan-out open, and a held write lock has a holder that lets it go |
| `CalmInvariant`, `CalmWritesStored`, `CalmLogsAreOne` | where nothing fails: one leader for good, no write is refused, no fan-out waits for a handler that waits in turn, all WALs are one log |
| `WALImplementsLog` | `WAL` implements `DurableLog` |
| `LossIsBounded` | a crash that cuts a line costs at most one entry whose put returned |
| `DurableReads` | without a cut line, no get returns what a crash could take back |
| `RestartChangesNothing` | between two puts, memory is what a restart would rebuild (no cut line, no failed fsync) |
| `LsnsAreNew` | a put is acknowledged with the LSN of an earlier one at most once for each cut line, over all lives of the process |
| `TermSurvivesRestart` | without a cut line, a restart finds a term as high as any acknowledged entry's |
| `LastNodeIsSafe`, `DamageStays` | the adversary leaves one node, and leaves a cluster with fewer than two alone |
| `LeadersKeepBeating` | a leader has a running heartbeat loop; without a race of win and step-down it is the one of `_hb_task`, and a follower has none |
| `SplitBrainsWereWon`, `SteadyLeadersAreSeen` | a node accused of a split brain won that term or was read mid-deposition; a leader of the whole round is not missed |
| `LagReportsHold` | a lag of a node polled after its leader was there; one that lasts is reported of a node polled before |
| `SamplesAreConsistent` | the sample is complete, without duplicates, and the earliest reviews |
| `RetriesFoldOnce` | every stored value has the first lines of the stream folded in, each once |
| `SameLsnSameEntries` | with one leader, nodes that converged on an LSN have the same entries up to it |
| `RetriesKeepConfirmed` | with one leader and no late PUT, a confirmed value gives way only to one with more reviews |
| `PassedRunsStayRight` | with one leader and no late PUT, what passed is what every verified node holds |
| `CalmRunsPass` | a run in which nothing fails passes |
| `EveryStepCounts` | each step of the driver lowers a measure that nothing else raises |

**The election's invariant** (`ElectionInv`). None of the properties is
inductive: that a reply counted in `campaign[n].granted` stands for a vote needs
that a vote is in `votes` whenever it is counted; that two quorums of a term meet
in a voter that voted twice (`QuorumsIntersect`) yields a forgetful voter
only if a node that has neither crashed nor been rewound remembers, in
`votedFor`, every vote it cast, and has not gone below the term of any of them.
The invariant states these agreements between `votedFor`, `votes`, `campaign`
and `requests`; there is one lemma for each action.

**The timed election's invariant** (`FailoverInv`) adds that heartbeats on their
way were really sent (`BeatsWereSent`), that whom a node remembers is connected to
it and goes on beating (`HeardBeat`), and that the node's countdown is no older
than that loop's last round unless a heartbeat is waiting for it
(`HeardKeepWaiting`). With `MaxGap < TimeoutMin` such a countdown is not over.

**The cluster's invariant** (`ClusterInv`) adds to the election's that calls exist
only for written entries and never for the writer itself, and that `"ok"` was
given for a majority of acks and the writer. An ack does not stand for a copy:
`Signed(r)` are the nodes that have acknowledged the entry of `r`, `Missing` what
they signed and replay would not find. `LossesAreCuts` says that `Missing` and the
files that end in a cut line together are no more than `tears`: a cut is used up
once, first as the end of its file and then as the entry glued to it. A restart
takes no copy (`ReplayHolds`), because the lines it drops are unreadable
(`LinesMatchLsns`); an append adds one or none (`AppendHolds`). So the copies of a
confirmed write are a majority less what is missing of it (`ConfirmedCopies`).
`ClusterImplementsStore` maps a step that appends a readable line to `Persist`, a
`PutReturns` with a majority to `Confirm`, a crash that cuts a line to `CutLine`,
everything else to a stutter.

**The log invariant** (`LogInv` in `ClusterLogProofs.tla`) adds what the write
lock protects: a handler that is in its fan-out, or waits for the heartbeat task
to end (`DeposerOwnsLock`), owns the lock of its node, so no second entry can
be numbered meanwhile; and a request that has not been written is in no WAL
(`UnwrittenNowhere`), so the number it will get moves no entry that exists.
`LocksAreOwned` is part of it: the converse, that a lock which is held is held by
such a handler.

**The calm cluster's invariant** (`CalmInv`). `Calm` is a condition on the
constants: at most one node's countdown expires, nothing crashes, no call is
lost. Delays, late vote requests and heartbeats remain, and so does every
interleaving. `FilesWhole`: no WAL ends in a cut line or holds one that cannot be
read. `OneTerm`: no term or message is ahead of the candidate's, and
nobody else beats, so once it leads nothing deposes it. `WritersLead`: handlers that wait are at that
leader, and what they write is of its term. `FanOutSendsLast`: the open fan-out
sends the leader's last entry, and a call that is done was acknowledged.
`OneBehind`: a WAL is the leader's, less that entry while its call is open. From
the last two, every call that is handled fits, which makes the first two
inductive and lets the fan-out end with every peer's ack.

**The WAL's invariant** comes in layers, each resting on those before it:

* `TypeInv`: no LSN exceeds the number of puts, no count of cuts that of
  crashes.
* `LossInv`: the entries that are `Missing` (past their fsync, and in no complete
  line) and the text without a newline together are no more than the cuts. A
  cut is thus used up once: first by the tail it leaves, then by the line
  glued to that tail.
* `ReadInv`: what the index shows is in the file; complete lines never leave it
  (`FileGrows`).
* `OrderInv`: the file, the tail and the unsynced lines each ascend, lie below
  the next of the three, and reach no higher than the LSN of this life of the
  process, plus one within a put.
* `MemoryInv`: what the index and the LSN are against the file in each phase of
  `put`; `LatestOfConcat` says that a new record at the end of the file hides
  only what its key had before.
* `SyncedInv`: past its fsync, a put has nothing left in the unsynced text, nor
  has any put before it.
* `ReuseInv`: an acknowledged entry that is in the file is below the next LSN, and
  one that is not, is in no unsynced text either and never gets there
  (`FileGains`). So an entry whose LSN is given again is not in the file, hence
  `Missing`, and `LossInv` bounds those by the cuts.

`WALImplementsLog` rests on `LossInv`, `ReadInv` and `SyncedInv`: `Fsync` is the
abstract `Sync`, which loses at most the first of the written records and only
behind a cut (`FsyncIsSync`); a crash keeps a part of what was written
(`CrashIsCrash`); `UpdateLsn` is `Answer`, within the credit of the cuts
(`UpdateLsnIsAnswer`); `Replay` and `UpdateIndex` change only what is shown; a
failed fsync and a malformed line are stutters.

**The adversary's invariant** (`AdversaryInv`): a node seen in the present round
still answers (only the agent takes nodes away, and it acts after the round),
and a decision is pending only if two were seen.

**The node's and the observer's invariants.** `TaskInv`: a loop that is ending is
awaited by whoever cancelled it (`DyingAreAwaited`), and at a node without a race
only step-downs wait, none of them while it leads (`CalmNodesWaitToFollow`), so
none of them can clear the task of a leader. `WatchInv` relates each snapshot to
the history of the round: what a poll said was so when it was read, and
`ledSince` and `behindSince` name what has been so ever since.

**The driver's invariants**, in layers:

* `DriverAccount`: the driver's state and the oracle are `AfterLines` of the lines
  each has read, whatever was retried; so are all values on their way.
* `LogInv`: with one leader every log is a prefix of the leader's, the values of
  a key only grow along it unless a PUT was late, and a confirmed entry is in it.
* `PollInv`: an answer's LSN is one its node has reached, so equal LSNs are equal
  prefixes.
* `VerdictInv`: what verify has found right is still so, since the entries that a
  node can still receive bring no other value of that key.
* `CalmInv`: without a failure there is one leader, all logs are equal, and every
  line read is stored, so the final values are those of the oracle.
* `RankInv`: the sets that loops empty are finite and the counters within their
  bounds, so `Distance` is a tuple of natural numbers, of which each step lowers
  the first that it changes.
* `DrawInv`: the reservoir holds different records, as many as there is room for.

Only model-checked: the liveness properties (`CalmWritesSucceed`,
`EveryPutAnswered`, `ElectsUnlessLingering`, `RoundsGoOn`, `DriverEnds`), since
TLAPS does not do fairness or `ENABLED`, and the three violations. What is proved
are the safety halves of three of them. For `DriverEnds`, the measure
(`EveryStepCounts`). For `CalmWritesSucceed`, that no write can end in another
way and that an open fan-out always has a call that can be handled
(`CalmWritesStored`). For `EveryPutAnswered`, that whoever waits for a lock
waits for a handler that will let it go (`LocksHaveOwners`). Every safety
property that a passing run checks is a theorem. `DurableReads` states
`ReadsAreDurable`, which no run checks on its own: it is the part of
`ImplementsDurableLog` about what a get shows, while no line has been cut.

## 5. Not modelled

* Formats and wording: HTTP and JSON, log lines, the throttled HEALTHY line, the
  prompt and the text of the language model (its answer is arbitrary), `leader_id`
  and the timestamp in `health`, by which nothing decides.
* Docker's own behaviour, beyond commands that succeed, fail or time out; starting
  and stopping the agents from `run_demo.py` (`shutdown_agents`), which is process
  control without state.
* `scripts/load_businesses.py` and `scripts/load_reviews.py`: the driver's loops
  without redirect and retry, run by hand.
* In `SampleData`, that every sample is equally likely; in `Driver`, the order in
  which floats are added and the tolerance of the comparison, and an
  `expected_state.json` left over from an earlier sample (`run_demo.py:125` only
  tests that the file exists).
* In `NodeTasks`, crashes and votes; `Election` has both. `shutdown` in `lifespan`
  is a crash there.
* Cluster membership is fixed in the code and here; `get_static_leader` in
  `node/config.py` is unused.

What would come next: a measure for the rounds of the observer and for the
handlers of a write, as the driver has one; and the driver over `Cluster` instead
of over its endpoints, which TLC cannot explore at a size where both matter.
