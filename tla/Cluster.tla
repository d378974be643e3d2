------------------------------ MODULE Cluster ------------------------------
(***************************************************************************)
(* The write path of a rainman cluster on top of its election: PUT /kv,    *)
(* the fan-out of src/rainman/node/replication.py and POST /replicate.     *)
(*                                                                         *)
(* A handler runs without interruption between two awaits: the delay an    *)
(* adversary injects, the wait for _write_lock, the fan-out (which holds   *)
(* the lock) and the await inside _step_down.  Where a handler cannot wait *)
(* at an await, it does not stop there in the model either.                *)
(*                                                                         *)
(* Each write attempt of a client is one element of Req.  A PUT refused    *)
(* with 409 not_leader changes nothing and is left out.                    *)
(*                                                                         *)
(* A crash may cut the line a node is writing.  What is written there next *)
(* goes on in the same line, which no replay can parse (storage.py:45-66,  *)
(* :85): the entry is in memory, is acknowledged, and is gone after the    *)
(* next restart.  WAL.tla has the storage engine byte by byte, with the    *)
(* failed fsync and the line that lacks only its newline.                  *)
(***************************************************************************)
EXTENDS Election, Sequences

CONSTANTS
  Req,         \* PUT requests, each tried once at one node
  NoReq,       \* nobody holds the lock
  Candidates,  \* bound: the nodes whose election countdown may expire
  Slowable,    \* bound: the nodes an adversary may inject a delay into
  MayTimeOut   \* may a replicate call be lost, late or time out

ASSUME RequestAssumption == NoReq \notin Req
ASSUME FaultAssumption ==
  Candidates \subseteq Node /\ Slowable \subseteq Node /\ MayTimeOut \in BOOLEAN

VARIABLES
  wal,     \* wal[n]: the lines of the WAL file of n, one for each LSN
  puts,    \* puts[r]: the put_kv handler of r and the entry it wrote
  calls,   \* calls[r][n]: the POST /replicate of r's entry to n
  acks,    \* acks[r]: the peers whose 200 the fan-out of r received
  lock,    \* lock[n]: the request whose handler holds _write_lock at n
  slow,    \* the nodes with _inject_delay_ms > 0
  torn,    \* the nodes whose WAL file ends in a cut line
  tears    \* history: the crashes that have cut a line

fileVars == <<wal, torn, tears>>
writeVars == <<fileVars, puts, calls, acks, lock, slow>>
clusterVars == <<electionVars, writeVars>>

-----------------------------------------------------------------------------
NewPut == [pc |-> "new", node |-> NoNode, lsn |-> 0, term |-> 0]
EntryOf(r) == [term |-> puts[r].term, req |-> r]

\* A line that replay skips.
Unreadable == [term |-> 0, req |-> NoReq]

\* The WAL file of n has the entry of r in a line that replay can read.
Holds(n, r) == \E i \in DOMAIN wal[n] : wal[n][i].req = r

\* StorageEngine.put on a file that may end in a cut line.
AppendEntry(n, e) ==
  /\ wal'  = [wal EXCEPT ![n] = Append(@, IF n \in torn THEN Unreadable ELSE e)]
  /\ torn' = torn \ {n}
  /\ UNCHANGED tears

\* A handler at n goes through the delay and the lock without waiting.
Waiting(n) ==
  \/ \E r \in Req : puts[r].pc = "queued" /\ puts[r].node = n
  \/ \E r \in Req : calls[r][n] = "queued"
RunsAtOnce(n) == n \notin slow /\ lock[n] = NoReq /\ ~Waiting(n)

\* _write_lock at n can be taken.
IgnoresLock(n) == TRUE
LockFree(n) == lock[n] = NoReq

ClusterInit ==
  /\ ElectionInit
  /\ wal   = [n \in Node |-> << >>]
  /\ puts  = [r \in Req |-> NewPut]
  /\ calls = [r \in Req |-> [n \in Node |-> "none"]]
  /\ acks  = [r \in Req |-> {}]
  /\ lock  = [n \in Node |-> NoReq]
  /\ slow  = {}
  /\ torn  = {}
  /\ tears = 0

-----------------------------------------------------------------------------
(* PUT /kv at a leader, up to its first await: the delay or the lock.      *)
PutArrives(r, n) ==
  /\ puts[r].pc = "new" /\ up[n] /\ role[n] = "leader"
  /\ ~RunsAtOnce(n)
  /\ puts' = [puts EXCEPT ![r].pc = "queued", ![r].node = n]
  /\ UNCHANGED <<electionVars, fileVars, calls, acks, lock, slow>>

(* put_kv inside the lock: the entry gets the next LSN and the term the    *)
(* node has now, is persisted, and is sent to every peer; the lock is kept *)
(* until the fan-out returns.  The role is not looked at again.            *)
WriteAndFanOut(r, n) ==
  /\ LocalWrite(n, n \notin torn)
  /\ AppendEntry(n, [term |-> term[n], req |-> r])
  /\ puts'  = [puts EXCEPT ![r] = [pc |-> "fanout", node |-> n,
                                   lsn |-> lsn[n] + 1, term |-> term[n]]]
  /\ calls' = [calls EXCEPT ![r] =
                [p \in Node |-> IF p = n THEN "none" ELSE "sent"]]
  /\ lock'  = [lock EXCEPT ![n] = r]
  /\ UNCHANGED <<acks, slow>>

PutAtOnce(r, n) ==
  /\ puts[r].pc = "new" /\ up[n] /\ role[n] = "leader"
  /\ RunsAtOnce(n)
  /\ WriteAndFanOut(r, n)

PutResumes(r, n) ==
  /\ puts[r].pc = "queued" /\ puts[r].node = n
  /\ LockFree(n)
  /\ WriteAndFanOut(r, n)

(* fanout_and_wait_majority: the leader is one ack, its peers the others.  *)
CountsLeaderTwice(r) == Cardinality(acks[r]) + 2 >= Majority
MajorityAcked(r) == Cardinality(acks[r]) + 1 >= Majority

(* gather returns: every call has been answered or has timed out.          *)
WaitsForAllPeers(r) == \A p \in Peers(puts[r].node) : calls[r][p] = "done"
WaitsForAllNodes(r) == MayTimeOut \/ \A p \in Node : calls[r][p] = "done"
EndsAtMajority(r) == MajorityAcked(r)
FanoutEnds(r) ==
  MayTimeOut \/ \A p \in Peers(puts[r].node) : calls[r][p] = "done"

\* `async with _write_lock` ends.
ReleasedIfStored(r) ==
  IF MajorityAcked(r) THEN [lock EXCEPT ![puts[r].node] = NoReq] ELSE lock
Released(r) == [lock EXCEPT ![puts[r].node] = NoReq]

(* The fan-out is over, the lock is released and the client gets its 200   *)
(* or 503.                                                                 *)
PutReturns(r) ==
  /\ puts[r].pc = "fanout" /\ FanoutEnds(r)
  /\ puts' = [puts EXCEPT ![r].pc = IF MajorityAcked(r) THEN "ok" ELSE "failed"]
  /\ lock' = Released(r)
  /\ UNCHANGED <<electionVars, fileVars, calls, acks, slow>>

-----------------------------------------------------------------------------
\* The first check of replicate, before the delay and the lock.
NotStale(r, n) == puts[r].term >= term[n]
StepsDownFor(r, n) == role[n] = "leader" /\ puts[r].term > term[n]

\* The call is lost on its way, or refused where no process listens.
ReplicateLost(r, n) ==
  /\ calls[r][n] = "sent"
  /\ MayTimeOut \/ ~up[n]
  /\ calls' = [calls EXCEPT ![r][n] = "done"]
  /\ UNCHANGED <<electionVars, fileVars, puts, acks, lock, slow>>

\* 409 term_mismatch.
ReplicateStale(r, n) ==
  /\ calls[r][n] = "sent" /\ up[n] /\ ~NotStale(r, n)
  /\ calls' = [calls EXCEPT ![r][n] = "done"]
  /\ UNCHANGED <<electionVars, fileVars, puts, acks, lock, slow>>

\* The handler waits for the delay or the lock.
ReplicateArrives(r, n) ==
  /\ calls[r][n] = "sent" /\ up[n] /\ NotStale(r, n)
  /\ ~RunsAtOnce(n)
  /\ calls' = [calls EXCEPT ![r][n] = "queued"]
  /\ UNCHANGED <<electionVars, fileVars, puts, acks, lock, slow>>

\* The handler gets the lock, now or after waiting.
GetsLock(r, n) ==
  \/ calls[r][n] = "sent" /\ up[n] /\ NotStale(r, n) /\ RunsAtOnce(n)
  \/ calls[r][n] = "queued" /\ LockFree(n)

(* A leader steps down for the entry: _step_down awaits the end of the     *)
(* heartbeat task with the lock held.                                      *)
ReplicateDeposes(r, n) ==
  /\ GetsLock(r, n) /\ StepsDownFor(r, n)
  /\ EntrySeen(n, puts[r].term)
  /\ calls' = [calls EXCEPT ![r][n] = "locked"]
  /\ lock'  = [lock EXCEPT ![n] = r]
  /\ UNCHANGED <<fileVars, puts, acks, slow>>

\* The LSN check of replicate.
NotBehind(r, n) == puts[r].lsn > lsn[n]
NextInLog(r, n) == puts[r].lsn = lsn[n] + 1

\* replicate has the lock, and has stepped down if it has to.
MayApply(r, n) ==
  \/ GetsLock(r, n) /\ ~StepsDownFor(r, n)
  \/ calls[r][n] = "locked"

(* replicate inside the lock: adopt the entry's term, append the entry or  *)
(* answer 409 lsn_gap, release the lock.  The answer may be lost, or come  *)
(* after the fan-out has returned.                                         *)
ReplicateApplies(r, n, reply) ==
  LET fits == NextInLog(r, n) IN
  /\ MayApply(r, n)
  /\ reply \/ MayTimeOut
  /\ \/ /\ fits
        /\ EntryAppended(n, puts[r].term, n \notin torn)
        /\ AppendEntry(n, EntryOf(r))
     \/ /\ ~fits
        /\ EntrySeen(n, puts[r].term)
        /\ UNCHANGED fileVars
  /\ acks'  = IF fits /\ reply /\ puts[r].pc = "fanout"
              THEN [acks EXCEPT ![r] = @ \cup {n}] ELSE acks
  /\ calls' = [calls EXCEPT ![r][n] = "done"]
  /\ lock'  = IF calls[r][n] = "locked" THEN [lock EXCEPT ![n] = NoReq]
                                        ELSE lock
  /\ UNCHANGED <<puts, slow>>

-----------------------------------------------------------------------------
\* POST /admin/inject_delay switches the delay on or off.
InjectDelay(n) ==
  /\ n \in Slowable /\ up[n]
  /\ slow' = IF n \in slow THEN slow \ {n} ELSE slow \cup {n}
  /\ UNCHANGED <<electionVars, fileVars, puts, calls, acks, lock>>

\* The handler that is about to write the line of w at n.
Writing(w, n) ==
  \/ puts[w].pc = "new" /\ role[n] = "leader" /\ RunsAtOnce(n)
  \/ puts[w].pc = "queued" /\ puts[w].node = n /\ LockFree(n)
  \/ MayApply(w, n) /\ NextInLog(w, n)

(* A crash ends every handler of the node; calls it has sent may still     *)
(* arrive, and the clients of its writes hear nothing.  It may come in the *)
(* middle of a write: then the line of w is cut.                           *)
NodeCrash(n, w) ==
  /\ Crash(n)
  /\ \/ w = NoReq /\ UNCHANGED <<torn, tears>>
     \/ w \in Req /\ Writing(w, n) /\ torn' = torn \cup {n} /\ tears' = tears + 1
  /\ puts'  = [r \in Req |->
                CASE puts[r].node = n /\ puts[r].pc \in {"queued", "fanout"} ->
                       [puts[r] EXCEPT !.pc = "lost"]
                  [] r = w /\ puts[r].pc = "new" ->
                       [puts[r] EXCEPT !.pc = "lost", !.node = n]
                  [] OTHER -> puts[r]]
  /\ calls' = [r \in Req |->
                IF \/ calls[r][n] \in {"queued", "locked"}
                   \/ r = w /\ calls[r][n] = "sent"
                THEN [calls[r] EXCEPT ![n] = "done"] ELSE calls[r]]
  /\ lock'  = [lock EXCEPT ![n] = NoReq]
  /\ slow'  = slow \ {n}
  /\ UNCHANGED <<wal, acks>>

\* replay: the LSNs after the last line it can read are free again.
NodeRestart(n) ==
  /\ Restart(n)
  /\ wal' = [wal EXCEPT ![n] = SubSeq(@, 1, walLsn[n])]
  /\ UNCHANGED <<puts, calls, acks, lock, slow, torn, tears>>

ElectionStep ==
  /\ \/ \E n \in Node :
          \/ n \in Candidates /\ StartElection(n)
          \/ WinElection(n) \/ LoseElection(n)
          \/ SendHeartbeat(n)
          \/ \E h \in heartbeats : HandleHeartbeat(n, h)
     \/ \E m \in requests, reply \in BOOLEAN : HandleVote(m, reply)
  /\ UNCHANGED writeVars

WriteStep ==
  \E r \in Req :
    \/ PutReturns(r)
    \/ \E n \in Node :
         \/ PutArrives(r, n) \/ PutAtOnce(r, n) \/ PutResumes(r, n)
         \/ ReplicateLost(r, n) \/ ReplicateStale(r, n) \/ ReplicateArrives(r, n)
         \/ ReplicateDeposes(r, n)
         \/ \E reply \in BOOLEAN : ReplicateApplies(r, n, reply)

ClusterNext ==
  \/ ElectionStep
  \/ WriteStep
  \/ \E n \in Node :
       \/ InjectDelay(n) \/ NodeRestart(n)
       \/ \E w \in Req \cup {NoReq} : NodeCrash(n, w)

ClusterSpec == ClusterInit /\ [][ClusterNext]_clusterVars

(* What asyncio and httpx guarantee: a handler that can go on goes on, a   *)
(* waiter gets a lock that comes free (asyncio.Lock is first come, first   *)
(* served, and a request takes each lock at most once), a fan-out returns  *)
(* when its replicate_timeout has passed, and where no call is lost every  *)
(* call is handled.                                                        *)
WriteFairness ==
  \A r \in Req :
    /\ WF_clusterVars(PutReturns(r))
    /\ \A n \in Node :
         /\ WF_clusterVars(PutResumes(r, n))
         /\ WF_clusterVars(\/ ReplicateArrives(r, n) \/ ReplicateDeposes(r, n)
                           \/ ReplicateApplies(r, n, TRUE))

FairClusterSpec == ClusterSpec /\ WriteFairness

-----------------------------------------------------------------------------
Entries == [term : 0 .. MaxTerm, req : Req]
Lines == Entries \cup {Unreadable}
PutStates == {"new", "queued", "fanout", "ok", "failed", "lost"}
Puts == [pc : PutStates, node : Node \cup {NoNode}, lsn : 0 .. MaxLsn,
         term : 0 .. MaxTerm]
CallStates == {"none", "sent", "queued", "locked", "done"}

\* The types of the variables.
ClusterTypeOK ==
  /\ ElectionTypeOK
  /\ wal \in [Node -> Seq(Lines)]
  /\ puts \in [Req -> Puts]
  /\ calls \in [Req -> [Node -> CallStates]]
  /\ acks \in [Req -> SUBSET Node]
  /\ lock \in [Node -> Req \cup {NoReq}]
  /\ slow \subseteq Node
  /\ torn \subseteq Node
  /\ tears \in 0 .. crashes

(* A write the client was told is stored is readable in the WALs of a      *)
(* majority of the nodes, but for one copy at most for each line a crash   *)
(* has cut: elections, restarts, lost replies and calls applied after      *)
(* their caller gave up take nothing away (replication.py, put_kv,         *)
(* StorageEngine.replay).                                                  *)
AckedOnMajority ==
  \A r \in Req : puts[r].pc = "ok" =>
    Cardinality({n \in Node : Holds(n, r)}) + tears >= Majority

(* An entry sits at the LSN and carries the term its leader gave it, in    *)
(* every WAL that has it, and the LSN a node reports is the number of its  *)
(* lines (put_kv, replicate, StorageEngine.put).                           *)
EntriesKeepTheirPlace ==
  \A n \in Node :
    /\ lsn[n] = Len(wal[n])
    /\ \A i \in DOMAIN wal[n] : wal[n][i] # Unreadable =>
         /\ puts[wal[n][i].req].lsn = i
         /\ puts[wal[n][i].req].term = wal[n][i].term

(* The handlers of one node never have two fan-outs open, and the lock     *)
(* belongs to the one that is: nothing else can take the next LSN while    *)
(* an entry is on its way (_write_lock, main.py:49).                       *)
OneFanOutPerNode ==
  \A r \in Req : puts[r].pc = "fanout" => lock[puts[r].node] = r

(* A held _write_lock has a holder that will let it go: the open fan-out   *)
(* of the node, or a replicate that is stepping down in it.  No failed     *)
(* write, step-down, election or crash leaves a lock behind (main.py:329,  *)
(* :400).                                                                  *)
LocksAreOwned ==
  \A n \in Node : lock[n] # NoReq =>
    \/ puts[lock[n]].pc = "fanout" /\ puts[lock[n]].node = n
    \/ calls[lock[n]][n] = "locked"

(* At every node the _write_lock and the handlers agree on who holds it.   *)
LocksMatchHolders == OneFanOutPerNode /\ LocksAreOwned

(* Every PUT a leader has taken in is answered, unless the node dies: two  *)
(* leaders whose fan-outs wait for each other's _write_lock, lost calls    *)
(* and steps down in between never block a handler for ever.               *)
EveryPutAnswered ==
  \A r \in Req : puts[r].pc \in {"queued", "fanout"} ~>
                   puts[r].pc \in {"ok", "failed", "lost"}

(* Where nothing fails, every write a leader has taken in is confirmed: no *)
(* follower ever finds an LSN gap, however the handlers interleave.        *)
CalmWritesSucceed ==
  \A r \in Req : puts[r].pc \in {"queued", "fanout"} ~> puts[r].pc = "ok"

\* Nothing fails: one node at most calls elections, no node crashes, no
\* call is lost, and the majority configured is not more than all nodes.
Calm ==
  /\ \A m, n \in Candidates : m = n
  /\ MaxCrashes = 0 /\ ~MayTimeOut
  /\ Majority <= Cardinality(Node)

(* Where nothing fails no write is refused or lost, whatever delays an     *)
(* adversary injects: each entry meets every follower at the LSN it is     *)
(* for, in a term the follower accepts (put_kv, replicate).                *)
CalmPutsNeverFail ==
  Calm => \A r \in Req : puts[r].pc \notin {"failed", "lost"}

(* Where nothing fails no fan-out depends on its timeout to end: until all *)
(* peers have answered, one of them has the call on its way to it, or      *)
(* waiting for nothing but a lock that is free (fanout_and_wait_majority,  *)
(* replicate).                                                             *)
CalmFanOutsGoOn ==
  Calm => \A r \in Req : puts[r].pc = "fanout" =>
    \/ FanoutEnds(r)
    \/ \E n \in Peers(puts[r].node) :
         \/ calls[r][n] = "sent"
         \/ calls[r][n] = "queued" /\ LockFree(n)

(* Where nothing fails no write is refused, lost or held up by a timeout.  *)
CalmWritesGoOn == CalmPutsNeverFail /\ CalmFanOutsGoOn

(* Where nothing fails the WALs are copies of one log, and no two of them  *)
(* are ever more than the one write on its way apart: the fan-out waits    *)
(* for every peer, not for a majority (replication.py, _write_lock).       *)
CalmLogsAgree ==
  Calm => \A m, n \in Node :
    /\ Len(wal[m]) <= Len(wal[n]) + 1
    /\ \A i \in DOMAIN wal[m] \cap DOMAIN wal[n] : wal[m][i] = wal[n][i]

(* The copies and the confirmations of the writes behave as QuorumStore    *)
(* promises.                                                               *)
Store == INSTANCE QuorumStore WITH
  copies    <- [r \in Req |-> {n \in Node : Holds(n, r)}],
  confirmed <- {r \in Req : puts[r].pc = "ok"},
  cuts      <- tears
ImplementsQuorumStore == Store!StoreSpec

-----------------------------------------------------------------------------
(* A claim of the repository that this code does not meet.                 *)

(* election.py:143 "candidate log is at least as complete as ours -        *)
(* prevents electing a node that missed writes": where no term ever went   *)
(* back and no crash has cut a line, whoever wins an election without the  *)
(* vote of a leader now dead has every write that leader confirmed.        *)
ConfirmedSurviveFailover ==
  [][\A r \in Req, n \in Node :
       /\ role[n] = "follower" /\ role'[n] = "leader"
       /\ rewound' = {} /\ tears' = 0
       /\ puts[r].pc = "ok" /\ ~up[puts[r].node]
       /\ puts[r].node \notin campaign[n].granted
       => Holds(n, r)]_clusterVars
=============================================================================
