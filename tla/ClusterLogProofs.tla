-------------------------- MODULE ClusterLogProofs --------------------------
(***************************************************************************)
(* Theorems about the WALs of a cluster, for every set of nodes and        *)
(* requests: an entry keeps the LSN and the term its leader gave it, in    *)
(* every WAL that has it, one node has at most one fan-out open, and held  *)
(* locks have owners.  Where nothing fails, the WALs are one log and every *)
(* write is stored.                                                        *)
(***************************************************************************)
EXTENDS ClusterProofs

USE DEF roleVars, walVars, historyVars, electionVars, fileVars, writeVars

-----------------------------------------------------------------------------
(* What the two properties need besides ClusterInv.                        *)

\* A handler of replicate that waits for the heartbeat task to end has the
\* lock of its node.
DeposerOwnsLock ==
  \A r \in Req, n \in Node : calls[r][n] = "locked" => lock[n] = r

\* A PUT that has not been written is in no WAL.
UnwrittenNowhere ==
  \A r \in Req : puts[r].pc \in {"new", "queued"} =>
    \A n \in Node : ~Holds(n, r)

LogInv ==
  /\ OneFanOutPerNode
  /\ LocksAreOwned
  /\ DeposerOwnsLock
  /\ UnwrittenNowhere
  /\ EntriesKeepTheirPlace

-----------------------------------------------------------------------------
(* Only an entry of a request can be read in a WAL.                        *)
LEMMA ReadableLines ==
  ASSUME wal \in [Node -> Seq(Lines)], NEW n \in Node, NEW i \in DOMAIN wal[n],
         wal[n][i] # Unreadable
  PROVE  wal[n][i] \in Entries /\ wal[n][i].req \in Req /\ Holds(n, wal[n][i].req)
<1>1. wal[n] \in Seq(Lines)
  OBVIOUS
<1>2. wal[n][i] \in Lines
  BY <1>1
<1>3. wal[n][i] \in Entries
  BY <1>2 DEF Lines
<1>4. QED BY <1>3 DEF Entries, Holds

(* One more line at the end of a WAL, with the next LSN and the term of    *)
(* its entry, disturbs no entry, as long as no request in a WAL changes    *)
(* its own.                                                                *)
LEMMA AppendKeepsPlaces ==
  ASSUME ClusterTypeOK, EntriesKeepTheirPlace,
         NEW n \in Node, NEW e \in Entries, AppendEntry(n, e),
         lsn' = [lsn EXCEPT ![n] = @ + 1],
         puts'[e.req].lsn = lsn[n] + 1, puts'[e.req].term = e.term,
         \A p \in Node, q \in Req : Holds(p, q) =>
           puts'[q].lsn = puts[q].lsn /\ puts'[q].term = puts[q].term
  PROVE  EntriesKeepTheirPlace'
<1> DEFINE line == IF n \in torn THEN Unreadable ELSE e
<1>1. /\ wal \in [Node -> Seq(Lines)] /\ lsn \in [Node -> 0 .. MaxLsn]
      /\ \A p \in Node : lsn[p] = Len(wal[p])
      /\ line \in Lines /\ line \in {Unreadable, e}
      /\ wal' = [wal EXCEPT ![n] = Append(@, line)]
  BY DEF ClusterTypeOK, ElectionTypeOK, EntriesKeepTheirPlace, AppendEntry, Lines
<1> HIDE DEF line
<1>2. ASSUME NEW p \in Node, NEW i \in DOMAIN wal[p], wal[p][i] # Unreadable
      PROVE  /\ puts'[wal[p][i].req].lsn = i
             /\ puts'[wal[p][i].req].term = wal[p][i].term
  <2>1. wal[p][i].req \in Req /\ Holds(p, wal[p][i].req)
    BY <1>1, <1>2, ReadableLines
  <2>2. QED BY <1>2, <2>1 DEF EntriesKeepTheirPlace
<1>3. ASSUME NEW p \in Node, p # n
      PROVE  /\ lsn'[p] = Len(wal'[p])
             /\ \A i \in DOMAIN wal'[p] : wal'[p][i] # Unreadable =>
                  /\ puts'[wal'[p][i].req].lsn = i
                  /\ puts'[wal'[p][i].req].term = wal'[p][i].term
  <2>1. wal'[p] = wal[p] /\ lsn'[p] = lsn[p]
    BY <1>1, <1>3
  <2>2. QED BY <1>1, <1>2, <2>1
<1>4. /\ lsn'[n] = Len(wal'[n])
      /\ \A i \in DOMAIN wal'[n] : wal'[n][i] # Unreadable =>
           /\ puts'[wal'[n][i].req].lsn = i
           /\ puts'[wal'[n][i].req].term = wal'[n][i].term
  <2>1. /\ wal[n] \in Seq(Lines)
        /\ wal'[n] = Append(wal[n], line)
        /\ lsn'[n] = lsn[n] + 1
    BY <1>1
  <2>2. /\ DOMAIN wal'[n] = 1 .. Len(wal[n]) + 1
        /\ DOMAIN wal[n] = 1 .. Len(wal[n])
        /\ Len(wal[n]) \in Nat /\ Len(wal'[n]) = Len(wal[n]) + 1
        /\ wal'[n][Len(wal[n]) + 1] = line
        /\ \A i \in 1 .. Len(wal[n]) : wal'[n][i] = wal[n][i]
    BY <1>1, <2>1
  <2>3. ASSUME NEW i \in DOMAIN wal'[n], wal'[n][i] # Unreadable
        PROVE  /\ puts'[wal'[n][i].req].lsn = i
               /\ puts'[wal'[n][i].req].term = wal'[n][i].term
    <3>1. CASE i = Len(wal[n]) + 1
      BY <1>1, <2>2, <2>3, <3>1
    <3>2. CASE i \in 1 .. Len(wal[n])
      BY <1>2, <2>2, <2>3, <3>2
    <3>3. QED BY <2>2, <3>1, <3>2
  <2>4. QED BY <1>1, <2>1, <2>2, <2>3
<1>5. QED BY <1>3, <1>4 DEF EntriesKeepTheirPlace

(* Where no WAL changes, only what the requests in them carry matters.     *)
LEMMA SameWalsKeepPlaces ==
  ASSUME ClusterTypeOK, EntriesKeepTheirPlace,
         wal' = wal, lsn' = lsn,
         \A q \in Req : puts'[q].lsn = puts[q].lsn /\ puts'[q].term = puts[q].term
  PROVE  EntriesKeepTheirPlace'
<1>1. ASSUME NEW p \in Node, NEW i \in DOMAIN wal[p], wal[p][i] # Unreadable
      PROVE  wal[p][i].req \in Req
  BY <1>1, ReadableLines DEF ClusterTypeOK
<1>2. QED BY <1>1 DEF EntriesKeepTheirPlace

-----------------------------------------------------------------------------
LEMMA WriteAndFanOutLog ==
  ASSUME ClusterInv, LogInv, NEW r \in Req, NEW n \in Node,
         puts[r].pc \in {"new", "queued"}, lock[n] = NoReq,
         WriteAndFanOut(r, n)
  PROVE  LogInv'
<1> DEFINE e == [term |-> term[n], req |-> r]
<1> USE DEF LogInv
<1>1. ClusterTypeOK
  BY DEF ClusterInv, WriteInv
<1>2. e \in Entries /\ e.req = r /\ e.term = term[n]
  BY <1>1 DEF ClusterTypeOK, ElectionTypeOK, Entries
<1>3. /\ AppendEntry(n, e)
      /\ lsn' = [lsn EXCEPT ![n] = @ + 1]
      /\ puts' = [puts EXCEPT ![r] = [pc |-> "fanout", node |-> n,
                                     lsn |-> lsn[n] + 1, term |-> term[n]]]
      /\ calls' = [calls EXCEPT ![r] =
                     [p \in Node |-> IF p = n THEN "none" ELSE "sent"]]
      /\ lock' = [lock EXCEPT ![n] = r]
  BY DEF WriteAndFanOut, LocalWrite, AppendLine
<1>4. /\ puts'[r].lsn = lsn[n] + 1 /\ puts'[r].term = term[n]
      /\ puts'[r].pc = "fanout" /\ puts'[r].node = n
      /\ \A q \in Req \ {r} : puts'[q] = puts[q]
  BY <1>1, <1>3 DEF ClusterTypeOK
<1>5. \A p \in Node : ~Holds(p, r)
  BY DEF UnwrittenNowhere
<1>6. \A p \in Node, q \in Req :
        Holds(p, q)' <=>
          Holds(p, q) \/ (n \notin torn /\ p = n /\ q = r)
  <2>1. wal \in [Node -> Seq(Lines)]
    BY <1>1 DEF ClusterTypeOK
  <2> HIDE DEF e
  <2>2. QED BY <1>2, <1>3, <2>1, AppendEntryHolds
<1>7. EntriesKeepTheirPlace'
  <2>1. \A p \in Node, q \in Req : Holds(p, q) =>
          puts'[q].lsn = puts[q].lsn /\ puts'[q].term = puts[q].term
    BY <1>4, <1>5
  <2> HIDE DEF e
  <2>2. QED BY <1>1, <1>2, <1>3, <1>4, <2>1, AppendKeepsPlaces
<1>8. OneFanOutPerNode'
  BY <1>1, <1>3, <1>4, RequestAssumption DEF OneFanOutPerNode, ClusterTypeOK
<1>9. DeposerOwnsLock'
  BY <1>1, <1>3, RequestAssumption DEF DeposerOwnsLock, ClusterTypeOK
<1>10. LocksAreOwned'
  <2>1. \A p \in Node : calls[r][p] = "none"
    BY DEF ClusterInv, WriteInv, CallsFollowWrites
  <2>2. QED
    BY <1>1, <1>3, <1>4, <2>1, RequestAssumption
    DEF LocksAreOwned, ClusterTypeOK
<1>11. UnwrittenNowhere'
  BY <1>4, <1>6 DEF UnwrittenNowhere
<1>12. QED BY <1>7, <1>8, <1>9, <1>10, <1>11

LEMMA PutReturnsLog ==
  ASSUME ClusterInv, LogInv, NEW r \in Req, PutReturns(r)
  PROVE  LogInv'
<1> USE DEF LogInv
<1>1. ClusterTypeOK
  BY DEF ClusterInv, WriteInv
<1>2. /\ puts[r].pc = "fanout" /\ puts[r].node \in Node
      /\ lock[puts[r].node] = r
      /\ lock' = [lock EXCEPT ![puts[r].node] = NoReq]
      /\ UNCHANGED <<electionVars, wal, calls>>
  BY DEF PutReturns, Released, ClusterInv, WriteInv, WritersAreNodes,
         Written, OneFanOutPerNode
<1>3. /\ puts'[r].pc \in {"ok", "failed"}
      /\ \A q \in Req : /\ puts'[q].lsn = puts[q].lsn
                        /\ puts'[q].term = puts[q].term
                        /\ puts'[q].node = puts[q].node
                        /\ q # r => puts'[q] = puts[q]
  BY <1>1 DEF PutReturns, ClusterTypeOK, Puts
<1>4. EntriesKeepTheirPlace'
  BY <1>1, <1>2, <1>3, SameWalsKeepPlaces
<1>5. OneFanOutPerNode'
  <2>1. ASSUME NEW q \in Req, puts'[q].pc = "fanout"
        PROVE  lock'[puts'[q].node] = q
    <3>1. q # r /\ puts'[q] = puts[q] /\ lock[puts[q].node] = q
      BY <1>3, <2>1 DEF OneFanOutPerNode
    <3>2. puts[q].node # puts[r].node
      BY <1>2, <3>1
    <3>3. QED BY <1>1, <1>2, <3>1, <3>2 DEF ClusterTypeOK
  <2>2. QED BY <2>1 DEF OneFanOutPerNode
<1>6. DeposerOwnsLock'
  <2>1. calls[r][puts[r].node] = "none"
    BY <1>2 DEF ClusterInv, WriteInv, CallsFollowWrites
  <2>2. QED BY <1>1, <1>2, <2>1 DEF DeposerOwnsLock, ClusterTypeOK
<1>7. LocksAreOwned'
  BY <1>1, <1>2, <1>3 DEF LocksAreOwned, ClusterTypeOK
<1>8. UnwrittenNowhere'
  BY <1>2, <1>3 DEF UnwrittenNowhere, Holds
<1>9. QED BY <1>4, <1>5, <1>6, <1>7, <1>8

LEMMA ReplicateDeposesLog ==
  ASSUME ClusterInv, LogInv, NEW r \in Req, NEW n \in Node,
         ReplicateDeposes(r, n)
  PROVE  LogInv'
<1> USE DEF LogInv
<1>1. ClusterTypeOK
  BY DEF ClusterInv, WriteInv
<1>2. /\ lock[n] = NoReq /\ lock' = [lock EXCEPT ![n] = r]
      /\ calls' = [calls EXCEPT ![r][n] = "locked"]
      /\ wal' = wal /\ puts' = puts /\ lsn' = lsn
  BY DEF ReplicateDeposes, GetsLock, RunsAtOnce, LockFree, EntrySeen
<1>3. EntriesKeepTheirPlace'
  BY <1>1, <1>2, SameWalsKeepPlaces
<1>4. OneFanOutPerNode' /\ DeposerOwnsLock' /\ LocksAreOwned'
  BY <1>1, <1>2, RequestAssumption
  DEF OneFanOutPerNode, DeposerOwnsLock, LocksAreOwned, ClusterTypeOK
<1>5. UnwrittenNowhere'
  BY <1>2 DEF UnwrittenNowhere, Holds
<1>6. QED BY <1>3, <1>4, <1>5

LEMMA ReplicateAppliesLog ==
  ASSUME ClusterInv, LogInv, NEW r \in Req, NEW n \in Node,
         NEW reply \in BOOLEAN, ReplicateApplies(r, n, reply)
  PROVE  LogInv'
<1> DEFINE e == EntryOf(r)
<1> USE DEF LogInv
<1>1. ClusterTypeOK
  BY DEF ClusterInv, WriteInv
<1>2. /\ puts[r].pc \notin {"new", "queued"} /\ puts[r].node # n
      /\ puts[r].term \in Terms
  BY DEF ClusterInv, WriteInv, CallsFollowWrites, ReplicateApplies,
         MayApply, GetsLock
<1>3. /\ puts' = puts
      /\ calls' = [calls EXCEPT ![r][n] = "done"]
      /\ lock' = IF calls[r][n] = "locked" THEN [lock EXCEPT ![n] = NoReq]
                                           ELSE lock
  BY DEF ReplicateApplies
<1>4. ASSUME NextInLog(r, n)
      PROVE  EntriesKeepTheirPlace' /\ UnwrittenNowhere'
  <2>1. /\ AppendEntry(n, e)
        /\ lsn' = [lsn EXCEPT ![n] = @ + 1]
        /\ puts[r].lsn = lsn[n] + 1
    BY <1>4 DEF ReplicateApplies, EntryAppended, AppendLine, NextInLog
  <2>2. e \in Entries /\ e.req = r /\ e.term = puts[r].term
    BY <1>2 DEF EntryOf, Entries, Terms
  <2>3. wal \in [Node -> Seq(Lines)]
    BY <1>1 DEF ClusterTypeOK
  <2> HIDE DEF e
  <2>4. EntriesKeepTheirPlace'
    BY <1>1, <1>3, <2>1, <2>2, AppendKeepsPlaces
  <2>5. \A p \in Node, q \in Req :
          Holds(p, q)' <=>
            Holds(p, q) \/ (n \notin torn /\ p = n /\ q = r)
    BY <2>1, <2>2, <2>3, AppendEntryHolds
  <2>6. UnwrittenNowhere'
    BY <1>2, <1>3, <2>5 DEF UnwrittenNowhere
  <2>7. QED BY <2>4, <2>6
<1>5. ASSUME ~NextInLog(r, n)
      PROVE  EntriesKeepTheirPlace' /\ UnwrittenNowhere'
  <2>1. wal' = wal /\ lsn' = lsn
    BY <1>5 DEF ReplicateApplies, EntrySeen
  <2>2. EntriesKeepTheirPlace'
    BY <1>1, <1>3, <2>1, SameWalsKeepPlaces
  <2>3. UnwrittenNowhere'
    BY <1>3, <2>1 DEF UnwrittenNowhere, Holds
  <2>4. QED BY <2>2, <2>3
<1>6. OneFanOutPerNode'
  BY <1>1, <1>2, <1>3 DEF OneFanOutPerNode, DeposerOwnsLock, ClusterTypeOK
<1>7. DeposerOwnsLock'
  BY <1>1, <1>3 DEF DeposerOwnsLock, ClusterTypeOK
<1>8. LocksAreOwned'
  BY <1>1, <1>2, <1>3 DEF LocksAreOwned, DeposerOwnsLock, ClusterTypeOK
<1> HIDE DEF e
<1>9. QED BY <1>4, <1>5, <1>6, <1>7, <1>8

LEMMA NodeCrashLog ==
  ASSUME ClusterInv, LogInv, NEW n \in Node, NEW w \in Req \cup {NoReq},
         NodeCrash(n, w)
  PROVE  LogInv'
<1> USE DEF LogInv
<1>1. ClusterTypeOK
  BY DEF ClusterInv, WriteInv
<1>2. /\ lock' = [lock EXCEPT ![n] = NoReq]
      /\ wal' = wal /\ lsn' = lsn
  BY DEF NodeCrash, Crash
<1>3. \A q \in Req :
        /\ puts'[q].lsn = puts[q].lsn /\ puts'[q].term = puts[q].term
        /\ puts'[q].pc \in {puts[q].pc, "lost"}
        /\ puts'[q].pc = "fanout" =>
             puts[q].node # n /\ puts'[q].node = puts[q].node
  BY <1>1 DEF NodeCrash, ClusterTypeOK, Puts
<1>4. \A q \in Req, p \in Node :
        calls'[q][p] = "locked" => calls[q][p] = "locked" /\ p # n
  BY <1>1 DEF NodeCrash, ClusterTypeOK, CallStates
<1>5. EntriesKeepTheirPlace'
  BY <1>1, <1>2, <1>3, SameWalsKeepPlaces
<1>6. OneFanOutPerNode'
  <2>1. \A q \in Req : puts[q].pc = "fanout" => puts[q].node \in Node
    BY DEF ClusterInv, WriteInv, WritersAreNodes, Written
  <2>2. QED
    BY <1>1, <1>2, <1>3, <2>1 DEF OneFanOutPerNode, ClusterTypeOK
<1>7. DeposerOwnsLock'
  BY <1>1, <1>2, <1>4 DEF DeposerOwnsLock, ClusterTypeOK
<1>8. LocksAreOwned'
  <2>1. ASSUME NEW p \in Node \ {n}, lock[p] # NoReq
        PROVE  \/ puts'[lock[p]].pc = "fanout" /\ puts'[lock[p]].node = p
               \/ calls'[lock[p]][p] = "locked"
    BY <1>1, <2>1 DEF LocksAreOwned, NodeCrash, ClusterTypeOK
  <2>2. QED BY <1>1, <1>2, <2>1 DEF LocksAreOwned, ClusterTypeOK
<1>9. UnwrittenNowhere'
  BY <1>2, <1>3 DEF UnwrittenNowhere, Holds
<1>10. QED BY <1>5, <1>6, <1>7, <1>8, <1>9

(* Replay: what can still be read stays at its LSN.                        *)
LEMMA NodeRestartLog ==
  ASSUME ClusterInv, LogInv, NEW n \in Node, NodeRestart(n)
  PROVE  LogInv'
<1> USE DEF LogInv
<1>1. ClusterTypeOK /\ LinesMatchLsns
  BY DEF ClusterInv, WriteInv, FileInv
<1>2. /\ \A p \in Node, q \in Req : Holds(p, q)' <=> Holds(p, q)
      /\ LinesMatchLsns'
  BY <1>1, ReplayHolds
<1>3. UNCHANGED <<puts, calls, lock>>
  BY DEF NodeRestart
<1>4. /\ wal \in [Node -> Seq(Lines)] /\ walLsn[n] \in Nat
      /\ wal' = [wal EXCEPT ![n] = SubSeq(@, 1, walLsn[n])]
      /\ walLsn[n] <= Len(wal[n])
  BY <1>1, BoundAssumption
  DEF ClusterTypeOK, ElectionTypeOK, NodeRestart, LinesMatchLsns
<1>5. wal[n] \in Seq(Lines) /\ wal'[n] = SubSeq(wal[n], 1, walLsn[n])
  BY <1>4
<1>6. \A i \in DOMAIN wal'[n] : i \in DOMAIN wal[n] /\ wal'[n][i] = wal[n][i]
  BY <1>4, <1>5
<1>7. ASSUME NEW p \in Node, NEW i \in DOMAIN wal'[p]
      PROVE  i \in DOMAIN wal[p] /\ wal'[p][i] = wal[p][i]
  BY <1>4, <1>6, <1>7
<1>8. ASSUME NEW p \in Node, NEW i \in DOMAIN wal[p], wal[p][i] # Unreadable
      PROVE  /\ puts'[wal[p][i].req].lsn = i
             /\ puts'[wal[p][i].req].term = wal[p][i].term
  BY <1>3, <1>8 DEF EntriesKeepTheirPlace
<1>9. EntriesKeepTheirPlace'
  <2>1. \A p \in Node : lsn'[p] = Len(wal'[p])
    BY <1>2 DEF LinesMatchLsns
  <2>2. ASSUME NEW p \in Node, NEW i \in DOMAIN wal'[p], wal'[p][i] # Unreadable
        PROVE  /\ puts'[wal'[p][i].req].lsn = i
               /\ puts'[wal'[p][i].req].term = wal'[p][i].term
    BY <1>7, <1>8, <2>2
  <2>3. QED BY <2>1, <2>2 DEF EntriesKeepTheirPlace
<1>10. OneFanOutPerNode' /\ LocksAreOwned' /\ DeposerOwnsLock'
  BY <1>3 DEF OneFanOutPerNode, LocksAreOwned, DeposerOwnsLock
<1>11. UnwrittenNowhere'
  BY <1>2, <1>3 DEF UnwrittenNowhere
<1>12. QED BY <1>9, <1>10, <1>11

\* Steps that write nothing, take no lock and move no handler past its write.
LEMMA OtherStepsLog ==
  ASSUME ClusterInv, LogInv, wal' = wal, lsn' = lsn, lock' = lock,
         \A q \in Req : /\ puts'[q].lsn = puts[q].lsn
                        /\ puts'[q].term = puts[q].term
                        /\ \/ puts'[q] = puts[q]
                           \/ puts[q].pc = "new" /\ puts'[q].pc = "queued",
         \A q \in Req, p \in Node :
           calls'[q][p] = "locked" <=> calls[q][p] = "locked"
  PROVE  LogInv'
<1> USE DEF LogInv
<1>1. EntriesKeepTheirPlace'
  BY SameWalsKeepPlaces DEF ClusterInv, WriteInv
<1>2. LocksAreOwned'
  <2>1. ASSUME NEW n \in Node, lock[n] # NoReq
        PROVE  \/ puts'[lock[n]].pc = "fanout" /\ puts'[lock[n]].node = n
               \/ calls'[lock[n]][n] = "locked"
    <3>1. lock[n] \in Req
      BY <2>1 DEF ClusterInv, WriteInv, ClusterTypeOK
    <3>2. CASE calls[lock[n]][n] = "locked"
      BY <3>1, <3>2
    <3>3. CASE puts[lock[n]].pc = "fanout" /\ puts[lock[n]].node = n
      BY <3>1, <3>3
    <3>4. QED BY <2>1, <3>2, <3>3 DEF LocksAreOwned
  <2>2. QED BY <2>1 DEF LocksAreOwned
<1>3. QED
  BY <1>1, <1>2 DEF OneFanOutPerNode, DeposerOwnsLock, UnwrittenNowhere, Holds

-----------------------------------------------------------------------------
LEMMA LogInvInit == ClusterInit => LogInv
<1>1. SUFFICES ASSUME ClusterInit PROVE LogInv
  OBVIOUS
<1>2. \A n \in Node : wal[n] = << >> /\ lsn[n] = 0
  BY <1>1 DEF ClusterInit, ElectionInit
<1>3. \A n \in Node : Len(wal[n]) = 0 /\ DOMAIN wal[n] = {}
  BY <1>2
<1>4. QED
  BY <1>1, <1>2, <1>3
  DEF ClusterInit, NewPut, LogInv, OneFanOutPerNode, LocksAreOwned,
      DeposerOwnsLock, UnwrittenNowhere, EntriesKeepTheirPlace, Holds

LEMMA LogInvStep ==
  ClusterInv /\ LogInv /\ [ClusterNext]_clusterVars => LogInv'
<1>1. SUFFICES ASSUME ClusterInv, LogInv, [ClusterNext]_clusterVars
               PROVE  LogInv'
  OBVIOUS
<1>2. ClusterTypeOK
  BY <1>1 DEF ClusterInv, WriteInv
<1>3. CASE UNCHANGED clusterVars
  BY <1>1, <1>3, OtherStepsLog DEF clusterVars
<1>4. CASE ElectionStep
  <2>1. UNCHANGED writeVars /\ lsn' = lsn
    BY <1>4
    DEF ElectionStep, StartElection, WinElection, LoseElection,
        SendHeartbeat, HandleHeartbeat, HandleVote
  <2>2. QED BY <1>1, <2>1, OtherStepsLog
<1>5. ASSUME NEW r \in Req, PutReturns(r) PROVE LogInv'
  BY <1>1, <1>5, PutReturnsLog
<1>6. ASSUME NEW r \in Req, NEW n \in Node, PutArrives(r, n) PROVE LogInv'
  <2>1. \A q \in Req : /\ puts'[q].lsn = puts[q].lsn
                       /\ puts'[q].term = puts[q].term
                       /\ \/ puts'[q] = puts[q]
                          \/ puts[q].pc = "new" /\ puts'[q].pc = "queued"
    BY <1>2, <1>6 DEF PutArrives, ClusterTypeOK, Puts
  <2>2. wal' = wal /\ lsn' = lsn /\ lock' = lock /\ calls' = calls
    BY <1>6 DEF PutArrives
  <2>3. QED BY <1>1, <2>1, <2>2, OtherStepsLog
<1>7. ASSUME NEW r \in Req, NEW n \in Node, PutAtOnce(r, n) \/ PutResumes(r, n)
      PROVE  LogInv'
  <2>1. /\ puts[r].pc \in {"new", "queued"} /\ lock[n] = NoReq
        /\ WriteAndFanOut(r, n)
    BY <1>7 DEF PutAtOnce, PutResumes, RunsAtOnce, LockFree
  <2>2. QED BY <1>1, <2>1, WriteAndFanOutLog
<1>8. ASSUME NEW r \in Req, NEW n \in Node,
             \/ ReplicateLost(r, n)
             \/ ReplicateStale(r, n) \/ ReplicateArrives(r, n)
      PROVE  LogInv'
  <2>1. /\ wal' = wal /\ lsn' = lsn /\ lock' = lock /\ puts' = puts
        /\ \A q \in Req, p \in Node :
             calls'[q][p] = "locked" <=> calls[q][p] = "locked"
    <3>1. PICK s \in {"queued", "done"} : calls' = [calls EXCEPT ![r][n] = s]
      BY <1>8 DEF ReplicateLost, ReplicateStale, ReplicateArrives
    <3>2. /\ wal' = wal /\ lsn' = lsn /\ lock' = lock /\ puts' = puts
          /\ calls[r][n] = "sent"
      BY <1>8 DEF ReplicateLost, ReplicateStale, ReplicateArrives
    <3>3. QED BY <1>2, <3>1, <3>2 DEF ClusterTypeOK
  <2>2. QED BY <1>1, <2>1, OtherStepsLog
<1>9. ASSUME NEW r \in Req, NEW n \in Node, ReplicateDeposes(r, n)
      PROVE  LogInv'
  BY <1>1, <1>9, ReplicateDeposesLog
<1>10. ASSUME NEW r \in Req, NEW n \in Node, NEW reply \in BOOLEAN,
              ReplicateApplies(r, n, reply)
       PROVE  LogInv'
  BY <1>1, <1>10, ReplicateAppliesLog
<1>11. ASSUME NEW n \in Node, NEW w \in Req \cup {NoReq}, NodeCrash(n, w)
       PROVE  LogInv'
  BY <1>1, <1>11, NodeCrashLog
<1>12. ASSUME NEW n \in Node, InjectDelay(n) PROVE LogInv'
  BY <1>1, <1>12, OtherStepsLog DEF InjectDelay
<1>13. ASSUME NEW n \in Node, NodeRestart(n) PROVE LogInv'
  BY <1>1, <1>13, NodeRestartLog
<1>14. QED
  BY <1>1, <1>3, <1>4, <1>5, <1>6, <1>7, <1>8, <1>9, <1>10, <1>11, <1>12, <1>13
  DEF ClusterNext, WriteStep

-----------------------------------------------------------------------------
(* The invariant of the WALs and the locks.                                *)
THEOREM LogInvariant == ClusterSpec => []LogInv
<1>1. ClusterInit => LogInv
  BY LogInvInit
<1>2. ClusterInv /\ LogInv /\ [ClusterNext]_clusterVars => LogInv'
  BY LogInvStep
<1>3. QED BY <1>1, <1>2, ClusterInvariant, PTL DEF ClusterSpec

(* An entry that can be read is at one LSN and of one term wherever it is, *)
(* and the LSN of a node is the number of its lines, however the nodes     *)
(* that wrote it were deposed, crashed or delayed.                         *)
THEOREM PlacesAreKept == ClusterSpec => []EntriesKeepTheirPlace
<1>1. LogInv => EntriesKeepTheirPlace
  BY DEF LogInv
<1>2. QED BY <1>1, LogInvariant, PTL

(* An open fan-out has the lock of its node, and no _write_lock is left    *)
(* behind.                                                                 *)
THEOREM LocksHaveOwners == ClusterSpec => []LocksMatchHolders
<1>1. LogInv => LocksMatchHolders
  BY DEF LogInv, LocksMatchHolders
<1>2. QED BY <1>1, LogInvariant, PTL
-----------------------------------------------------------------------------
(* A cluster where nothing fails (Calm): the one candidate is never        *)
(* deposed, and each follower lacks at most the entry on its way to it.    *)

\* No line is cut.
FilesWhole == torn = {} /\ wal \in [Node -> Seq(Entries)]

\* Only a candidate campaigns, and no term is ahead of its own.
OneTerm ==
  /\ \A n \in Node : up[n]
  /\ beating \subseteq Candidates
  /\ \A n \in Node \ Candidates : role[n] = "follower" /\ ~campaign[n].open
  /\ \A m \in requests : m.from \in Candidates /\ m.term <= term[m.from]
  /\ \A h \in heartbeats : h.leader \in Candidates /\ h.term <= term[h.leader]
  /\ \A c \in Candidates :
       /\ \A n \in Node : term[n] <= term[c]
       /\ campaign[c].open =>
            campaign[c].term = term[c] /\ campaign[c].peerTerm <= term[c]

\* A write is taken in by the leader and written in its term.
WritersLead ==
  \A r \in Req :
    /\ puts[r].pc \in {"new", "queued", "fanout", "ok"}
    /\ puts[r].pc # "new" =>
         puts[r].node \in Candidates /\ role[puts[r].node] = "leader"
    /\ puts[r].pc \in {"fanout", "ok"} => puts[r].term = term[puts[r].node]
    /\ \A n \in Node : calls[r][n] # "locked"

OnItsWay(r, n) == calls[r][n] \in {"sent", "queued"}

\* The last entry of the leader is the one its open fan-out sends.
FanOutSendsLast ==
  \A r \in Req :
    /\ puts[r].pc = "fanout" =>
         LET c == puts[r].node IN
         /\ puts[r].lsn = lsn[c] /\ wal[c][lsn[c]] = EntryOf(r)
         /\ \A n \in Peers(c) :
              /\ calls[r][n] # "none"
              /\ calls[r][n] = "done" => n \in acks[r]
    /\ \A n \in Node : OnItsWay(r, n) => puts[r].pc = "fanout"

\* A WAL is that of the candidate, less the entry on its way.
OneBehind ==
  \A c \in Candidates, n \in Node :
    /\ lsn[n] = IF \E r \in Req : OnItsWay(r, n) THEN lsn[c] - 1 ELSE lsn[c]
    /\ \A i \in DOMAIN wal[n] : wal[n][i] = wal[c][i]

CalmInv ==
  FilesWhole /\ OneTerm /\ WritersLead /\ FanOutSendsLast /\ OneBehind

-----------------------------------------------------------------------------
\* Where nothing fails, nothing crashes.
LEMMA CalmNeverCrashes ==
  ASSUME ClusterInv, Calm, NEW n \in Node, NEW w
  PROVE  ~NodeCrash(n, w)
BY DEF Calm, NodeCrash, Crash, ClusterInv, ElectionInv, ElectionTypeOK

\* A WAL that ends in a whole line takes the entry as it is.
LEMMA CalmAppend ==
  ASSUME FilesWhole, NEW n \in Node, NEW e \in Entries, AppendEntry(n, e)
  PROVE  FilesWhole' /\ wal' = [wal EXCEPT ![n] = Append(@, e)]
<1>1. wal' = [wal EXCEPT ![n] = Append(@, e)] /\ torn' = {}
  BY DEF FilesWhole, AppendEntry
<1>2. wal' \in [Node -> Seq(Entries)]
  BY <1>1 DEF FilesWhole
<1>3. QED BY <1>1, <1>2 DEF FilesWhole

(* A step of the election keeps the one candidate ahead, and once it leads *)
(* nothing deposes it or moves its term.                                   *)
LEMMA CalmElectionStep ==
  ASSUME ClusterInv, Calm, OneTerm, ElectionStep
  PROVE  /\ OneTerm'
         /\ \A c \in Candidates : role[c] = "leader" =>
              role'[c] = "leader" /\ term'[c] = term[c]
<1> DEFINE Goal ==
      /\ OneTerm'
      /\ \A c \in Candidates : role[c] = "leader" =>
           role'[c] = "leader" /\ term'[c] = term[c]
<1> USE DEF ClusterInv, ElectionInv
<1>1. /\ ElectionTypeOK /\ OthersFollow /\ RequestsAwaited
      /\ CampaignsCountCastVotes
  OBVIOUS
<1>2. /\ Candidates \subseteq Node
      /\ \A m, n \in Candidates : m = n
      /\ \A n \in Node : term[n] \in Int /\ campaign[n].term \in Int
                         /\ campaign[n].peerTerm \in Int
  BY <1>1, FaultAssumption DEF Calm, ElectionTypeOK, Campaigns
<1>3. ASSUME NEW n \in Candidates, StartElection(n) PROVE Goal
  <2>1. /\ n \in Node /\ role[n] = "follower"
        /\ term' = [term EXCEPT ![n] = term[n] + 1]
        /\ campaign' = [campaign EXCEPT ![n] = NewCampaign(term[n] + 1)]
        /\ UNCHANGED <<up, role, heartbeats, beating>>
    BY <1>2, <1>3 DEF StartElection
  <2>2. /\ term'[n] = term[n] + 1
        /\ \A p \in Node \ {n} : term'[p] = term[p] /\ campaign'[p] = campaign[p]
        /\ campaign'[n].term = term[n] + 1 /\ campaign'[n].peerTerm = 0
        /\ term[n] >= 0
    BY <1>1, <2>1 DEF ElectionTypeOK, NewCampaign
  <2>3. ASSUME NEW m \in requests'
        PROVE  m.from \in Candidates /\ m.term <= term'[m.from]
    <3>1. CASE m \in requests
      <4>1. m.from = n /\ m.term <= term[n] /\ m.term \in Int
        BY <1>1, <1>2, <3>1 DEF OneTerm, ElectionTypeOK, Requests, Terms
      <4>2. QED BY <1>2, <2>2, <4>1
    <3>2. CASE m \notin requests
      <4>1. m.from = n /\ m.term = term[n] + 1
        BY <1>3, <3>2 DEF StartElection
      <4>2. QED BY <1>2, <1>3, <2>1, <2>2, <4>1
    <3>3. QED BY <3>1, <3>2
  <2>4. ASSUME NEW h \in heartbeats'
        PROVE  h.leader \in Candidates /\ h.term <= term'[h.leader]
    <3>1. h.leader = n /\ h.term <= term[n] /\ h.term \in Int
      BY <1>1, <1>2, <2>1 DEF OneTerm, ElectionTypeOK, Heartbeats, Terms
    <3>2. QED BY <1>2, <2>2, <3>1
  <2>5. \A p \in Node, c \in Candidates : term'[p] <= term'[c]
    BY <1>2, <2>1, <2>2 DEF OneTerm
  <2>6. QED
    BY <1>2, <2>1, <2>2, <2>3, <2>4, <2>5 DEF OneTerm
<1>4. ASSUME NEW n \in Node, WinElection(n) \/ LoseElection(n) PROVE Goal
  <2>1. n \in Candidates /\ campaign[n].open /\ role[n] = "follower"
    BY <1>1, <1>4 DEF OneTerm, WinElection, LoseElection, OthersFollow
  <2>2. /\ term' = [term EXCEPT ![n] = term[n]]
        /\ campaign' = [campaign EXCEPT ![n] = NoCampaign]
        /\ \A p \in Node \ {n} : role'[p] = role[p]
        /\ up' = up /\ heartbeats' = heartbeats /\ Abandon(n)
        /\ beating' \subseteq beating \cup {n}
    BY <1>1, <1>2, <1>4, <2>1
    DEF OneTerm, WinElection, LoseElection, MaxOf, ElectionTypeOK
  <2>3. \A m \in requests' : m.from \in Candidates /\ m.term <= term[m.from]
    <3>1. PICK late \in SUBSET Outstanding(n) :
            requests' = (requests \ Outstanding(n)) \cup
                          {[m EXCEPT !.live = FALSE] : m \in late}
      BY <2>2 DEF Abandon
    <3>2. ASSUME NEW k \in late
          PROVE  /\ [k EXCEPT !.live = FALSE].from = k.from
                 /\ [k EXCEPT !.live = FALSE].term = k.term
                 /\ k \in requests
      BY <1>1, <3>2 DEF Outstanding, ElectionTypeOK, Requests
    <3>3. ASSUME NEW m \in requests'
          PROVE  m.from \in Candidates /\ m.term <= term[m.from]
      <4>1. CASE m \in requests
        BY <4>1 DEF OneTerm
      <4>2. CASE m \notin requests
        <5>1. PICK k \in late : m = [k EXCEPT !.live = FALSE]
          BY <3>1, <4>2
        <5>2. QED BY <3>2, <5>1 DEF OneTerm
      <4>3. QED BY <4>1, <4>2
    <3>4. QED BY <3>3
  <2>4. term' = term
    BY <1>1, <2>2 DEF ElectionTypeOK
  <2>5. QED
    BY <1>1, <1>2, <2>1, <2>2, <2>3, <2>4
    DEF OneTerm, NoCampaign, ElectionTypeOK
<1>5. ASSUME NEW n \in Node, SendHeartbeat(n) PROVE Goal
  <2>1. n \in Candidates
    BY <1>5 DEF OneTerm, SendHeartbeat
  <2>2. QED BY <1>2, <1>5, <2>1 DEF OneTerm, SendHeartbeat
<1>7. ASSUME NEW n \in Node, NEW h \in heartbeats, HandleHeartbeat(n, h)
      PROVE  Goal
  <2>1. /\ h.leader \in Candidates /\ h.term <= term[h.leader] /\ h.term \in Int
        /\ n \notin Candidates /\ role[n] = "follower"
    BY <1>1, <1>2, <1>7
    DEF OneTerm, HandleHeartbeat, ElectionTypeOK, Heartbeats, Terms
  <2>2. /\ term' = [term EXCEPT ![n] = h.term]
        /\ role' = [role EXCEPT ![n] = "follower"]
        /\ UNCHANGED <<up, campaign, requests, heartbeats, beating>>
    BY <1>1, <1>7, <2>1 DEF HandleHeartbeat, RoleAt, BeatingAt
  <2>3. QED BY <1>1, <1>2, <2>1, <2>2 DEF OneTerm, ElectionTypeOK
<1>8. ASSUME NEW m \in requests, NEW reply \in BOOLEAN, HandleVote(m, reply)
      PROVE  Goal
  <2> DEFINE v == m.to
             t == MaxOf(term[v], m.term)
  <2>1. /\ m.from \in Candidates /\ m.term <= term[m.from] /\ m.term \in Int
        /\ v \in Node /\ v # m.from /\ m.from \in Node
        /\ m.live \in BOOLEAN
    BY <1>1, <1>2 DEF OneTerm, ElectionTypeOK, Requests, Terms,
                      RequestsAwaited, Peers
  <2>2. v \notin Candidates /\ role[v] = "follower" /\ term[v] <= term[m.from]
    BY <1>2, <2>1 DEF OneTerm
  <2>3. t \in Int /\ t <= term[m.from]
    BY <1>2, <2>1, <2>2 DEF MaxOf
  <2>4. /\ term' = [term EXCEPT ![v] = t]
        /\ role' = [role EXCEPT ![v] = "follower"]
        /\ requests' \subseteq requests
        /\ up' = up /\ heartbeats' = heartbeats /\ beating' = beating
    BY <1>8, <2>2 DEF HandleVote, RoleAfterVote, RoleAt, BeatingAt
  <2> HIDE DEF t, v
  <2>5. \A n \in Node :
          /\ campaign'[n].open = campaign[n].open
          /\ campaign'[n].term = campaign[n].term
          /\ \/ campaign'[n].peerTerm = campaign[n].peerTerm
             \/ /\ n = m.from
                /\ campaign'[n].peerTerm = MaxOf(campaign[n].peerTerm, t)
    <3>1. \/ campaign' = campaign
          \/ \E granted \in BOOLEAN :
               campaign' = [campaign EXCEPT ![m.from] =
                              CountReply(@, v, granted, t)]
      BY <1>8 DEF HandleVote, t, v, GrantsVote
    <3>2. \A granted \in BOOLEAN, n \in Node :
            LET c == CountReply(campaign[n], v, granted, t) IN
            /\ c.open = campaign[n].open /\ c.term = campaign[n].term
            /\ c.peerTerm = MaxOf(campaign[n].peerTerm, t)
      BY DEF CountReply
    <3>3. CASE campaign' = campaign
      BY <3>3
    <3>4. ASSUME NEW granted \in BOOLEAN,
                 campaign' = [campaign EXCEPT ![m.from] =
                                CountReply(@, v, granted, t)],
                 NEW n \in Node
          PROVE  /\ campaign'[n].open = campaign[n].open
                 /\ campaign'[n].term = campaign[n].term
                 /\ \/ campaign'[n].peerTerm = campaign[n].peerTerm
                    \/ /\ n = m.from
                       /\ campaign'[n].peerTerm = MaxOf(campaign[n].peerTerm, t)
      <4>1. CASE n = m.from
        <5>1. campaign'[n] = CountReply(campaign[n], v, granted, t)
          BY <1>1, <3>4, <4>1 DEF ElectionTypeOK
        <5>2. QED BY <3>2, <4>1, <5>1
      <4>2. CASE n # m.from
        BY <1>1, <3>4, <4>2 DEF ElectionTypeOK
      <4>3. QED BY <4>1, <4>2
    <3>5. QED BY <3>1, <3>3, <3>4
  <2>6. \A n \in Node : campaign[n].open /\ campaign[n].peerTerm <= term[n]
                        /\ n \in Candidates => campaign'[n].peerTerm <= term[n]
    BY <1>2, <2>1, <2>3, <2>5 DEF MaxOf
  <2>7. \A c \in Candidates : term'[c] = term[c] /\ role'[c] = role[c]
    BY <1>1, <1>2, <2>2, <2>4 DEF ElectionTypeOK
  <2>8. \A n \in Node, c \in Candidates : term'[n] <= term'[c]
    BY <1>1, <1>2, <2>1, <2>3, <2>4, <2>7 DEF OneTerm, ElectionTypeOK
  <2>9. \A n \in Node \ Candidates :
          role'[n] = "follower" /\ ~campaign'[n].open
    BY <1>1, <2>1, <2>4, <2>5 DEF OneTerm, ElectionTypeOK
  <2>10. QED
    BY <1>2, <2>4, <2>5, <2>6, <2>7, <2>8, <2>9 DEF OneTerm
<1> HIDE DEF Goal
<1>9. Goal
  BY <1>3, <1>4, <1>5, <1>7, <1>8 DEF ElectionStep
<1>10. QED BY <1>9 DEF Goal

(* An election step leaves the writes alone.                               *)
LEMMA CalmElection ==
  ASSUME ClusterInv, Calm, CalmInv, ElectionStep
  PROVE  CalmInv'
<1> USE DEF CalmInv
<1>1. /\ OneTerm'
      /\ \A c \in Candidates : role[c] = "leader" =>
           role'[c] = "leader" /\ term'[c] = term[c]
  BY CalmElectionStep
<1>2. UNCHANGED writeVars /\ lsn' = lsn
  BY DEF ElectionStep, StartElection, WinElection, LoseElection,
         SendHeartbeat, HandleHeartbeat, HandleVote
<1>3. FilesWhole' /\ WritersLead'
  BY <1>1, <1>2 DEF FilesWhole, WritersLead
<1>4. FanOutSendsLast' /\ OneBehind'
  BY <1>2 DEF FanOutSendsLast, OneBehind, OnItsWay, EntryOf
<1>5. QED BY <1>1, <1>3, <1>4

(* What a replicate call finds where nothing fails: it was sent by the one *)
(* leader, in the term of its receiver or a later one, with the next LSN.  *)
LEMMA CalmCalls ==
  ASSUME ClusterInv, LogInv, Calm, CalmInv,
         NEW r \in Req, NEW n \in Node, OnItsWay(r, n)
  PROVE  /\ puts[r].pc = "fanout" /\ puts[r].node \in Candidates
         /\ n \notin Candidates /\ n # puts[r].node /\ role[n] = "follower"
         /\ puts[r].term = term[puts[r].node] /\ term[n] <= puts[r].term
         /\ puts[r].lsn = lsn[n] + 1 /\ puts[r].lsn = lsn[puts[r].node]
         /\ wal[puts[r].node][puts[r].lsn] = EntryOf(r)
<1> USE DEF CalmInv
<1>1. puts[r].pc = "fanout" /\ puts[r].node \in Candidates
  BY DEF FanOutSendsLast, WritersLead
<1>2. n # puts[r].node
  BY DEF OnItsWay, ClusterInv, WriteInv, CallsFollowWrites
<1>3. puts[r].term = term[puts[r].node] /\ term[n] <= puts[r].term
  BY <1>1 DEF WritersLead, OneTerm
<1>4. n \notin Candidates /\ role[n] = "follower"
  BY <1>1, <1>2 DEF Calm, OneTerm
<1>5. /\ puts[r].lsn = lsn[puts[r].node]
      /\ wal[puts[r].node][puts[r].lsn] = EntryOf(r)
  BY <1>1 DEF FanOutSendsLast
<1>6. lsn[n] = lsn[puts[r].node] - 1
  BY <1>1 DEF OneBehind
<1>7. puts[r].node \in Node
  BY <1>1, FaultAssumption
<1>8. lsn[n] \in Int /\ lsn[puts[r].node] \in Int
  BY <1>7 DEF ClusterInv, ElectionInv, ElectionTypeOK
<1>9. QED BY <1>1, <1>2, <1>3, <1>4, <1>5, <1>6, <1>8

LEMMA CalmArrives ==
  ASSUME ClusterInv, Calm, CalmInv, NEW r \in Req, NEW n \in Node,
         PutArrives(r, n) \/ ReplicateArrives(r, n)
  PROVE  CalmInv'
<1> USE DEF CalmInv
<1>1. puts \in [Req -> Puts] /\ calls \in [Req -> [Node -> CallStates]]
  BY DEF ClusterInv, WriteInv, ClusterTypeOK
<1>2. UNCHANGED <<electionVars, fileVars, acks, lock>>
  BY DEF PutArrives, ReplicateArrives
<1>3. FilesWhole' /\ OneTerm'
  BY <1>2 DEF FilesWhole, OneTerm
<1>4. CASE PutArrives(r, n)
  <2>1. /\ puts[r].pc = "new" /\ role[n] = "leader" /\ n \in Candidates
        /\ puts' = [puts EXCEPT ![r].pc = "queued", ![r].node = n]
        /\ calls' = calls
    BY <1>4 DEF PutArrives, OneTerm
  <2>2. /\ puts'[r].pc = "queued" /\ puts'[r].node = n
        /\ \A q \in Req \ {r} : puts'[q] = puts[q]
    BY <1>1, <2>1 DEF Puts
  <2>3. WritersLead'
    BY <1>2, <2>1, <2>2 DEF WritersLead
  <2>4. FanOutSendsLast'
    <3>1. \A q \in Req, p \in Node : OnItsWay(q, p)' <=> OnItsWay(q, p)
      BY <2>1 DEF OnItsWay
    <3>2. \A q \in Req : puts'[q].pc = "fanout" =>
            puts[q].pc = "fanout" /\ puts'[q] = puts[q]
      BY <2>2
    <3>3. \A q \in Req : puts[q].pc = "fanout" => puts'[q].pc = "fanout"
      BY <2>1, <2>2
    <3>4. ASSUME NEW q \in Req, puts'[q].pc = "fanout"
          PROVE  LET c == puts'[q].node IN
                 /\ puts'[q].lsn = lsn'[c] /\ wal'[c][lsn'[c]] = EntryOf(q)'
                 /\ \A p \in Peers(c) :
                      /\ calls'[q][p] # "none"
                      /\ calls'[q][p] = "done" => p \in acks'[q]
      <4>1. puts[q].pc = "fanout" /\ puts'[q] = puts[q]
        BY <3>2, <3>4
      <4>2. EntryOf(q)' = EntryOf(q)
        BY <4>1 DEF EntryOf
      <4>3. wal' = wal /\ lsn' = lsn /\ calls' = calls /\ acks' = acks
        BY <1>2, <2>1
      <4>4. QED BY <4>1, <4>2, <4>3 DEF FanOutSendsLast
    <3>5. QED BY <3>1, <3>3, <3>4 DEF FanOutSendsLast
  <2>5. OneBehind'
    BY <1>2, <2>1 DEF OneBehind, OnItsWay
  <2>6. QED BY <1>3, <2>3, <2>4, <2>5
<1>5. CASE ReplicateArrives(r, n)
  <2>1. /\ calls[r][n] = "sent" /\ puts' = puts
        /\ calls' = [calls EXCEPT ![r][n] = "queued"]
    BY <1>5 DEF ReplicateArrives
  <2>2. \A q \in Req, p \in Node :
          /\ calls'[q][p] = calls[q][p] \/ calls'[q][p] = "queued"
          /\ OnItsWay(q, p)' <=> OnItsWay(q, p)
    BY <1>1, <2>1 DEF OnItsWay
  <2>3. WritersLead'
    BY <1>2, <2>1, <2>2 DEF WritersLead
  <2>4. FanOutSendsLast'
    <3>1. ASSUME NEW q \in Req, puts[q].pc = "fanout", NEW p \in Peers(puts[q].node)
          PROVE  /\ calls'[q][p] # "none"
                 /\ calls'[q][p] = "done" => p \in acks[q]
      BY <2>2, <3>1 DEF FanOutSendsLast, Peers
    <3>2. QED BY <1>2, <2>1, <2>2, <3>1 DEF FanOutSendsLast, EntryOf
  <2>5. OneBehind'
    BY <1>2, <2>2 DEF OneBehind
  <2>6. QED BY <1>3, <2>3, <2>4, <2>5
<1>6. QED BY <1>4, <1>5

(* A new write finds every follower level with the leader.                 *)
LEMMA CalmWrite ==
  ASSUME ClusterInv, LogInv, Calm, CalmInv, NEW r \in Req, NEW n \in Node,
         puts[r].pc \in {"new", "queued"}, lock[n] = NoReq,
         n \in Candidates, role[n] = "leader", WriteAndFanOut(r, n)
  PROVE  CalmInv'
<1> DEFINE e == [term |-> term[n], req |-> r]
<1> USE DEF CalmInv
<1>1. /\ puts \in [Req -> Puts] /\ calls \in [Req -> [Node -> CallStates]]
      /\ wal \in [Node -> Seq(Entries)] /\ lsn \in [Node -> 0 .. MaxLsn]
      /\ term[n] \in 0 .. MaxTerm /\ \A p \in Node : lsn[p] = Len(wal[p])
  BY DEF ClusterInv, WriteInv, ClusterTypeOK, ElectionTypeOK, LogInv,
         EntriesKeepTheirPlace, FilesWhole
<1>2. \A c \in Candidates : c = n
  BY DEF Calm
<1>3. /\ e \in Entries /\ AppendEntry(n, e)
      /\ lsn' = [lsn EXCEPT ![n] = @ + 1]
      /\ puts' = [puts EXCEPT ![r] = [pc |-> "fanout", node |-> n,
                                     lsn |-> lsn[n] + 1, term |-> term[n]]]
      /\ calls' = [calls EXCEPT ![r] =
                     [p \in Node |-> IF p = n THEN "none" ELSE "sent"]]
      /\ UNCHANGED <<up, role, term, campaign, requests, heartbeats, beating,
                     acks>>
  BY <1>1 DEF WriteAndFanOut, LocalWrite, AppendLine, Entries
<1>4. /\ puts'[r].pc = "fanout" /\ puts'[r].node = n
      /\ puts'[r].lsn = lsn[n] + 1 /\ puts'[r].term = term[n]
      /\ \A q \in Req \ {r} : puts'[q] = puts[q] /\ calls'[q] = calls[q]
      /\ \A p \in Node : calls'[r][p] = IF p = n THEN "none" ELSE "sent"
  BY <1>1, <1>3
<1>5. \A q \in Req : puts[q].pc # "fanout"
  <2>1. SUFFICES ASSUME NEW q \in Req, puts[q].pc = "fanout" PROVE FALSE
    OBVIOUS
  <2>2. puts[q].node = n
    BY <1>2, <2>1 DEF WritersLead
  <2>3. QED BY <2>1, <2>2, RequestAssumption DEF LogInv, OneFanOutPerNode
<1>6. \A q \in Req, p \in Node : ~OnItsWay(q, p)
  BY <1>5 DEF FanOutSendsLast
<1>7. \A p \in Node : lsn[p] = lsn[n] /\ \A i \in DOMAIN wal[p] : wal[p][i] = wal[n][i]
  BY <1>6 DEF OneBehind
<1> HIDE DEF e
<1>8. /\ lsn'[n] = lsn[n] + 1 /\ wal'[n] = Append(wal[n], e)
      /\ \A p \in Node \ {n} : lsn'[p] = lsn[p] /\ wal'[p] = wal[p]
      /\ FilesWhole'
  BY <1>1, <1>3, CalmAppend
<1>9. /\ Len(wal[n]) = lsn[n] /\ DOMAIN wal[n] = 1 .. lsn[n]
      /\ wal'[n][lsn[n] + 1] = e /\ lsn[n] \in Nat
      /\ \A i \in 1 .. lsn[n] : wal'[n][i] = wal[n][i]
  <2>1. wal[n] \in Seq(Entries) /\ e \in Entries
    BY <1>1, <1>3
  <2>2. QED BY <1>1, <1>8, <2>1
<1>10. OneTerm'
  BY <1>3 DEF OneTerm
<1>11. WritersLead'
  BY <1>3, <1>4 DEF WritersLead
<1>12. FanOutSendsLast'
  <2>1. EntryOf(r)' = e
    BY <1>4 DEF EntryOf, e
  <2>2. QED
    BY <1>3, <1>4, <1>5, <1>6, <1>8, <1>9, <2>1
    DEF FanOutSendsLast, OnItsWay, Peers
<1>13. OneBehind'
  <2>1. \A p \in Node : (\E q \in Req : OnItsWay(q, p))' <=> p # n
    <3>1. \A p \in Node, q \in Req \ {r} : ~OnItsWay(q, p)'
      BY <1>4, <1>6 DEF OnItsWay
    <3>2. \A p \in Node : OnItsWay(r, p)' <=> p # n
      BY <1>4 DEF OnItsWay
    <3>3. QED BY <3>1, <3>2
  <2>2. \A p \in Node : \A i \in DOMAIN wal'[p] : wal'[p][i] = wal'[n][i]
    <3>1. SUFFICES ASSUME NEW p \in Node, p # n, NEW i \in DOMAIN wal[p]
                   PROVE  wal[p][i] = wal'[n][i]
      BY <1>8
    <3>2. i \in 1 .. lsn[n]
      <4>1. wal[p] \in Seq(Entries) /\ Len(wal[p]) = lsn[n]
        BY <1>1, <1>7
      <4>2. QED BY <3>1, <4>1
    <3>3. QED BY <1>7, <1>9, <3>1, <3>2
  <2>3. \A p \in Node : lsn'[p] = IF p # n THEN lsn'[n] - 1 ELSE lsn'[n]
    BY <1>7, <1>8, <1>9
  <2>4. QED BY <1>2, <2>1, <2>2, <2>3 DEF OneBehind
<1>14. QED BY <1>8, <1>10, <1>11, <1>12, <1>13

(* When the fan-out ends every follower has acknowledged.                  *)
LEMMA CalmReturn ==
  ASSUME ClusterInv, Calm, CalmInv, NEW r \in Req, PutReturns(r)
  PROVE  CalmInv'
<1> DEFINE w == puts[r].node
<1> USE DEF CalmInv
<1>1. /\ puts \in [Req -> Puts] /\ acks \in [Req -> SUBSET Node]
  BY DEF ClusterInv, WriteInv, ClusterTypeOK
<1>2. /\ puts[r].pc = "fanout" /\ w \in Candidates /\ w \in Node
      /\ \A p \in Peers(w) : calls[r][p] = "done"
      /\ puts' = [puts EXCEPT ![r].pc = IF MajorityAcked(r) THEN "ok" ELSE "failed"]
      /\ UNCHANGED <<electionVars, fileVars, calls, acks>>
  BY FaultAssumption DEF PutReturns, FanoutEnds, Calm, WritersLead
<1>3. MajorityAcked(r)
  <2>1. Peers(w) \subseteq acks[r] /\ acks[r] \subseteq Node
    BY <1>1, <1>2 DEF FanOutSendsLast
  <2>2. IsFiniteSet(Node) /\ IsFiniteSet(acks[r])
    BY <2>1, NodeAssumption, FS_Subset
  <2>3. Cardinality(Peers(w)) <= Cardinality(acks[r])
    BY <2>1, <2>2, FS_Subset
  <2>4. Cardinality(Peers(w)) = Cardinality(Node) - 1
    BY <1>2, <2>2, FS_RemoveElement DEF Peers
  <2>5. /\ Cardinality(Node) \in Nat /\ Cardinality(acks[r]) \in Nat
        /\ Majority <= Cardinality(Node)
    BY <2>2, FS_CardinalityType DEF Calm
  <2>6. QED BY <2>3, <2>4, <2>5, MajorityAssumption DEF MajorityAcked
<1>4. /\ puts'[r].pc = "ok"
      /\ puts'[r].node = w /\ puts'[r].term = puts[r].term
      /\ \A q \in Req \ {r} : puts'[q] = puts[q]
  BY <1>1, <1>2, <1>3 DEF Puts
<1>5. \A p \in Node : ~OnItsWay(r, p)
  <2>1. calls[r][w] = "none"
    BY <1>2 DEF ClusterInv, WriteInv, CallsFollowWrites
  <2>2. QED BY <1>2, <2>1 DEF OnItsWay, Peers
<1>6. FilesWhole' /\ OneTerm' /\ OneBehind'
  BY <1>2 DEF FilesWhole, OneTerm, OneBehind, OnItsWay
<1>7. WritersLead'
  BY <1>2, <1>4 DEF WritersLead
<1>8. FanOutSendsLast'
  BY <1>2, <1>4, <1>5 DEF FanOutSendsLast, OnItsWay, EntryOf
<1>9. QED BY <1>6, <1>7, <1>8

(* A follower takes the entry of its leader: it is neither stale nor out   *)
(* of order, and the fan-out gets the answer.                              *)
LEMMA CalmApplies ==
  ASSUME ClusterInv, LogInv, Calm, CalmInv, NEW r \in Req, NEW n \in Node,
         NEW reply \in BOOLEAN, ReplicateApplies(r, n, reply)
  PROVE  CalmInv'
<1> DEFINE w == puts[r].node
           e == EntryOf(r)
<1> USE DEF CalmInv
<1>1. /\ puts \in [Req -> Puts] /\ calls \in [Req -> [Node -> CallStates]]
      /\ acks \in [Req -> SUBSET Node]
      /\ wal \in [Node -> Seq(Entries)] /\ lsn \in [Node -> 0 .. MaxLsn]
      /\ term \in [Node -> 0 .. MaxTerm] /\ role \in [Node -> {"leader", "follower"}]
      /\ \A p \in Node : lsn[p] = Len(wal[p])
  BY DEF ClusterInv, WriteInv, ClusterTypeOK, ElectionTypeOK, LogInv,
         EntriesKeepTheirPlace, FilesWhole
<1>2. OnItsWay(r, n)
  BY DEF ReplicateApplies, MayApply, GetsLock, OnItsWay, WritersLead
<1>3. /\ puts[r].pc = "fanout" /\ w \in Candidates /\ w \in Node
      /\ n \notin Candidates /\ n # w /\ role[n] = "follower"
      /\ puts[r].term = term[w] /\ term[n] <= puts[r].term
      /\ puts[r].lsn = lsn[n] + 1 /\ puts[r].lsn = lsn[w]
      /\ wal[w][puts[r].lsn] = e
  BY <1>2, CalmCalls, FaultAssumption
<1>4. \A c \in Candidates : c = w
  BY <1>3 DEF Calm
<1>5. MaxOf(term[n], puts[r].term) = term[w]
  BY <1>1, <1>3 DEF MaxOf
<1>6. /\ term' = [term EXCEPT ![n] = term[w]]
      /\ role' = [role EXCEPT ![n] = "follower"]
      /\ lsn' = [lsn EXCEPT ![n] = @ + 1]
      /\ AppendEntry(n, e)
      /\ acks' = [acks EXCEPT ![r] = @ \cup {n}]
      /\ calls' = [calls EXCEPT ![r][n] = "done"]
      /\ UNCHANGED <<up, campaign, requests, heartbeats, beating, puts>>
  BY <1>3, <1>5
  DEF ReplicateApplies, EntryAppended, SeeEntry, AppendLine, NextInLog, Calm,
      RoleAt, BeatingAt
<1> e \in Entries
  BY <1>1, <1>3 DEF EntryOf, Entries
<1> HIDE DEF e
<1>6a. FilesWhole' /\ wal' = [wal EXCEPT ![n] = Append(@, e)]
  BY <1>6, CalmAppend
<1>7. /\ \A p \in Node : lsn'[p] = IF p = n THEN lsn[n] + 1 ELSE lsn[p]
      /\ \A p \in Node : term'[p] = IF p = n THEN term[w] ELSE term[p]
      /\ \A p \in Node : role'[p] = role[p]
      /\ \A p \in Node : p # n => wal'[p] = wal[p]
      /\ \A q \in Req, p \in Node :
           calls'[q][p] = IF q = r /\ p = n THEN "done" ELSE calls[q][p]
      /\ \A q \in Req : acks'[q] = IF q = r THEN acks[q] \cup {n} ELSE acks[q]
  BY <1>1, <1>3, <1>6, <1>6a
<1>8. /\ DOMAIN wal'[n] = 1 .. lsn[n] + 1 /\ DOMAIN wal[n] = 1 .. lsn[n]
      /\ wal'[n][lsn[n] + 1] = e /\ lsn[n] \in Nat
      /\ \A i \in 1 .. lsn[n] : wal'[n][i] = wal[n][i]
  <2>1. /\ wal[n] \in Seq(Entries) /\ wal'[n] = Append(wal[n], e)
        /\ Len(wal[n]) = lsn[n]
    BY <1>1, <1>6a
  <2>2. QED BY <2>1
<1>9. OneTerm'
  <2>1. \A p \in Node, c \in Candidates : term'[p] <= term'[c] /\ term'[c] = term[c]
    <3>1. \A p \in Node : term[p] \in Int /\ term[p] <= term[w]
      BY <1>1, <1>3 DEF OneTerm
    <3>2. term'[w] = term[w]
      BY <1>3, <1>7
    <3>3. \A p \in Node : term'[p] <= term[w]
      BY <1>3, <1>7, <3>1
    <3>4. QED BY <1>4, <3>2, <3>3
  <2>2. QED BY <1>3, <1>6, <1>7, <2>1, FaultAssumption DEF OneTerm
<1>10. WritersLead'
  BY <1>3, <1>4, <1>6, <1>7, FaultAssumption DEF WritersLead
<1>11. \A q \in Req, p \in Node :
         OnItsWay(q, p)' <=> OnItsWay(q, p) /\ ~(q = r /\ p = n)
  BY <1>7 DEF OnItsWay
<1>12. FanOutSendsLast'
  <2>1. ASSUME NEW q \in Req, puts[q].pc = "fanout"
        PROVE  /\ puts[q].node = w
               /\ puts[q].lsn = lsn'[w] /\ wal'[w][lsn'[w]] = EntryOf(q)
               /\ \A p \in Peers(w) :
                    /\ calls'[q][p] # "none"
                    /\ calls'[q][p] = "done" => p \in acks'[q]
    <3>1. puts[q].node = w
      BY <1>4, <2>1 DEF WritersLead
    <3>2. /\ puts[q].lsn = lsn[w] /\ wal[w][lsn[w]] = EntryOf(q)
          /\ \A p \in Peers(w) :
               /\ calls[q][p] # "none"
               /\ calls[q][p] = "done" => p \in acks[q]
      BY <2>1, <3>1 DEF FanOutSendsLast
    <3>3. lsn'[w] = lsn[w] /\ wal'[w] = wal[w]
      BY <1>3, <1>7
    <3>4. ASSUME NEW p \in Peers(w)
          PROVE  /\ calls'[q][p] # "none"
                 /\ calls'[q][p] = "done" => p \in acks'[q]
      <4>1. p \in Node
        BY <3>4 DEF Peers
      <4>2. CASE q = r /\ p = n
        BY <1>7, <4>1, <4>2
      <4>3. CASE ~(q = r /\ p = n)
        <5>1. calls'[q][p] = calls[q][p] /\ acks[q] \subseteq acks'[q]
          BY <1>7, <4>1, <4>3
        <5>2. QED BY <3>2, <5>1
      <4>4. QED BY <4>2, <4>3
    <3>5. QED BY <3>1, <3>2, <3>3, <3>4
  <2>2. QED BY <1>6, <1>11, <2>1 DEF FanOutSendsLast, EntryOf
<1>13. OneBehind'
  <2>1. \A q \in Req : q # r => ~OnItsWay(q, n)
    <3>1. SUFFICES ASSUME NEW q \in Req, q # r, OnItsWay(q, n) PROVE FALSE
      OBVIOUS
    <3>2. puts[q].pc = "fanout" /\ puts[q].node = w
      BY <1>4, <3>1, CalmCalls
    <3>3. QED BY <1>3, <3>1, <3>2 DEF LogInv, OneFanOutPerNode
  <2>2. ~(\E q \in Req : OnItsWay(q, n))'
    BY <1>11, <2>1
  <2>3. \A p \in Node \ {n} :
          (\E q \in Req : OnItsWay(q, p))' <=> \E q \in Req : OnItsWay(q, p)
    BY <1>11
  <2>4. \A p \in Node :
          lsn'[p] = IF (\E q \in Req : OnItsWay(q, p))' THEN lsn'[w] - 1
                                                        ELSE lsn'[w]
    BY <1>3, <1>7, <2>2, <2>3 DEF OneBehind
  <2>5. \A p \in Node : \A i \in DOMAIN wal'[p] : wal'[p][i] = wal'[w][i]
    <3>1. \A p \in Node : \A i \in DOMAIN wal[p] : wal[p][i] = wal[w][i]
      BY <1>3 DEF OneBehind
    <3>2. wal'[w] = wal[w] /\ \A p \in Node : p # n => wal'[p] = wal[p]
      BY <1>3, <1>7
    <3>3. ASSUME NEW i \in DOMAIN wal'[n] PROVE wal'[n][i] = wal[w][i]
      <4>1. CASE i = lsn[n] + 1
        BY <1>3, <1>8, <4>1
      <4>2. CASE i \in 1 .. lsn[n]
        BY <1>8, <3>1, <4>2
      <4>3. QED BY <1>8, <4>1, <4>2
    <3>4. QED BY <3>1, <3>2, <3>3
  <2>6. QED BY <1>4, <2>4, <2>5 DEF OneBehind
<1>14. QED BY <1>9, <1>10, <1>12, <1>13, <1>6a

LEMMA CalmInvInit == ClusterInit => CalmInv
<1>1. SUFFICES ASSUME ClusterInit PROVE CalmInv
  OBVIOUS
<1>2. \A r \in Req : puts[r].pc = "new" /\ \A n \in Node : calls[r][n] = "none"
  BY <1>1 DEF ClusterInit, NewPut
<1>3. \A n \in Node : lsn[n] = 0 /\ DOMAIN wal[n] = {}
  <2>1. \A n \in Node : wal[n] = << >> /\ lsn[n] = 0
    BY <1>1 DEF ClusterInit, ElectionInit
  <2>2. QED BY <2>1
<1>4. OneTerm
  BY <1>1, FaultAssumption DEF ClusterInit, ElectionInit, OneTerm, NoCampaign
<1>5. FilesWhole
  BY <1>1 DEF ClusterInit, FilesWhole
<1>6. QED
  BY <1>2, <1>3, <1>4, <1>5, FaultAssumption
  DEF CalmInv, WritersLead, FanOutSendsLast, OneBehind, OnItsWay

LEMMA CalmInvStep ==
  ClusterInv /\ LogInv /\ Calm /\ CalmInv /\ [ClusterNext]_clusterVars
    => CalmInv'
<1>1. SUFFICES ASSUME ClusterInv, LogInv, Calm, CalmInv,
                      [ClusterNext]_clusterVars
               PROVE  CalmInv'
  OBVIOUS
<1>2. CASE UNCHANGED clusterVars
  BY <1>1, <1>2
  DEF clusterVars, CalmInv, FilesWhole, OneTerm, WritersLead, FanOutSendsLast, OneBehind,
      OnItsWay, EntryOf
<1>3. CASE ElectionStep
  BY <1>1, <1>3, CalmElection
<1>4. ASSUME NEW r \in Req, PutReturns(r) PROVE CalmInv'
  BY <1>1, <1>4, CalmReturn
<1>5. ASSUME NEW r \in Req, NEW n \in Node,
             PutArrives(r, n) \/ ReplicateArrives(r, n)
      PROVE  CalmInv'
  BY <1>1, <1>5, CalmArrives
<1>6. ASSUME NEW r \in Req, NEW n \in Node, PutAtOnce(r, n) \/ PutResumes(r, n)
      PROVE  CalmInv'
  <2>1. /\ puts[r].pc \in {"new", "queued"} /\ lock[n] = NoReq
        /\ WriteAndFanOut(r, n)
    BY <1>6 DEF PutAtOnce, PutResumes, RunsAtOnce, LockFree
  <2>2. n \in Candidates /\ role[n] = "leader"
    BY <1>1, <1>6 DEF PutAtOnce, PutResumes, CalmInv, OneTerm, WritersLead
  <2>3. QED BY <1>1, <2>1, <2>2, CalmWrite
<1>7. ASSUME NEW r \in Req, NEW n \in Node,
             \/ ReplicateLost(r, n) \/ ReplicateStale(r, n)
             \/ ReplicateDeposes(r, n)
      PROVE  FALSE
  <2>1. OnItsWay(r, n)
    BY <1>7 DEF ReplicateLost, ReplicateStale, ReplicateDeposes, GetsLock,
                OnItsWay
  <2>2. /\ term[n] <= puts[r].term /\ role[n] = "follower"
        /\ puts[r].term = term[puts[r].node] /\ puts[r].node \in Node
    BY <1>1, <2>1, CalmCalls, FaultAssumption
  <2>3. term[n] \in Int /\ puts[r].term \in Int
    BY <2>2, <1>1 DEF ClusterInv, ElectionInv, ElectionTypeOK
  <2>4. up[n] /\ ~MayTimeOut
    BY <1>1 DEF Calm, CalmInv, OneTerm
  <2>5. QED
    BY <1>7, <2>2, <2>3, <2>4
    DEF ReplicateLost, ReplicateStale, ReplicateDeposes, NotStale,
        StepsDownFor
<1>8. ASSUME NEW r \in Req, NEW n \in Node, NEW reply \in BOOLEAN,
             ReplicateApplies(r, n, reply)
      PROVE  CalmInv'
  BY <1>1, <1>8, CalmApplies
<1>9. ASSUME NEW n \in Node, NEW w \in Req \cup {NoReq},
             NodeCrash(n, w) \/ NodeRestart(n)
      PROVE  FALSE
  BY <1>1, <1>9, CalmNeverCrashes DEF CalmInv, OneTerm, NodeRestart, Restart
<1>10. ASSUME NEW n \in Node, InjectDelay(n) PROVE CalmInv'
  BY <1>1, <1>10
  DEF InjectDelay, CalmInv, FilesWhole, OneTerm, WritersLead, FanOutSendsLast, OneBehind,
      OnItsWay, EntryOf
<1>11. QED
  BY <1>1, <1>2, <1>3, <1>4, <1>5, <1>6, <1>7, <1>8, <1>9, <1>10
  DEF ClusterNext, WriteStep

(* Where nothing fails, the one candidate leads for good and its followers *)
(* are at most one entry behind.                                           *)
THEOREM CalmInvariant == ClusterSpec => [](Calm => CalmInv)
<1>1. ClusterInit => (Calm => CalmInv)
  BY CalmInvInit
<1>2. ClusterInv /\ LogInv /\ (Calm => CalmInv) /\ [ClusterNext]_clusterVars
        => (Calm => CalmInv)'
  BY CalmInvStep DEF Calm
<1>3. QED BY <1>1, <1>2, ClusterInvariant, LogInvariant, PTL DEF ClusterSpec

(* Where nothing fails no write is refused or lost, and the followers'     *)
(* locks are free: no fan-out waits for a handler that waits in turn.      *)
THEOREM CalmWritesStored == ClusterSpec => []CalmWritesGoOn
<1>1. ClusterInv /\ LogInv /\ (Calm => CalmInv) => CalmFanOutsGoOn
  <2>1. SUFFICES ASSUME ClusterInv, LogInv, Calm, CalmInv, NEW r \in Req,
                        puts[r].pc = "fanout", ~FanoutEnds(r)
                 PROVE  \E n \in Peers(puts[r].node) :
                          \/ calls[r][n] = "sent"
                          \/ calls[r][n] = "queued" /\ LockFree(n)
    BY DEF CalmFanOutsGoOn
  <2>2. PICK n \in Peers(puts[r].node) : calls[r][n] # "done"
    BY <2>1 DEF FanoutEnds
  <2>3. n \in Node /\ n # puts[r].node
    BY <2>2 DEF Peers
  <2>4. calls[r][n] \in {"sent", "queued"}
    <3>1. calls[r][n] # "none" /\ calls[r][n] # "locked"
      BY <2>1, <2>2, <2>3 DEF CalmInv, FanOutSendsLast, WritersLead
    <3>2. calls[r][n] \in CallStates
      BY <2>1, <2>3 DEF ClusterInv, WriteInv, ClusterTypeOK
    <3>3. QED BY <2>2, <3>1, <3>2 DEF CallStates
  <2>5. lock[n] = NoReq
    <3>1. SUFFICES ASSUME lock[n] # NoReq PROVE FALSE
      OBVIOUS
    <3>2. lock[n] \in Req
      BY <2>1, <2>3, <3>1 DEF ClusterInv, WriteInv, ClusterTypeOK
    <3>3. puts[lock[n]].pc = "fanout" /\ puts[lock[n]].node = n
      BY <2>1, <2>3, <3>1, <3>2
      DEF LogInv, LocksAreOwned, CalmInv, WritersLead
    <3>4. n \in Candidates /\ puts[r].node \in Candidates
      BY <2>1, <3>2, <3>3 DEF CalmInv, WritersLead
    <3>5. QED BY <2>1, <2>3, <3>4 DEF Calm
  <2>6. QED BY <2>2, <2>4, <2>5 DEF LockFree
<1>2. (Calm => CalmInv) => CalmPutsNeverFail
  BY DEF CalmInv, WritersLead, CalmPutsNeverFail
<1>3. ClusterInv /\ LogInv /\ (Calm => CalmInv) => CalmWritesGoOn
  BY <1>1, <1>2 DEF CalmWritesGoOn
<1>4. QED BY <1>3, ClusterInvariant, LogInvariant, CalmInvariant, PTL

(* The WALs of the nodes are one log, cut at most one entry short, where   *)
(* nothing fails.                                                          *)
THEOREM CalmLogsAreOne == ClusterSpec => []CalmLogsAgree
<1>1. ClusterInv /\ LogInv /\ (Calm => CalmInv) => CalmLogsAgree
  <2>1. SUFFICES ASSUME ClusterInv, LogInv, CalmInv, NEW m \in Node, NEW n \in Node
                 PROVE  /\ Len(wal[m]) <= Len(wal[n]) + 1
                        /\ \A i \in DOMAIN wal[m] \cap DOMAIN wal[n] :
                             wal[m][i] = wal[n][i]
    BY DEF CalmLogsAgree
  <2>2. /\ wal[m] \in Seq(Entries) /\ wal[n] \in Seq(Entries)
        /\ Len(wal[m]) = lsn[m] /\ Len(wal[n]) = lsn[n]
    BY <2>1 DEF CalmInv, FilesWhole, LogInv, EntriesKeepTheirPlace
  <2>3. CASE Candidates = {}
    <3>1. SUFFICES ASSUME wal[m] # << >> PROVE FALSE
      BY <2>2
    <3>2. 1 \in DOMAIN wal[m] /\ wal[m][1].req \in Req
      <4>1. 1 \in DOMAIN wal[m] /\ wal[m][1] \in Entries
        BY <2>2, <3>1
      <4>2. QED BY <4>1 DEF Entries
    <3>3. puts[wal[m][1].req].pc # "new"
      BY <2>1, <3>2 DEF LogInv, UnwrittenNowhere, Holds
    <3>4. QED BY <2>1, <2>3, <3>2, <3>3 DEF CalmInv, WritersLead
  <2>4. ASSUME NEW c \in Candidates
        PROVE  /\ Len(wal[m]) <= Len(wal[n]) + 1
               /\ \A i \in DOMAIN wal[m] \cap DOMAIN wal[n] :
                    wal[m][i] = wal[n][i]
    <3>1. /\ lsn[m] \in {lsn[c] - 1, lsn[c]} /\ lsn[n] \in {lsn[c] - 1, lsn[c]}
          /\ \A i \in DOMAIN wal[m] : wal[m][i] = wal[c][i]
          /\ \A i \in DOMAIN wal[n] : wal[n][i] = wal[c][i]
      BY <2>1, <2>4 DEF CalmInv, OneBehind
    <3>2. lsn[c] \in Int
      BY <2>1, <2>4, FaultAssumption DEF ClusterInv, ElectionInv, ElectionTypeOK
    <3>3. Len(wal[m]) <= Len(wal[n]) + 1
      BY <2>2, <3>1, <3>2
    <3>4. \A i \in DOMAIN wal[m] \cap DOMAIN wal[n] : wal[m][i] = wal[n][i]
      BY <3>1
    <3>5. QED BY <3>3, <3>4
  <2>5. QED BY <2>3, <2>4
<1>2. QED BY <1>1, ClusterInvariant, LogInvariant, CalmInvariant, PTL
=============================================================================
