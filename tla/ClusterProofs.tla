--------------------------- MODULE ClusterProofs ---------------------------
(***************************************************************************)
(* Theorems about Cluster.tla, for every set of nodes and requests: its    *)
(* steps are steps of Election.tla, so that all theorems of ElectionProofs *)
(* hold for the whole cluster, and a confirmed write is on a majority of   *)
(* the nodes, but for one copy at most for each line that a crash has cut, *)
(* as QuorumStore.tla promises.                                            *)
(***************************************************************************)
EXTENDS Cluster, ElectionProofs

\* Tuples of variables are only abbreviations in UNCHANGED.
USE DEF roleVars, walVars, historyVars, electionVars, fileVars, writeVars

-----------------------------------------------------------------------------
(* The inductive invariant.                                                *)

\* A put_kv handler waits only in a process that has led some term.
QueuedAtElected ==
  \A r \in Req : puts[r].pc = "queued" =>
    /\ puts[r].node \in Node
    /\ up[puts[r].node] /\ term[puts[r].node] >= 1

\* Only a written entry is sent, in a term that was elected, and never to
\* the node that wrote it.
CallsFollowWrites ==
  \A r \in Req, n \in Node : calls[r][n] # "none" =>
    /\ puts[r].pc \notin {"new", "queued"}
    /\ puts[r].term \in Terms
    /\ puts[r].node # n
    /\ [from |-> puts[r].node, term |-> puts[r].term] \in entries

AcksFollowWrites ==
  \A r \in Req : \A n \in acks[r] :
    puts[r].pc \notin {"new", "queued"} /\ puts[r].node # n

Written == {"fanout", "ok", "failed"}
WritersAreNodes == \A r \in Req : puts[r].pc \in Written => puts[r].node \in Node

ConfirmedByMajority ==
  \A r \in Req : puts[r].pc = "ok" => MajorityAcked(r)

\* The running process counts every line; replay will count up to walLsn.
LinesMatchLsns ==
  \A n \in Node :
    /\ lsn[n] = Len(wal[n]) /\ walLsn[n] <= Len(wal[n])
    /\ \A i \in DOMAIN wal[n] : i > walLsn[n] => wal[n][i] = Unreadable

\* The nodes that have said they persisted the entry of r: the peers that
\* answered 200, and the node that wrote it.
Signed(r) ==
  acks[r] \cup {n \in Node : n = puts[r].node /\ puts[r].pc \in Written}

\* What a node has signed and replay would not find.
Missing ==
  {p \in Node \X Req : p[1] \in Signed(p[2]) /\ ~Holds(p[1], p[2])}

\* Each cut line has spoilt one entry at most, and none while it is the end
\* of the file.
LossesAreCuts ==
  IsFiniteSet(Missing) /\ Cardinality(Missing) + Cardinality(torn) <= tears

FileInv == torn \subseteq forgot /\ LinesMatchLsns /\ LossesAreCuts

WriteInv ==
  /\ ClusterTypeOK
  /\ QueuedAtElected
  /\ CallsFollowWrites
  /\ AcksFollowWrites
  /\ WritersAreNodes
  /\ ConfirmedByMajority
  /\ FileInv

ClusterInv == ElectionInv /\ WriteInv

-----------------------------------------------------------------------------
(* A WAL that gains a line holds what it held before, and the entry if the *)
(* line can be read.                                                       *)
LEMMA AppendHolds ==
  ASSUME wal \in [Node -> Seq(Lines)],
         NEW n \in Node, NEW e \in Lines,
         wal' = [wal EXCEPT ![n] = Append(@, e)]
  PROVE  /\ wal' \in [Node -> Seq(Lines)]
         /\ \A p \in Node, r \in Req :
              Holds(p, r)' <=> Holds(p, r) \/ (p = n /\ r = e.req)
<1>1. wal' \in [Node -> Seq(Lines)]
  OBVIOUS
<1>2. ASSUME NEW p \in Node, NEW r \in Req, p # n
      PROVE  Holds(p, r)' <=> Holds(p, r)
  BY <1>2 DEF Holds
<1>3. ASSUME NEW r \in Req
      PROVE  Holds(n, r)' <=> Holds(n, r) \/ r = e.req
  <2>1. /\ wal[n] \in Seq(Lines)
        /\ wal'[n] = Append(wal[n], e)
    OBVIOUS
  <2>2. /\ DOMAIN wal'[n] = 1 .. Len(wal[n]) + 1
        /\ DOMAIN wal[n] = 1 .. Len(wal[n])
        /\ Len(wal[n]) \in Nat
        /\ wal'[n][Len(wal[n]) + 1] = e
        /\ \A i \in 1 .. Len(wal[n]) : wal'[n][i] = wal[n][i]
    BY <2>1
  <2>3. ASSUME Holds(n, r)' PROVE Holds(n, r) \/ r = e.req
    <3>1. PICK i \in DOMAIN wal'[n] : wal'[n][i].req = r
      BY <2>3 DEF Holds
    <3>2. CASE i = Len(wal[n]) + 1
      BY <2>2, <3>1, <3>2
    <3>3. CASE i \in 1 .. Len(wal[n])
      BY <2>2, <3>1, <3>3 DEF Holds
    <3>4. QED BY <2>2, <3>1, <3>2, <3>3
  <2>4. ASSUME Holds(n, r) PROVE Holds(n, r)'
    <3>1. PICK i \in DOMAIN wal[n] : wal[n][i].req = r
      BY <2>4 DEF Holds
    <3>2. i \in DOMAIN wal'[n] /\ wal'[n][i].req = r
      BY <2>2, <3>1
    <3>3. QED BY <3>2 DEF Holds
  <2>5. ASSUME r = e.req PROVE Holds(n, r)'
    <3>1. /\ Len(wal[n]) + 1 \in DOMAIN wal'[n]
          /\ wal'[n][Len(wal[n]) + 1].req = r
      BY <2>2, <2>5
    <3>2. QED BY <3>1 DEF Holds
  <2>6. QED BY <2>3, <2>4, <2>5
<1>4. QED BY <1>1, <1>2, <1>3

LEMMA AppendEntryHolds ==
  ASSUME wal \in [Node -> Seq(Lines)],
         NEW n \in Node, NEW e \in Entries, AppendEntry(n, e)
  PROVE  /\ wal' \in [Node -> Seq(Lines)]
         /\ \A p \in Node, r \in Req :
              Holds(p, r)' <=>
          Holds(p, r) \/ (n \notin torn /\ p = n /\ r = e.req)
<1> DEFINE line == IF n \in torn THEN Unreadable ELSE e
<1>1. line \in Lines
  BY DEF Lines
<1>2. wal' = [wal EXCEPT ![n] = Append(@, line)]
  BY DEF AppendEntry
<1>3. \A r \in Req : r = line.req <=> n \notin torn /\ r = e.req
  BY RequestAssumption DEF Unreadable
<1> HIDE DEF line
<1>4. /\ wal' \in [Node -> Seq(Lines)]
      /\ \A p \in Node, r \in Req :
           Holds(p, r)' <=> Holds(p, r) \/ (p = n /\ r = line.req)
  BY <1>1, <1>2, AppendHolds
<1>5. QED BY <1>3, <1>4

(* A line appended with the next LSN keeps lines and LSNs in step.         *)
LEMMA AppendKeepsLines ==
  ASSUME ClusterTypeOK, LinesMatchLsns, NEW n \in Node, NEW e \in Entries,
         AppendEntry(n, e),
         lsn' = [lsn EXCEPT ![n] = @ + 1],
         walLsn' = [walLsn EXCEPT ![n] = IF n \notin torn THEN lsn[n] + 1 ELSE @]
  PROVE  LinesMatchLsns'
<1> DEFINE line == IF n \in torn THEN Unreadable ELSE e
<1>1. /\ wal \in [Node -> Seq(Lines)] /\ line \in Lines
      /\ lsn \in [Node -> 0 .. MaxLsn] /\ walLsn \in [Node -> 0 .. MaxLsn]
      /\ wal' = [wal EXCEPT ![n] = Append(@, line)]
  BY DEF ClusterTypeOK, ElectionTypeOK, AppendEntry, Lines
<1>2. ASSUME NEW p \in Node, p # n
      PROVE  /\ lsn'[p] = Len(wal'[p]) /\ walLsn'[p] <= Len(wal'[p])
             /\ \A i \in DOMAIN wal'[p] : i > walLsn'[p] => wal'[p][i] = Unreadable
  <2>1. wal'[p] = wal[p] /\ lsn'[p] = lsn[p] /\ walLsn'[p] = walLsn[p]
    BY <1>1, <1>2
  <2>2. QED BY <2>1 DEF LinesMatchLsns
<1>3. /\ lsn'[n] = Len(wal'[n]) /\ walLsn'[n] <= Len(wal'[n])
      /\ \A i \in DOMAIN wal'[n] : i > walLsn'[n] => wal'[n][i] = Unreadable
  <2>1. /\ wal[n] \in Seq(Lines) /\ wal'[n] = Append(wal[n], line)
        /\ lsn[n] = Len(wal[n]) /\ walLsn[n] <= Len(wal[n])
        /\ lsn'[n] = lsn[n] + 1 /\ walLsn[n] \in Nat
        /\ walLsn'[n] = IF n \notin torn THEN lsn[n] + 1 ELSE walLsn[n]
        /\ \A i \in DOMAIN wal[n] : i > walLsn[n] => wal[n][i] = Unreadable
    BY <1>1, BoundAssumption DEF LinesMatchLsns
  <2>2. n \in torn => line = Unreadable
    OBVIOUS
  <2> HIDE DEF line
  <2>3. /\ DOMAIN wal'[n] = 1 .. Len(wal[n]) + 1
        /\ DOMAIN wal[n] = 1 .. Len(wal[n])
        /\ Len(wal[n]) \in Nat /\ Len(wal'[n]) = Len(wal[n]) + 1
        /\ wal'[n][Len(wal[n]) + 1] = line
        /\ \A i \in 1 .. Len(wal[n]) : wal'[n][i] = wal[n][i]
    BY <1>1, <2>1
  <2>4. ASSUME NEW i \in DOMAIN wal'[n], i > walLsn'[n]
        PROVE  wal'[n][i] = Unreadable
    <3>1. n \in torn /\ i > walLsn[n]
      BY <2>1, <2>3, <2>4
    <3>2. CASE i = Len(wal[n]) + 1
      BY <2>2, <2>3, <3>1, <3>2
    <3>3. CASE i \in 1 .. Len(wal[n])
      BY <2>1, <2>3, <3>1, <3>3
    <3>4. QED BY <2>3, <3>2, <3>3
  <2>5. QED BY <2>1, <2>3, <2>4
<1>4. QED BY <1>2, <1>3 DEF LinesMatchLsns

(* Replay: nothing that can be read is lost.                               *)
LEMMA ReplayHolds ==
  ASSUME ClusterTypeOK, LinesMatchLsns, NEW n \in Node, NodeRestart(n)
  PROVE  /\ wal' \in [Node -> Seq(Lines)]
         /\ LinesMatchLsns'
         /\ \A p \in Node, r \in Req : Holds(p, r)' <=> Holds(p, r)
<1>1. /\ wal \in [Node -> Seq(Lines)] /\ walLsn[n] \in Nat
      /\ lsn \in [Node -> 0 .. MaxLsn]
      /\ wal' = [wal EXCEPT ![n] = SubSeq(@, 1, walLsn[n])]
      /\ lsn' = [lsn EXCEPT ![n] = walLsn[n]] /\ walLsn' = walLsn
  BY BoundAssumption DEF ClusterTypeOK, ElectionTypeOK, NodeRestart, Restart
<1>2. /\ wal[n] \in Seq(Lines) /\ walLsn[n] <= Len(wal[n])
      /\ \A i \in DOMAIN wal[n] : i > walLsn[n] => wal[n][i] = Unreadable
  BY <1>1 DEF LinesMatchLsns
<1>3. wal'[n] = SubSeq(wal[n], 1, walLsn[n])
  BY <1>1
<1>4. /\ wal'[n] \in Seq(Lines) /\ Len(wal'[n]) = walLsn[n]
      /\ DOMAIN wal'[n] = 1 .. walLsn[n]
      /\ DOMAIN wal[n] = 1 .. Len(wal[n]) /\ Len(wal[n]) \in Nat
      /\ \A i \in 1 .. walLsn[n] : wal'[n][i] = wal[n][i]
  BY <1>1, <1>2, <1>3
<1>5. wal' \in [Node -> Seq(Lines)]
  BY <1>1, <1>3, <1>4
<1>6. LinesMatchLsns'
  BY <1>1, <1>4 DEF LinesMatchLsns
<1>7. ASSUME NEW r \in Req PROVE Holds(n, r)' <=> Holds(n, r)
  <2>1. ASSUME NEW i \in DOMAIN wal[n], wal[n][i].req = r PROVE i \in DOMAIN wal'[n]
    BY <1>1, <1>2, <1>4, <2>1, RequestAssumption DEF Unreadable
  <2>2. \A i \in DOMAIN wal'[n] : i \in DOMAIN wal[n] /\ wal'[n][i] = wal[n][i]
    BY <1>1, <1>2, <1>4
  <2>3. ASSUME Holds(n, r) PROVE Holds(n, r)'
    <3>1. PICK i \in DOMAIN wal[n] : wal[n][i].req = r
      BY <2>3 DEF Holds
    <3>2. i \in DOMAIN wal'[n] /\ wal'[n][i].req = r
      BY <2>1, <2>2, <3>1
    <3>3. QED BY <3>2 DEF Holds
  <2>4. ASSUME Holds(n, r)' PROVE Holds(n, r)
    BY <2>2, <2>4 DEF Holds
  <2>5. QED BY <2>3, <2>4
<1>8. ASSUME NEW p \in Node, NEW r \in Req, p # n
      PROVE  Holds(p, r)' <=> Holds(p, r)
  BY <1>1, <1>8 DEF Holds
<1>9. QED BY <1>5, <1>6, <1>7, <1>8

-----------------------------------------------------------------------------
(* What is missing against what was cut: a step loses nothing, or loses    *)
(* one entry where a cut line was, or cuts one more line.                  *)
LEMMA LossStep ==
  ASSUME LossesAreCuts, torn \subseteq Node, tears \in Nat, NEW x, NEW n,
         \/ /\ Missing' \subseteq Missing /\ torn' \subseteq torn
            /\ tears' = tears
         \/ /\ Missing' \subseteq Missing \cup {x}
            /\ torn' = torn \ {n} /\ n \in torn /\ tears' = tears
         \/ /\ Missing' \subseteq Missing /\ torn' = torn \cup {n}
            /\ tears' = tears + 1
  PROVE  LossesAreCuts'
<1> DEFINE M == Missing
           M2 == Missing'
<1>1. IsFiniteSet(torn)
  <2>1. torn \in SUBSET Node
    OBVIOUS
  <2>2. QED BY <2>1, NodeAssumption, FS_Subset
<1>2. IsFiniteSet(M) /\ Cardinality(M) + Cardinality(torn) <= tears
  BY DEF LossesAreCuts
<1>3. Cardinality(M) \in Nat /\ Cardinality(torn) \in Nat
  BY <1>1, <1>2, FS_CardinalityType
<1>4. ASSUME NEW S, IsFiniteSet(S), M2 \subseteq S
      PROVE  /\ IsFiniteSet(M2) /\ Cardinality(M2) \in Nat
             /\ Cardinality(M2) <= Cardinality(S)
  <2>1. M2 \in SUBSET S
    BY <1>4
  <2> HIDE DEF M2
  <2>2. QED BY <1>4, <2>1, FS_Subset, FS_CardinalityType
<1> SUFFICES IsFiniteSet(M2) /\ Cardinality(M2) + Cardinality(torn') <= tears'
  BY DEF LossesAreCuts
<1>5. CASE M2 \subseteq M /\ torn' \subseteq torn /\ tears' = tears
  <2>1. torn' \in SUBSET torn
    BY <1>5
  <2>2. Cardinality(torn') \in Nat /\ Cardinality(torn') <= Cardinality(torn)
    BY <1>1, <2>1, FS_Subset, FS_CardinalityType
  <2>3. QED BY <1>2, <1>3, <1>4, <1>5, <2>2
<1>6. CASE /\ M2 \subseteq M \cup {x}
           /\ torn' = torn \ {n} /\ n \in torn /\ tears' = tears
  <2> HIDE DEF M
  <2>1. /\ IsFiniteSet(M \cup {x})
        /\ Cardinality(M \cup {x}) \in {Cardinality(M), Cardinality(M) + 1}
    BY <1>2, FS_AddElement
  <2>2. Cardinality(torn') = Cardinality(torn) - 1
    BY <1>1, <1>6, FS_RemoveElement
  <2>3. /\ IsFiniteSet(M2) /\ Cardinality(M2) \in Nat
        /\ Cardinality(M2) <= Cardinality(M \cup {x})
    BY <1>4, <1>6, <2>1
  <2>4. QED BY <1>2, <1>3, <1>6, <2>1, <2>2, <2>3
<1>7. CASE M2 \subseteq M /\ torn' = torn \cup {n} /\ tears' = tears + 1
  <2>1. Cardinality(torn') \in {Cardinality(torn), Cardinality(torn) + 1}
    BY <1>1, <1>7, FS_AddElement
  <2>2. /\ IsFiniteSet(M2) /\ Cardinality(M2) \in Nat
        /\ Cardinality(M2) <= Cardinality(M)
    BY <1>2, <1>4, <1>7
  <2>3. QED BY <1>2, <1>3, <1>7, <2>1, <2>2
<1>8. QED BY <1>5, <1>6, <1>7

(* Steps that leave the files alone and take no new signature.             *)
LEMMA QuietFiles ==
  ASSUME ClusterTypeOK, FileInv, UNCHANGED fileVars,
         UNCHANGED <<lsn, walLsn>>, forgot \subseteq forgot',
         \A r \in Req : Signed(r)' \subseteq Signed(r)
  PROVE  FileInv'
<1>1. LinesMatchLsns'
  BY DEF FileInv, LinesMatchLsns
<1>2. tears \in Nat /\ torn \subseteq Node
  BY BoundAssumption DEF ClusterTypeOK, ElectionTypeOK
<1>3. Missing' \subseteq Missing
  BY DEF Missing, Holds
<1>4. LossesAreCuts'
  BY <1>2, <1>3, LossStep DEF FileInv
<1>5. QED BY <1>1, <1>4 DEF FileInv

(* A line appended, and signed by its node.                                *)
LEMMA AppendFiles ==
  ASSUME ClusterTypeOK, FileInv, NEW n \in Node, NEW e \in Entries,
         AppendEntry(n, e), forgot' = forgot,
         lsn' = [lsn EXCEPT ![n] = @ + 1],
         walLsn' = [walLsn EXCEPT ![n] = IF n \notin torn THEN lsn[n] + 1 ELSE @],
         \A q \in Req : Signed(q)' \subseteq Signed(q) \cup (IF q = e.req THEN {n} ELSE {})
  PROVE  FileInv'
<1>1. LinesMatchLsns'
  BY AppendKeepsLines DEF FileInv
<1>2. /\ tears \in Nat /\ torn \subseteq Node /\ tears' = tears
      /\ torn' = torn \ {n} /\ wal \in [Node -> Seq(Lines)]
  BY BoundAssumption DEF ClusterTypeOK, ElectionTypeOK, AppendEntry
<1>3. \A p \in Node, r \in Req :
        Holds(p, r)' <=>
          Holds(p, r) \/ (n \notin torn /\ p = n /\ r = e.req)
  BY <1>2, AppendEntryHolds
<1>4. CASE n \in torn
  <2>1. Missing' \subseteq Missing \cup {<<n, e.req>>}
    BY <1>3, <1>4 DEF Missing
  <2>2. QED BY <1>1, <1>2, <1>4, <2>1, LossStep DEF FileInv
<1>5. CASE n \notin torn
  <2>1. Missing' \subseteq Missing
    BY <1>3, <1>5 DEF Missing
  <2>2. QED BY <1>1, <1>2, <1>5, <2>1, LossStep DEF FileInv
<1>6. QED BY <1>4, <1>5

-----------------------------------------------------------------------------
(* The term of a running process never falls back to zero.                 *)
LEMMA RunningTermStaysPositive ==
  ASSUME ElectionInv, ElectionNext, NEW p \in Node,
         up[p], up'[p], term[p] >= 1
  PROVE  term'[p] >= 1
<1> USE DEF ElectionInv
<1>1. term[p] \in 0 .. MaxTerm /\ 0 .. MaxTerm \subseteq Int
  BY DEF ElectionTypeOK
<1>2. ASSUME NEW n \in Node, StartElection(n) PROVE term'[p] >= 1
  BY <1>1, <1>2 DEF StartElection, ElectionTypeOK, Terms
<1>3. ASSUME NEW n \in Node, WinElection(n) PROVE term'[p] >= 1
  BY <1>1, <1>3
  DEF WinElection, ElectionTypeOK, CampaignsCountCastVotes, Terms
<1>4. ASSUME NEW n \in Node, LoseElection(n) PROVE term'[p] >= 1
  BY <1>1, <1>4 DEF LoseElection, ElectionTypeOK, Campaigns, MaxOf
<1>5. ASSUME NEW n \in Node,
             SendHeartbeat(n) \/ \E kept \in BOOLEAN : LocalWrite(n, kept)
      PROVE  term'[p] >= 1
  BY <1>5 DEF SendHeartbeat, LocalWrite
<1>6. ASSUME NEW n \in Node, Crash(n) \/ Restart(n) PROVE term'[p] >= 1
  BY <1>6 DEF Crash, Restart, ElectionTypeOK
<1>7. ASSUME NEW n \in Node, NEW h \in heartbeats, HandleHeartbeat(n, h)
      PROVE  term'[p] >= 1
  BY <1>1, <1>7 DEF HandleHeartbeat, ElectionTypeOK, Heartbeats, Terms
<1>8. ASSUME NEW n \in Node, NEW t \in Terms, SeeEntry(n, t)
      PROVE  term'[p] >= 1
  BY <1>1, <1>8 DEF SeeEntry, ElectionTypeOK, MaxOf, Terms
<1>9. ASSUME NEW m \in requests, NEW reply \in BOOLEAN, HandleVote(m, reply)
      PROVE  term'[p] >= 1
  BY <1>1, <1>9 DEF HandleVote, ElectionTypeOK, Requests, MaxOf, Terms
<1>10. QED
  BY <1>2, <1>3, <1>4, <1>5, <1>6, <1>7, <1>8, <1>9
  DEF ElectionNext, EntrySeen, EntryAppended

(* Only a crash stops a process.                                           *)
LEMMA OthersKeepRunning ==
  ASSUME ElectionInv, ElectionNext, NEW p \in Node, up[p],
         crashes' = crashes
  PROVE  up'[p]
<1> USE DEF ElectionInv
<1>1. crashes \in Int /\ up \in [Node -> BOOLEAN]
  BY DEF ElectionTypeOK
<1>2. ASSUME NEW n \in Node, Crash(n) PROVE FALSE
  BY <1>1, <1>2 DEF Crash
<1>3. ASSUME NEW n \in Node, Restart(n) PROVE up'[p]
  BY <1>1, <1>3 DEF Restart
<1>4. ASSUME NEW n \in Node, StartElection(n) \/ WinElection(n) \/ LoseElection(n)
      PROVE  up'[p]
  BY <1>4 DEF StartElection, WinElection, LoseElection
<1>5. ASSUME NEW n \in Node,
             SendHeartbeat(n) \/ \E kept \in BOOLEAN : LocalWrite(n, kept)
      PROVE  up'[p]
  BY <1>5 DEF SendHeartbeat, LocalWrite
<1>6. ASSUME NEW n \in Node, NEW h \in heartbeats, HandleHeartbeat(n, h)
      PROVE  up'[p]
  BY <1>6 DEF HandleHeartbeat
<1>7. ASSUME NEW n \in Node, NEW t \in Terms, SeeEntry(n, t) PROVE up'[p]
  BY <1>7 DEF SeeEntry
<1>8. ASSUME NEW m \in requests, NEW reply \in BOOLEAN, HandleVote(m, reply)
      PROVE  up'[p]
  BY <1>8 DEF HandleVote
<1>9. QED
  BY <1>2, <1>3, <1>4, <1>5, <1>6, <1>7, <1>8
  DEF ElectionNext, EntrySeen, EntryAppended

-----------------------------------------------------------------------------
(* Steps that touch only handlers or only the election.                    *)
LEMMA PutArrivesInv ==
  ASSUME ClusterInv, NEW r \in Req, NEW n \in Node, PutArrives(r, n)
  PROVE  WriteInv'
<1> USE DEF ClusterInv, WriteInv
<1>1. term[n] >= 1
  BY DEF PutArrives, ElectionInv, LeaderWonItsTerm, ElectionTypeOK, Wins, Terms
<1>2. /\ puts[r].pc = "new" /\ up[n]
      /\ puts' = [puts EXCEPT ![r].pc = "queued", ![r].node = n]
      /\ UNCHANGED <<electionVars, fileVars, calls, acks, lock, slow>>
  BY DEF PutArrives
<1>3. /\ puts' \in [Req -> Puts] /\ puts \in [Req -> Puts]
      /\ puts'[r].pc = "queued" /\ puts'[r].node = n
      /\ \A q \in Req \ {r} : puts'[q] = puts[q]
  BY <1>2 DEF ClusterTypeOK, Puts, PutStates
<1>4. ClusterTypeOK'
  BY <1>2, <1>3 DEF ClusterTypeOK, ElectionTypeOK
<1>5. QueuedAtElected'
  BY <1>1, <1>2, <1>3 DEF QueuedAtElected
<1>6. CallsFollowWrites'
  BY <1>2, <1>3 DEF CallsFollowWrites
<1>7. AcksFollowWrites'
  BY <1>2, <1>3 DEF AcksFollowWrites, ClusterTypeOK
<1>8. WritersAreNodes' /\ ConfirmedByMajority'
  BY <1>2, <1>3
  DEF WritersAreNodes, Written, ConfirmedByMajority, MajorityAcked, Puts
<1>9. FileInv'
  <2>1. \A q \in Req : Signed(q)' \subseteq Signed(q)
    BY <1>2, <1>3 DEF Signed, Written
  <2>2. QED BY <1>2, <2>1, QuietFiles
<1>10. QED BY <1>4, <1>5, <1>6, <1>7, <1>8, <1>9

LEMMA WriteAndFanOutInv ==
  ASSUME ClusterInv, ElectionInv', NEW r \in Req, NEW n \in Node,
         puts[r].pc \in {"new", "queued"}, term[n] >= 1,
         WriteAndFanOut(r, n)
  PROVE  WriteInv'
<1> DEFINE e == [term |-> term[n], req |-> r]
<1> USE DEF ClusterInv, WriteInv
<1>1. /\ e \in Entries /\ e.req = r /\ term[n] \in Terms
      /\ lsn[n] + 1 \in 0 .. MaxLsn
  BY BoundAssumption
  DEF ClusterTypeOK, ElectionTypeOK, Entries, WriteAndFanOut, LocalWrite,
      AppendLine, Terms
<1>2. /\ AppendEntry(n, e)
      /\ lsn' = [lsn EXCEPT ![n] = @ + 1] /\ forgot' = forgot
      /\ walLsn' = [walLsn EXCEPT ![n] = IF n \notin torn THEN lsn[n] + 1 ELSE @]
      /\ entries' = entries \cup {[from |-> n, term |-> term[n]]}
      /\ crashes' = crashes
  BY DEF WriteAndFanOut, LocalWrite, AppendLine
<1>3. wal' \in [Node -> Seq(Lines)] /\ torn' \subseteq Node /\ tears' = tears
  <2> HIDE DEF e
  <2>1. QED BY <1>1, <1>2, AppendEntryHolds DEF ClusterTypeOK, AppendEntry
<1>4. /\ puts' = [puts EXCEPT ![r] = [pc |-> "fanout", node |-> n,
                                     lsn |-> lsn[n] + 1, term |-> term[n]]]
      /\ calls' = [calls EXCEPT ![r] =
                     [p \in Node |-> IF p = n THEN "none" ELSE "sent"]]
      /\ lock' = [lock EXCEPT ![n] = r]
      /\ acks' = acks /\ slow' = slow
      /\ up' = up /\ term' = term
  BY DEF WriteAndFanOut, LocalWrite
<1>5. ClusterTypeOK'
  <2>1. ElectionTypeOK'
    BY DEF ElectionInv
  <2>2. [pc |-> "fanout", node |-> n, lsn |-> lsn[n] + 1, term |-> term[n]]
          \in Puts
    BY <1>1 DEF Puts, PutStates, Terms
  <2>3. puts' \in [Req -> Puts]
    BY <1>4, <2>2 DEF ClusterTypeOK
  <2>4. calls' \in [Req -> [Node -> CallStates]]
    BY <1>4 DEF ClusterTypeOK, CallStates
  <2>5. QED BY <1>2, <1>3, <1>4, <2>1, <2>3, <2>4 DEF ClusterTypeOK
<1>6. QueuedAtElected'
  BY <1>4 DEF QueuedAtElected, ClusterTypeOK
<1>7. CallsFollowWrites'
  BY <1>1, <1>2, <1>4 DEF CallsFollowWrites, ClusterTypeOK
<1>8. acks[r] = {} /\ AcksFollowWrites'
  <2>1. acks[r] = {}
    BY DEF AcksFollowWrites, ClusterTypeOK
  <2>2. QED BY <1>4, <2>1 DEF AcksFollowWrites, ClusterTypeOK
<1>9. WritersAreNodes'
  BY <1>4 DEF WritersAreNodes, Written, ClusterTypeOK
<1>10. ConfirmedByMajority'
  BY <1>4 DEF ConfirmedByMajority, MajorityAcked, ClusterTypeOK
<1>11. FileInv'
  <2>1. \A q \in Req : Signed(q)' \subseteq Signed(q) \cup (IF q = e.req THEN {n} ELSE {})
    BY <1>1, <1>4, <1>8 DEF Signed, Written, ClusterTypeOK
  <2> HIDE DEF e
  <2>2. QED BY <1>1, <1>2, <2>1, AppendFiles
<1>12. QED BY <1>5, <1>6, <1>7, <1>8, <1>9, <1>10, <1>11

LEMMA PutReturnsInv ==
  ASSUME ClusterInv, NEW r \in Req, PutReturns(r)
  PROVE  WriteInv'
<1> USE DEF ClusterInv, WriteInv
<1>1. /\ puts[r].pc = "fanout"
      /\ puts' = [puts EXCEPT ![r].pc =
                    IF MajorityAcked(r) THEN "ok" ELSE "failed"]
      /\ lock' = [lock EXCEPT ![puts[r].node] = NoReq]
      /\ UNCHANGED <<electionVars, fileVars, calls, acks, slow>>
  BY DEF PutReturns, Released
<1>2. /\ puts' \in [Req -> Puts] /\ puts \in [Req -> Puts]
      /\ puts'[r].pc = IF MajorityAcked(r) THEN "ok" ELSE "failed"
      /\ puts'[r].node = puts[r].node /\ puts'[r].term = puts[r].term
      /\ \A q \in Req \ {r} : puts'[q] = puts[q]
  BY <1>1 DEF ClusterTypeOK, Puts, PutStates
<1>3. ClusterTypeOK'
  BY <1>1, <1>2 DEF ClusterTypeOK, ElectionTypeOK
<1>4. QueuedAtElected' /\ CallsFollowWrites'
  BY <1>1, <1>2 DEF QueuedAtElected, CallsFollowWrites
<1>5. AcksFollowWrites'
  BY <1>1, <1>2 DEF AcksFollowWrites, ClusterTypeOK
<1>6. WritersAreNodes'
  BY <1>1, <1>2 DEF WritersAreNodes, Written
<1>7. ConfirmedByMajority'
  BY <1>1, <1>2 DEF ConfirmedByMajority, MajorityAcked
<1>8. FileInv'
  <2>1. \A q \in Req : Signed(q)' \subseteq Signed(q)
    BY <1>1, <1>2 DEF Signed, Written
  <2>2. QED BY <1>1, <2>1, QuietFiles
<1>9. QED BY <1>3, <1>4, <1>5, <1>6, <1>7, <1>8

\* The handlers of replicate that append nothing.
LEMMA ReplicateWaitsInv ==
  ASSUME ClusterInv, NEW r \in Req, NEW n \in Node,
         calls[r][n] # "none", NEW s \in CallStates, ElectionInv',
         calls' = [calls EXCEPT ![r][n] = s],
         lock' \in [Node -> Req \cup {NoReq}],
         \A p \in Node : up'[p] = up[p] /\ term'[p] >= term[p],
         UNCHANGED <<lsn, walLsn, entries, forgot, crashes>>,
         UNCHANGED <<fileVars, puts, acks, slow>>
  PROVE  WriteInv'
<1> USE DEF ClusterInv, WriteInv
<1>1. ClusterTypeOK'
  BY DEF ClusterTypeOK, ElectionInv
<1>2. QueuedAtElected'
  <2>1. \A p \in Node : term[p] \in Int /\ term'[p] \in Int
    BY DEF ElectionInv, ElectionTypeOK
  <2>2. ASSUME NEW p \in Node, up[p], term[p] >= 1
        PROVE  up'[p] /\ term'[p] >= 1
    BY <2>1, <2>2
  <2>3. QED BY <2>2 DEF QueuedAtElected
<1>3. CallsFollowWrites'
  BY DEF CallsFollowWrites, ClusterTypeOK
<1>4. AcksFollowWrites' /\ WritersAreNodes' /\ ConfirmedByMajority'
  BY DEF AcksFollowWrites, WritersAreNodes, ConfirmedByMajority, MajorityAcked
<1>5. FileInv'
  BY QuietFiles DEF Signed
<1>6. QED BY <1>1, <1>2, <1>3, <1>4, <1>5

\* What an entry leaves alone, and that it is a step of Election.
LEMMA ForwardedEntryFacts ==
  ASSUME ElectionInv, NEW n \in Node, NEW t \in Terms,
         EntrySeen(n, t) \/ \E kept \in BOOLEAN : EntryAppended(n, t, kept)
  PROVE  /\ ElectionNext /\ ElectionInv'
         /\ \A p \in Node : up'[p] = up[p] /\ term'[p] >= term[p]
         /\ UNCHANGED <<entries, forgot, crashes>>
<1>1. ElectionNext
  BY DEF ElectionNext
<1>2. ElectionInv'
  BY ForwardedEntryInv
<1>3. SeeEntry(n, t)
  BY DEF EntrySeen, EntryAppended
<1>4. \A p \in Node : up'[p] = up[p] /\ term'[p] >= term[p]
  BY <1>3 DEF SeeEntry, MaxOf, ElectionInv, ElectionTypeOK, Terms
<1>5. UNCHANGED <<entries, forgot, crashes>>
  BY <1>3 DEF SeeEntry
<1>6. QED BY <1>1, <1>2, <1>4, <1>5

LEMMA ReplicateAppliesInv ==
  ASSUME ClusterInv, NEW r \in Req, NEW n \in Node, NEW reply \in BOOLEAN,
         ReplicateApplies(r, n, reply)
  PROVE  ElectionNext /\ WriteInv'
<1> DEFINE fits == NextInLog(r, n)
           e == EntryOf(r)
<1> USE DEF ClusterInv, WriteInv
<1>1. calls[r][n] # "none"
  BY DEF ReplicateApplies, MayApply, GetsLock
<1>2. /\ puts[r].pc \notin {"new", "queued"} /\ puts[r].node # n
      /\ puts[r].term \in Terms
  BY <1>1 DEF CallsFollowWrites
<1>3. /\ ElectionNext /\ ElectionInv'
      /\ \A p \in Node : up'[p] = up[p] /\ term'[p] >= term[p]
      /\ UNCHANGED <<entries, forgot, crashes>>
  <2>1. \/ EntrySeen(n, puts[r].term)
        \/ \E kept \in BOOLEAN : EntryAppended(n, puts[r].term, kept)
    BY DEF ReplicateApplies
  <2>2. QED BY <1>2, <2>1, ForwardedEntryFacts
<1>4. /\ acks' = IF fits /\ reply /\ puts[r].pc = "fanout"
                 THEN [acks EXCEPT ![r] = @ \cup {n}] ELSE acks
      /\ calls' = [calls EXCEPT ![r][n] = "done"]
      /\ lock' \in [Node -> Req \cup {NoReq}]
      /\ puts' = puts /\ slow' = slow
  BY DEF ReplicateApplies, ClusterTypeOK
<1>5. /\ FileInv' /\ wal' \in [Node -> Seq(Lines)]
      /\ torn' \subseteq Node /\ tears' = tears
  <2>1. CASE fits
    <3>1. e \in Entries /\ e.req = r
      BY <1>2 DEF EntryOf, Entries, Terms
    <3>2. /\ AppendEntry(n, e)
          /\ lsn' = [lsn EXCEPT ![n] = @ + 1]
          /\ walLsn' = [walLsn EXCEPT ![n] =
                          IF n \notin torn THEN lsn[n] + 1 ELSE @]
      BY <2>1 DEF ReplicateApplies, EntryAppended, AppendLine
    <3>3. \A q \in Req :
            Signed(q)' \subseteq Signed(q) \cup (IF q = e.req THEN {n} ELSE {})
      BY <1>4, <3>1 DEF Signed, ClusterTypeOK
    <3> HIDE DEF e
    <3>4. FileInv'
      BY <1>3, <3>1, <3>2, <3>3, AppendFiles
    <3>5. wal' \in [Node -> Seq(Lines)] /\ torn' \subseteq Node /\ tears' = tears
      BY <3>1, <3>2, AppendEntryHolds DEF ClusterTypeOK, AppendEntry
    <3>6. QED BY <3>4, <3>5
  <2>2. CASE ~fits
    <3>1. UNCHANGED fileVars /\ UNCHANGED <<lsn, walLsn>>
      BY <2>2 DEF ReplicateApplies, EntrySeen
    <3>2. \A q \in Req : Signed(q)' \subseteq Signed(q)
      BY <1>4, <2>2 DEF Signed
    <3>3. FileInv'
      BY <1>3, <3>1, <3>2, QuietFiles
    <3>4. QED BY <3>1, <3>3 DEF ClusterTypeOK
  <2>3. QED BY <2>1, <2>2
<1> HIDE DEF fits, e
<1>6. ClusterTypeOK'
  BY <1>3, <1>4, <1>5 DEF ClusterTypeOK, CallStates, ElectionInv
<1>7. QueuedAtElected'
  <2>1. \A p \in Node : term[p] \in Int /\ term'[p] \in Int
    BY <1>3 DEF ElectionInv, ElectionTypeOK
  <2>2. QED BY <1>3, <1>4, <2>1 DEF QueuedAtElected
<1>8. CallsFollowWrites'
  BY <1>1, <1>3, <1>4 DEF CallsFollowWrites, ClusterTypeOK
<1>9. AcksFollowWrites'
  BY <1>2, <1>4 DEF AcksFollowWrites, ClusterTypeOK
<1>10. WritersAreNodes'
  BY <1>4 DEF WritersAreNodes
<1>11. ConfirmedByMajority'
  BY <1>4 DEF ConfirmedByMajority, MajorityAcked, ClusterTypeOK
<1>12. QED BY <1>3, <1>5, <1>6, <1>7, <1>8, <1>9, <1>10, <1>11

LEMMA NodeCrashInv ==
  ASSUME ClusterInv, NEW n \in Node, NEW w \in Req \cup {NoReq},
         NodeCrash(n, w)
  PROVE  ElectionNext /\ WriteInv'
<1> USE DEF ClusterInv, WriteInv
<1>1. ElectionNext /\ ElectionInv'
  BY CrashInv DEF NodeCrash, ElectionNext
<1>2. /\ \A p \in Node \ {n} : up'[p] = up[p] /\ term'[p] = term[p]
      /\ forgot' = forgot \cup {n} /\ crashes' = crashes + 1
      /\ UNCHANGED <<lsn, walLsn, entries>>
  BY DEF NodeCrash, Crash, ElectionInv, ElectionTypeOK
<1>3. /\ lock' = [lock EXCEPT ![n] = NoReq]
      /\ slow' = slow \ {n}
      /\ wal' = wal /\ acks' = acks
      /\ \/ torn' = torn /\ tears' = tears
         \/ torn' = torn \cup {n} /\ tears' = tears + 1
  BY DEF NodeCrash
<1>4. puts \in [Req -> Puts]
  BY DEF ClusterTypeOK
<1>5. /\ puts' \in [Req -> Puts]
      /\ \A r \in Req :
           \/ /\ puts'[r] = puts[r]
              /\ puts[r].pc = "queued" => puts[r].node # n
           \/ /\ puts'[r].pc = "lost" /\ puts[r].pc \in {"queued", "fanout"}
              /\ puts'[r].node = puts[r].node /\ puts'[r].term = puts[r].term
           \/ puts'[r].pc = "lost" /\ puts[r].pc = "new"
  BY <1>4 DEF NodeCrash, Puts, PutStates
<1>6. /\ calls' \in [Req -> [Node -> CallStates]]
      /\ \A r \in Req, p \in Node :
           calls'[r][p] # "none" => calls[r][p] # "none"
  BY DEF NodeCrash, ClusterTypeOK, CallStates
<1>7. ClusterTypeOK'
  <2>1. crashes \in Nat /\ tears \in 0 .. crashes
    BY BoundAssumption DEF ClusterTypeOK, ElectionTypeOK
  <2>2. tears' \in 0 .. crashes' /\ torn' \subseteq Node
    BY <1>2, <1>3, <2>1 DEF ClusterTypeOK
  <2>3. QED BY <1>1, <1>3, <1>5, <1>6, <2>2 DEF ClusterTypeOK, ElectionInv
<1>8. QueuedAtElected'
  BY <1>2, <1>5 DEF QueuedAtElected
<1>9. CallsFollowWrites'
  <2>1. ASSUME NEW r \in Req, NEW p \in Node, calls'[r][p] # "none"
        PROVE  /\ puts'[r].pc \notin {"new", "queued"}
               /\ puts'[r].term \in Terms /\ puts'[r].node # p
               /\ [from |-> puts'[r].node, term |-> puts'[r].term] \in entries'
    BY <1>2, <1>5, <1>6, <2>1 DEF CallsFollowWrites
  <2>2. QED BY <2>1 DEF CallsFollowWrites
<1>10. AcksFollowWrites'
  <2>1. ASSUME NEW r \in Req, NEW p \in acks'[r]
        PROVE  /\ puts'[r].pc \notin {"new", "queued"}
               /\ puts'[r].node # p
    <3>1. puts[r].pc \notin {"new", "queued"} /\ puts[r].node # p
      BY <1>3, <2>1 DEF AcksFollowWrites
    <3>2. QED BY <1>5, <3>1
  <2>2. QED BY <2>1 DEF AcksFollowWrites
<1>11. WritersAreNodes'
  BY <1>5 DEF WritersAreNodes, Written
<1>12. ConfirmedByMajority'
  BY <1>3, <1>5 DEF ConfirmedByMajority, MajorityAcked
<1>13. FileInv'
  <2>1. LinesMatchLsns' /\ torn' \subseteq forgot'
    BY <1>2, <1>3 DEF FileInv, LinesMatchLsns
  <2>2. Missing' \subseteq Missing
    <3>1. \A r \in Req : Signed(r)' \subseteq Signed(r)
      BY <1>3, <1>5 DEF Signed, Written
    <3>2. QED BY <1>3, <3>1 DEF Missing, Holds
  <2>3. tears \in Nat /\ tears' \in Nat /\ torn \subseteq Node
    BY <1>3, BoundAssumption DEF ClusterTypeOK, ElectionTypeOK
  <2>4. LossesAreCuts'
    BY <1>3, <2>2, <2>3, LossStep DEF FileInv
  <2>5. QED BY <2>1, <2>4 DEF FileInv
<1>14. QED BY <1>1, <1>7, <1>8, <1>9, <1>10, <1>11, <1>12, <1>13

LEMMA NodeRestartInv ==
  ASSUME ClusterInv, NEW n \in Node, NodeRestart(n)
  PROVE  ElectionNext /\ WriteInv'
<1> USE DEF ClusterInv, WriteInv
<1>1. ElectionNext /\ ElectionInv'
  BY RestartInv DEF NodeRestart, ElectionNext
<1>2. /\ \A p \in Node : up[p] => p # n /\ up'[p] /\ term'[p] = term[p]
      /\ UNCHANGED <<forgot, crashes, entries>>
      /\ UNCHANGED <<puts, calls, acks, lock, slow, torn, tears>>
  BY DEF NodeRestart, Restart, ElectionInv, ElectionTypeOK
<1>3. /\ wal' \in [Node -> Seq(Lines)] /\ LinesMatchLsns'
      /\ \A p \in Node, r \in Req : Holds(p, r)' <=> Holds(p, r)
  BY ReplayHolds DEF FileInv
<1>4. ClusterTypeOK'
  BY <1>1, <1>2, <1>3 DEF ClusterTypeOK, ElectionInv
<1>5. QueuedAtElected' /\ CallsFollowWrites' /\ AcksFollowWrites'
  BY <1>2 DEF QueuedAtElected, CallsFollowWrites, AcksFollowWrites
<1>6. WritersAreNodes' /\ ConfirmedByMajority'
  BY <1>2 DEF WritersAreNodes, ConfirmedByMajority, MajorityAcked
<1>7. FileInv'
  <2>1. tears \in Nat /\ torn \subseteq Node
    BY BoundAssumption DEF ClusterTypeOK, ElectionTypeOK
  <2>2. Missing' \subseteq Missing
    BY <1>2, <1>3 DEF Missing, Signed
  <2>3. LossesAreCuts'
    BY <1>2, <2>1, <2>2, LossStep DEF FileInv
  <2>4. QED BY <1>2, <1>3, <2>3 DEF FileInv
<1>8. QED BY <1>1, <1>4, <1>5, <1>6, <1>7

LEMMA ElectionStepInv ==
  ASSUME ClusterInv, ElectionNext, ElectionInv', UNCHANGED writeVars,
         UNCHANGED <<crashes, forgot, lsn, walLsn, entries>>
  PROVE  WriteInv'
<1> USE DEF ClusterInv, WriteInv
<1>1. ClusterTypeOK'
  BY DEF ClusterTypeOK, ElectionInv
<1>2. QueuedAtElected'
  <2>1. ASSUME NEW p \in Node, up[p], term[p] >= 1
        PROVE  up'[p] /\ term'[p] >= 1
    BY <2>1, OthersKeepRunning, RunningTermStaysPositive
  <2>2. QED BY <2>1 DEF QueuedAtElected
<1>3. CallsFollowWrites' /\ AcksFollowWrites' /\ WritersAreNodes'
  BY DEF CallsFollowWrites, AcksFollowWrites, WritersAreNodes, ClusterTypeOK
<1>4. ConfirmedByMajority'
  BY DEF ConfirmedByMajority, MajorityAcked
<1>5. FileInv'
  BY QuietFiles DEF Signed
<1>6. QED BY <1>1, <1>2, <1>3, <1>4, <1>5

-----------------------------------------------------------------------------
LEMMA ClusterInvInit == ClusterInit => ClusterInv
<1>1. SUFFICES ASSUME ClusterInit PROVE ClusterInv
  OBVIOUS
<1>2. ElectionInv
  BY <1>1, ElectionInvInit DEF ClusterInit
<1>3. NewPut \in Puts /\ NewPut.pc = "new"
  BY BoundAssumption DEF NewPut, Puts, PutStates
<1>4. ClusterTypeOK
  BY <1>1, <1>2, <1>3
  DEF ClusterInit, ElectionInit, ClusterTypeOK, ElectionInv, CallStates
<1>5. FileInv
  <2>1. LinesMatchLsns
    <3>1. \A n \in Node : Len(wal[n]) = 0 /\ DOMAIN wal[n] = {}
      BY <1>1 DEF ClusterInit
    <3>2. QED BY <1>1, <3>1 DEF ClusterInit, ElectionInit, LinesMatchLsns
  <2>2. \A r \in Req : Signed(r) = {}
    BY <1>1, <1>3 DEF ClusterInit, Signed, Written
  <2>3. Missing = {}
    BY <2>2 DEF Missing
  <2>4. QED
    BY <1>1, <2>1, <2>3, FS_EmptySet DEF ClusterInit, FileInv, LossesAreCuts
<1>6. QED
  BY <1>1, <1>2, <1>3, <1>4, <1>5
  DEF ClusterInit, ClusterInv, WriteInv, QueuedAtElected, CallsFollowWrites,
      AcksFollowWrites, WritersAreNodes, Written, ConfirmedByMajority

(* Every step of the cluster preserves the invariant, and is a step of the *)
(* election or leaves it alone.                                            *)
LEMMA ClusterInvStep ==
  ClusterInv /\ [ClusterNext]_clusterVars =>
    ClusterInv' /\ [ElectionNext]_electionVars
<1> DEFINE Goal == ClusterInv' /\ [ElectionNext]_electionVars
<1>1. SUFFICES ASSUME ClusterInv, [ClusterNext]_clusterVars
               PROVE  Goal
  OBVIOUS
<1>2. ElectionInv /\ WriteInv /\ ClusterTypeOK
  BY <1>1 DEF ClusterInv, WriteInv
<1>3. ASSUME ElectionNext, WriteInv' PROVE Goal
  BY <1>2, <1>3, ElectionInvStep DEF ClusterInv
<1>4. ASSUME UNCHANGED electionVars, WriteInv' PROVE Goal
  BY <1>2, <1>4, ElectionInvStep DEF ClusterInv
<1>5. CASE UNCHANGED clusterVars
  <2>1. UNCHANGED electionVars /\ UNCHANGED writeVars
    BY <1>5 DEF clusterVars
  <2>2. WriteInv'
    <3>1. FileInv'
      BY <1>2, <2>1, QuietFiles DEF WriteInv, Signed
    <3>2. QED
      BY <1>2, <2>1, <3>1
      DEF WriteInv, ClusterTypeOK, ElectionTypeOK, QueuedAtElected,
          CallsFollowWrites, AcksFollowWrites, WritersAreNodes,
          ConfirmedByMajority, MajorityAcked
  <2>3. QED BY <1>4, <2>1, <2>2
<1>6. CASE ElectionStep
  <2>1. /\ ElectionNext /\ UNCHANGED writeVars
        /\ UNCHANGED <<crashes, forgot, lsn, walLsn, entries>>
    BY <1>6
    DEF ElectionStep, ElectionNext, StartElection, WinElection, LoseElection,
        SendHeartbeat, HandleHeartbeat, HandleVote
  <2>2. ElectionInv'
    BY <1>2, <2>1, ElectionInvStep
  <2>3. QED BY <1>1, <1>3, <2>1, <2>2, ElectionStepInv
<1>7. ASSUME NEW r \in Req, PutReturns(r) PROVE Goal
  <2>1. WriteInv'
    BY <1>1, <1>7, PutReturnsInv
  <2>2. UNCHANGED electionVars
    BY <1>7 DEF PutReturns
  <2>3. QED BY <1>4, <2>1, <2>2
<1>8. ASSUME NEW r \in Req, NEW n \in Node, PutArrives(r, n) PROVE Goal
  <2>1. WriteInv'
    BY <1>1, <1>8, PutArrivesInv
  <2>2. UNCHANGED electionVars
    BY <1>8 DEF PutArrives
  <2>3. QED BY <1>4, <2>1, <2>2
<1>9. ASSUME NEW r \in Req, NEW n \in Node, PutAtOnce(r, n) \/ PutResumes(r, n)
      PROVE  Goal
  <2>1. puts[r].pc \in {"new", "queued"} /\ WriteAndFanOut(r, n)
    BY <1>9 DEF PutAtOnce, PutResumes
  <2>2. term[n] >= 1
    <3>1. CASE PutAtOnce(r, n)
      BY <1>2, <3>1
      DEF PutAtOnce, ElectionInv, LeaderWonItsTerm, ElectionTypeOK, Wins, Terms
    <3>2. CASE PutResumes(r, n)
      BY <1>2, <3>2 DEF PutResumes, WriteInv, QueuedAtElected
    <3>3. QED BY <1>9, <3>1, <3>2
  <2>3. ElectionNext
    BY <2>1 DEF WriteAndFanOut, ElectionNext
  <2>4. ElectionInv'
    BY <1>2, <2>3, ElectionInvStep
  <2>5. WriteInv'
    BY <1>1, <2>1, <2>2, <2>4, WriteAndFanOutInv
  <2>6. QED BY <1>3, <2>3, <2>5
<1>10. ASSUME NEW r \in Req, NEW n \in Node,
              \/ ReplicateLost(r, n)
              \/ ReplicateStale(r, n) \/ ReplicateArrives(r, n)
       PROVE  Goal
  <2>1. PICK s \in CallStates : calls' = [calls EXCEPT ![r][n] = s]
    BY <1>10 DEF ReplicateLost, ReplicateStale, ReplicateArrives, CallStates
  <2>2. /\ calls[r][n] # "none"
        /\ UNCHANGED <<electionVars, fileVars, puts, acks, lock, slow>>
    BY <1>10 DEF ReplicateLost, ReplicateStale, ReplicateArrives
  <2>3. ElectionInv'
    BY <1>2, <2>2, ElectionInvStep
  <2>4. /\ lock' \in [Node -> Req \cup {NoReq}]
        /\ \A p \in Node : up'[p] = up[p] /\ term'[p] >= term[p]
    BY <1>2, <2>2 DEF ClusterTypeOK, ElectionTypeOK
  <2>5. WriteInv'
    BY <1>1, <2>1, <2>2, <2>3, <2>4, ReplicateWaitsInv
  <2>6. QED BY <1>4, <2>2, <2>5
<1>11. ASSUME NEW r \in Req, NEW n \in Node, ReplicateDeposes(r, n) PROVE Goal
  <2>1. /\ calls[r][n] # "none" /\ EntrySeen(n, puts[r].term)
        /\ calls' = [calls EXCEPT ![r][n] = "locked"]
        /\ lock' \in [Node -> Req \cup {NoReq}]
        /\ UNCHANGED <<fileVars, puts, acks, slow>>
        /\ UNCHANGED <<lsn, walLsn>>
    BY <1>2, <1>11 DEF ReplicateDeposes, GetsLock, ClusterTypeOK, EntrySeen
  <2>2. puts[r].term \in Terms /\ "locked" \in CallStates
    BY <1>2, <2>1 DEF WriteInv, CallsFollowWrites, CallStates
  <2>3. /\ ElectionNext /\ ElectionInv'
        /\ \A p \in Node : up'[p] = up[p] /\ term'[p] >= term[p]
        /\ UNCHANGED <<entries, forgot, crashes>>
    BY <1>2, <2>1, <2>2, ForwardedEntryFacts
  <2>4. WriteInv'
    BY <1>1, <2>1, <2>2, <2>3, ReplicateWaitsInv
  <2>5. QED BY <1>3, <2>3, <2>4
<1>12. ASSUME NEW r \in Req, NEW n \in Node, NEW reply \in BOOLEAN,
              ReplicateApplies(r, n, reply)
       PROVE  Goal
  BY <1>1, <1>3, <1>12, ReplicateAppliesInv
<1>13. ASSUME NEW n \in Node, NEW w \in Req \cup {NoReq}, NodeCrash(n, w)
       PROVE  Goal
  BY <1>1, <1>3, <1>13, NodeCrashInv
<1>14. ASSUME NEW n \in Node, InjectDelay(n) PROVE Goal
  <2>1. /\ UNCHANGED <<electionVars, fileVars, puts, calls, acks, lock>>
        /\ slow' \subseteq Node
    BY <1>2, <1>14 DEF InjectDelay, ClusterTypeOK
  <2>2. WriteInv'
    <3>1. FileInv'
      BY <1>2, <2>1, QuietFiles DEF WriteInv, Signed
    <3>2. QED
      BY <1>2, <2>1, <3>1
      DEF WriteInv, ClusterTypeOK, ElectionTypeOK, QueuedAtElected,
          CallsFollowWrites, AcksFollowWrites, WritersAreNodes,
          ConfirmedByMajority, MajorityAcked
  <2>3. QED BY <1>4, <2>1, <2>2
<1>15. ASSUME NEW n \in Node, NodeRestart(n) PROVE Goal
  BY <1>1, <1>3, <1>15, NodeRestartInv
<1> HIDE DEF Goal
<1>16. QED
  BY <1>1, <1>5, <1>6, <1>7, <1>8, <1>9, <1>10, <1>11, <1>12, <1>13, <1>14,
     <1>15
  DEF ClusterNext, WriteStep

(* The invariant holds in every behaviour of the cluster.                  *)
THEOREM ClusterInvariant == ClusterSpec => []ClusterInv
<1>1. ClusterInit => ClusterInv
  BY ClusterInvInit
<1>2. ClusterInv /\ [ClusterNext]_clusterVars => ClusterInv'
  BY ClusterInvStep
<1>3. QED BY <1>1, <1>2, PTL DEF ClusterSpec

(* Type correctness of the whole cluster.                                  *)
THEOREM ClusterTypeCorrect == ClusterSpec => []ClusterTypeOK
<1>1. ClusterInv => ClusterTypeOK
  BY DEF ClusterInv, WriteInv
<1>2. QED BY <1>1, ClusterInvariant, PTL

(* The write path does to the election only what Election.tla says it may: *)
(* every theorem about ElectionSpec is one about the cluster.              *)
THEOREM ClusterImplementsElection == ClusterSpec => ElectionSpec
<1>1. ClusterInit => ElectionInit
  BY DEF ClusterInit
<1>2. ClusterInv /\ [ClusterNext]_clusterVars => [ElectionNext]_electionVars
  BY ClusterInvStep
<1>3. QED BY <1>1, <1>2, ClusterInvariant, PTL DEF ClusterSpec, ElectionSpec

(* Election safety of the whole cluster, writes included.                  *)
THEOREM ClusterElectionSafety == ClusterSpec => []SplitNeedsForgetfulVoter
BY ClusterImplementsElection, ElectionSafety, PTL

-----------------------------------------------------------------------------
(* All that replay will not find of what nodes have signed, in the whole   *)
(* cluster and in all writes, is one entry at most for each cut line, and  *)
(* none for a cut line that nothing has been written behind yet.           *)
THEOREM LossesAreBounded == ClusterSpec => []LossesAreCuts
<1>1. ClusterInv => LossesAreCuts
  BY DEF ClusterInv, WriteInv, FileInv
<1>2. QED BY <1>1, ClusterInvariant, PTL

(* The copies of a confirmed write are a majority, but for what was lost.  *)
LEMMA ConfirmedCopies ==
  ASSUME ClusterInv, NEW r \in Req, puts[r].pc \in Written, MajorityAcked(r)
  PROVE  /\ Cardinality({n \in Node : Holds(n, r)}) + tears >= Majority
         /\ tears \in Nat
<1> DEFINE H == {n \in Node : Holds(n, r)}
           w == puts[r].node
           L == {n \in Signed(r) : ~Holds(n, r)}
<1> USE DEF ClusterInv, WriteInv
<1>1. /\ tears \in Nat /\ torn \in SUBSET Node /\ acks[r] \in SUBSET Node
      /\ H \in SUBSET Node
  BY BoundAssumption DEF ClusterTypeOK, ElectionTypeOK
<1>2. /\ w \in Node /\ w \notin acks[r] /\ Signed(r) = acks[r] \cup {w}
  BY DEF WritersAreNodes, AcksFollowWrites, Signed
<1>3. IsFiniteSet(H) /\ IsFiniteSet(acks[r]) /\ IsFiniteSet(torn)
  BY <1>1, NodeAssumption, FS_Subset
<1>4. Cardinality(Signed(r)) >= Majority /\ IsFiniteSet(Signed(r))
  <2>1. /\ Cardinality(acks[r] \cup {w}) = Cardinality(acks[r]) + 1
        /\ IsFiniteSet(acks[r] \cup {w})
    BY <1>2, <1>3, FS_AddElement
  <2>2. QED BY <1>2, <2>1 DEF MajorityAcked
<1>5. IsFiniteSet(L) /\ Cardinality(L) <= tears
  <2> DEFINE f == [n \in L |-> <<n, r>>]
  <2>1. f \in Injection(L, Missing)
    <3>1. \A n \in L : <<n, r>> \in Missing
      BY <1>1, <1>2 DEF Missing
    <3>2. f \in [L -> Missing] /\ \A a, b \in L : f[a] = f[b] => a = b
      BY <3>1
    <3>3. QED BY <3>2 DEF Injection, IsInjective
  <2>2. IsFiniteSet(Missing) /\ Cardinality(Missing) + Cardinality(torn) <= tears
    BY DEF FileInv, LossesAreCuts
  <2> HIDE DEF f, L
  <2>3. IsFiniteSet(L) /\ Cardinality(L) <= Cardinality(Missing)
    BY <2>1, <2>2, FS_Injection
  <2>4. /\ Cardinality(L) \in Nat /\ Cardinality(Missing) \in Nat
        /\ Cardinality(torn) \in Nat
    BY <1>3, <2>2, <2>3, FS_CardinalityType
  <2>5. QED BY <1>1, <2>2, <2>3, <2>4
<1>6. Signed(r) \in SUBSET (H \cup L)
  BY <1>1, <1>2
<1> HIDE DEF H, L, w
<1>7. /\ IsFiniteSet(H \cup L)
      /\ Cardinality(H \cup L)
           = Cardinality(H) + Cardinality(L) - Cardinality(H \cap L)
      /\ Cardinality(Signed(r)) <= Cardinality(H \cup L)
  BY <1>3, <1>5, <1>6, FS_Union, FS_Subset
<1>8. /\ Cardinality(H) \in Nat /\ Cardinality(L) \in Nat
      /\ Cardinality(H \cap L) \in Nat /\ Cardinality(Signed(r)) \in Nat
      /\ Cardinality(H \cup L) \in Nat
  BY <1>3, <1>4, <1>5, <1>7, FS_Intersection, FS_CardinalityType
<1>9. Cardinality(H) + tears >= Majority
  BY <1>1, <1>4, <1>5, <1>7, <1>8, MajorityAssumption
<1>10. QED BY <1>1, <1>9 DEF H

(* Durability: a write answered with 200 can be read in the WALs of a      *)
(* majority of the nodes, but for one copy at most for each line that a    *)
(* crash has cut.  Elections, delays, lost calls and the restarts that     *)
(* replay the WALs take nothing away.                                      *)
THEOREM ConfirmedIsDurable == ClusterSpec => []AckedOnMajority
<1>1. ClusterInv => AckedOnMajority
  BY ConfirmedCopies DEF AckedOnMajority, ClusterInv, WriteInv,
                         ConfirmedByMajority, Written
<1>2. QED BY <1>1, ClusterInvariant, PTL

(* In any set of nodes that exceeds a majority by the number of cut lines, *)
(* one has each confirmed write in its WAL: where no crash has cut a line, *)
(* every election has a voter that knows of it.                            *)
MajoritiesKnow ==
  \A r \in Req, Q \in SUBSET Node :
    puts[r].pc = "ok" /\ Cardinality(Q) >= Majority + tears =>
      \E n \in Q : Holds(n, r)

THEOREM ConfirmedIsKnown == ClusterSpec => []MajoritiesKnow
<1>1. ClusterInv => MajoritiesKnow
  <2>1. SUFFICES ASSUME ClusterInv, NEW r \in Req, NEW Q \in SUBSET Node,
                        puts[r].pc = "ok", Cardinality(Q) >= Majority + tears
                 PROVE  \E n \in Q : Holds(n, r)
    BY DEF MajoritiesKnow
  <2> DEFINE C == {n \in Node : Holds(n, r)}
  <2>2. Cardinality(C) + tears >= Majority /\ tears \in Nat
    BY <2>1, ConfirmedCopies DEF ClusterInv, WriteInv, ConfirmedByMajority, Written
  <2>3. C \in SUBSET Node /\ Q \in SUBSET Node
    OBVIOUS
  <2> HIDE DEF C
  <2>4. IsFiniteSet(C) /\ IsFiniteSet(Q)
    BY <2>3, NodeAssumption, FS_Subset
  <2>5. /\ Cardinality(C) \in Nat /\ Cardinality(Q) \in Nat
        /\ Cardinality(Node) \in Nat
    BY <2>4, NodeAssumption, FS_CardinalityType
  <2>6. Cardinality(Q) + Cardinality(C) > Cardinality(Node)
    BY <2>1, <2>2, <2>5, MajorityAssumption
  <2>7. Q \cap C # {}
    BY <2>3, <2>6, NodeAssumption, FS_MajoritiesIntersect
  <2>8. QED BY <2>7 DEF C
<1>2. QED BY <1>1, ClusterInvariant, PTL

-----------------------------------------------------------------------------
(* The refinement of QuorumStore, step by step.                            *)
LEMMA AppendIsPersist ==
  ASSUME ClusterInv, NEW n \in Node, NEW e \in Entries,
         AppendEntry(n, e),
         \A q \in Req : puts'[q].pc = "ok" <=> puts[q].pc = "ok"
  PROVE  [Store!StoreNext]_Store!storeVars
<1> DEFINE copies == [r \in Req |-> {p \in Node : Holds(p, r)}]
<1>1. /\ e.req \in Req /\ wal \in [Node -> Seq(Lines)] /\ tears' = tears
  BY DEF Entries, ClusterInv, WriteInv, ClusterTypeOK, AppendEntry
<1>2. \A p \in Node, r \in Req :
        Holds(p, r)' <=>
          Holds(p, r) \/ (n \notin torn /\ p = n /\ r = e.req)
  BY <1>1, AppendEntryHolds
<1>3. {r \in Req : puts'[r].pc = "ok"} = {r \in Req : puts[r].pc = "ok"}
  OBVIOUS
<1>4. CASE n \notin torn
  <2>1. copies' = [copies EXCEPT ![e.req] = @ \cup {n}]
    <3>1. ASSUME NEW r \in Req
          PROVE  copies'[r] = [copies EXCEPT ![e.req] = @ \cup {n}][r]
      BY <1>1, <1>2, <1>4, <3>1
    <3>2. QED BY <3>1
  <2>2. Store!Persist(e.req, n)
    BY <1>1, <1>3, <2>1 DEF Store!Persist
  <2>3. QED BY <1>1, <2>2 DEF Store!StoreNext
<1>5. CASE n \in torn
  <2>1. copies' = copies
    BY <1>2, <1>5
  <2>2. QED BY <1>1, <1>3, <2>1 DEF Store!storeVars
<1>6. QED BY <1>4, <1>5

LEMMA UntouchedIsStutter ==
  ASSUME \A p \in Node, r \in Req : Holds(p, r)' <=> Holds(p, r),
         \A q \in Req : puts'[q].pc = "ok" <=> puts[q].pc = "ok",
         tears' = tears
  PROVE  UNCHANGED Store!storeVars
BY DEF Store!storeVars

LEMMA ReturnIsConfirm ==
  ASSUME ClusterInv, NEW r \in Req, PutReturns(r)
  PROVE  [Store!StoreNext]_Store!storeVars
<1>1. /\ puts[r].pc = "fanout" /\ UNCHANGED <<wal, tears>>
      /\ puts \in [Req -> Puts]
      /\ puts' = [puts EXCEPT ![r].pc =
                    IF MajorityAcked(r) THEN "ok" ELSE "failed"]
  BY DEF PutReturns, ClusterInv, WriteInv, ClusterTypeOK
<1>2. CASE MajorityAcked(r)
  <2>1. Cardinality({n \in Node : Holds(n, r)}) + tears >= Majority
    BY <1>1, <1>2, ConfirmedCopies DEF Written
  <2>2. \A q \in Req : puts'[q].pc = "ok" <=> puts[q].pc = "ok" \/ q = r
    BY <1>1, <1>2 DEF Puts
  <2>3. {q \in Req : puts'[q].pc = "ok"} = {q \in Req : puts[q].pc = "ok"} \cup {r}
    BY <2>2
  <2>4. \A p \in Node, q \in Req : Holds(p, q)' <=> Holds(p, q)
    BY <1>1 DEF Holds
  <2>5. [q \in Req |-> {n \in Node : Holds(n, q)}]'
          = [q \in Req |-> {n \in Node : Holds(n, q)}]
    BY <2>4
  <2>6. Store!Confirm(r)
    <3>1. Cardinality([q \in Req |-> {n \in Node : Holds(n, q)}][r]) + tears
            >= Majority
      BY <2>1
    <3>2. {q \in Req : puts[q].pc = "ok"}'
            = {q \in Req : puts[q].pc = "ok"} \cup {r}
      BY <2>3
    <3>3. \A S : Store!Cardinality(S) = Cardinality(S)
      BY DEF Store!Cardinality, Cardinality
    <3>4. QED BY <1>1, <2>5, <3>1, <3>2, <3>3 DEF Store!Confirm
  <2>7. QED BY <2>6 DEF Store!StoreNext
<1>3. CASE ~MajorityAcked(r)
  <2>1. \A q \in Req : puts'[q].pc = "ok" <=> puts[q].pc = "ok"
    BY <1>1, <1>3 DEF Puts
  <2>2. \A p \in Node, q \in Req : Holds(p, q)' <=> Holds(p, q)
    BY <1>1 DEF Holds
  <2>3. QED BY <1>1, <2>1, <2>2, UntouchedIsStutter
<1>4. QED BY <1>2, <1>3

LEMMA StoreStep ==
  ClusterInv /\ [ClusterNext]_clusterVars => [Store!StoreNext]_Store!storeVars
<1> DEFINE Goal == [Store!StoreNext]_Store!storeVars
           SameOks == \A q \in Req : puts'[q].pc = "ok" <=> puts[q].pc = "ok"
<1>1. SUFFICES ASSUME ClusterInv, [ClusterNext]_clusterVars
               PROVE  Goal
  OBVIOUS
<1>2. /\ puts \in [Req -> Puts] /\ term \in [Node -> 0 .. MaxTerm]
      /\ CallsFollowWrites
  BY <1>1 DEF ClusterInv, WriteInv, ClusterTypeOK, ElectionTypeOK
<1>3. ASSUME UNCHANGED <<wal, tears>>, SameOks PROVE Goal
  <2>1. \A p \in Node, r \in Req : Holds(p, r)' <=> Holds(p, r)
    BY <1>3 DEF Holds
  <2>2. QED BY <1>3, <2>1, UntouchedIsStutter
<1>4. CASE UNCHANGED clusterVars \/ ElectionStep
  BY <1>3, <1>4 DEF clusterVars, ElectionStep
<1>5. ASSUME NEW r \in Req, PutReturns(r) PROVE Goal
  BY <1>1, <1>5, ReturnIsConfirm
<1>6. ASSUME NEW r \in Req, NEW n \in Node, PutArrives(r, n) PROVE Goal
  <2>1. UNCHANGED <<wal, tears>> /\ SameOks
    BY <1>2, <1>6 DEF PutArrives, Puts
  <2>2. QED BY <1>3, <2>1
<1>7. ASSUME NEW r \in Req, NEW n \in Node, PutAtOnce(r, n) \/ PutResumes(r, n)
      PROVE  Goal
  <2>1. puts[r].pc \in {"new", "queued"} /\ WriteAndFanOut(r, n)
    BY <1>7 DEF PutAtOnce, PutResumes
  <2>2. /\ AppendEntry(n, [term |-> term[n], req |-> r])
        /\ SameOks
    BY <1>2, <2>1 DEF WriteAndFanOut
  <2>3. [term |-> term[n], req |-> r] \in Entries
    BY <1>2 DEF Entries
  <2>4. QED BY <1>1, <2>2, <2>3, AppendIsPersist
<1>8. ASSUME NEW r \in Req, NEW n \in Node,
             \/ ReplicateLost(r, n) \/ ReplicateStale(r, n)
             \/ ReplicateArrives(r, n) \/ ReplicateDeposes(r, n)
      PROVE  Goal
  BY <1>3, <1>8
  DEF ReplicateLost, ReplicateStale, ReplicateArrives, ReplicateDeposes
<1>9. ASSUME NEW r \in Req, NEW n \in Node, NEW reply \in BOOLEAN,
             ReplicateApplies(r, n, reply)
      PROVE  Goal
  <2>1. /\ IF NextInLog(r, n) THEN AppendEntry(n, EntryOf(r))
                             ELSE UNCHANGED fileVars
        /\ SameOks
    BY <1>9 DEF ReplicateApplies
  <2>2. EntryOf(r) \in Entries
    BY <1>2 DEF Entries, EntryOf, Puts
  <2>3. CASE NextInLog(r, n)
    BY <1>1, <2>1, <2>2, <2>3, AppendIsPersist
  <2>4. CASE ~NextInLog(r, n)
    BY <1>3, <2>1, <2>4
  <2>5. QED BY <2>3, <2>4
<1>10. ASSUME NEW n \in Node, InjectDelay(n) PROVE Goal
  BY <1>3, <1>10 DEF InjectDelay
<1>11. ASSUME NEW n \in Node, NEW w \in Req \cup {NoReq}, NodeCrash(n, w)
       PROVE  Goal
  <2>1. UNCHANGED wal /\ SameOks
    BY <1>2, <1>11 DEF NodeCrash, Puts
  <2>2. tears' = tears \/ tears' = tears + 1
    BY <1>11 DEF NodeCrash
  <2>3. CASE tears' = tears + 1
    <3>1. \A p \in Node, r \in Req : Holds(p, r)' <=> Holds(p, r)
      BY <2>1 DEF Holds
    <3>2. Store!CutLine
      BY <2>1, <2>3, <3>1 DEF Store!CutLine
    <3>3. QED BY <3>2 DEF Store!StoreNext
  <2>4. QED BY <1>3, <2>1, <2>2, <2>3
<1>12. ASSUME NEW n \in Node, NodeRestart(n) PROVE Goal
  <2>1. \A p \in Node, r \in Req : Holds(p, r)' <=> Holds(p, r)
    BY <1>1, <1>12, ReplayHolds DEF ClusterInv, WriteInv, FileInv
  <2>2. QED BY <1>12, <2>1, UntouchedIsStutter DEF NodeRestart
<1> HIDE DEF Goal
<1>13. QED
  BY <1>1, <1>4, <1>5, <1>6, <1>7, <1>8, <1>9, <1>10, <1>11, <1>12
  DEF ClusterNext, WriteStep

(* The cluster implements the abstract store: entries only gain readable   *)
(* copies, and a write is confirmed only when a majority has it, but for   *)
(* what cut lines have spoilt.                                             *)
THEOREM ClusterImplementsStore == ClusterSpec => ImplementsQuorumStore
<1>1. ClusterInit => Store!StoreInit
  BY DEF ClusterInit, Store!StoreInit, Holds, NewPut
<1>2. ClusterInv /\ [ClusterNext]_clusterVars
        => [Store!StoreNext]_Store!storeVars
  BY StoreStep
<1>3. QED
  BY <1>1, <1>2, ClusterInvariant, PTL
  DEF ClusterSpec, ImplementsQuorumStore, Store!StoreSpec
=============================================================================
