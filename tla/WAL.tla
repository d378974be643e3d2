-------------------------------- MODULE WAL --------------------------------
(***************************************************************************)
(* The storage engine of a node, src/rainman/node/storage.py: a WAL file   *)
(* of JSON lines, and the index, LSN and term rebuilt from it at startup.  *)
(*                                                                         *)
(* put writes a line, fsyncs it, then updates the index and then the LSN;  *)
(* each of these is a step of its own here, because get and current_lsn    *)
(* take no lock and run in other threads, and because the process may die  *)
(* between any two.  Text the node has written but not fsynced survives a  *)
(* crash up to any point, also in the middle of a line (the partial writes *)
(* replay expects), in particular just before its newline.                 *)
(***************************************************************************)
EXTENDS Integers, Sequences, FiniteSetsExt

CONSTANTS
  Key,             \* the keys written
  NoKey,           \* the key of a line that holds no record
  MaxTerm,         \* bound: terms of the entries
  MaxPuts,         \* bound: calls of put
  MaxCrashes,      \* bound: crashes of the process
  MaxCorruptions,  \* bound: CORRUPT_WAL actions of the adversary
  Tears,           \* where a crash may cut a line: "inside", "before newline"
  FsyncMayFail     \* may os.fsync raise OSError

ASSUME KeyAssumption == NoKey \notin Key
ASSUME LimitAssumption ==
  /\ MaxTerm \in Nat /\ MaxPuts \in Nat /\ MaxCrashes \in Nat
  /\ MaxCorruptions \in Nat
ASSUME FailureAssumption ==
  Tears \subseteq {"inside", "before newline"} /\ FsyncMayFail \in BOOLEAN

VARIABLES
  file,         \* the complete lines on disk
  tail,         \* << >>, or the text after the last newline on disk
  unsynced,     \* lines written to the file, not fsynced
  phase,        \* where put is; "idle" outside put, "down" without a process
  entry,        \* the entry of the current put
  index,        \* _index: the entry whose value a get of the key returns
  lsn,          \* _lsn
  highestTerm,  \* _highest_term
  puts,         \* calls of put so far
  crashes,      \* crashes so far
  corruptions,  \* CORRUPT_WAL actions so far
  done,         \* history: the entries whose put has returned
  torn,         \* history: crashes that cut a line
  ghosts        \* history: puts whose fsync raised

diskVars == <<file, tail>>
memoryVars == <<index, lsn, highestTerm>>
countVars == <<puts, crashes, corruptions>>
historyVars == <<done, torn, ghosts>>
walVars ==
  <<diskVars, unsynced, phase, entry, memoryVars, countVars, historyVars>>

-----------------------------------------------------------------------------
\* A line json.loads rejects: replay skips it.
Garbage == [lsn |-> 0, term |-> 0, key |-> NoKey, id |-> 0]
NoEntry == Garbage

\* New lines end up behind the text that has no newline: what was meant as
\* the first of them is part of that text's line.
Glued(rest, lines) ==
  IF rest = << >> THEN lines ELSE <<Garbage>> \o Tail(lines)

\* The numbers of the lines replay accepts.
Parsed(lines) == {i \in DOMAIN lines : lines[i] # Garbage}
RecordsIn(lines) == {lines[i] : i \in Parsed(lines)}

OnDisk == file \o tail
Recorded == RecordsIn(OnDisk)

\* The index replay builds: for each key the last line wins.
FirstFor(k, lines) ==
  LET I == {i \in Parsed(lines) : lines[i].key = k} IN
  IF I = {} THEN NoEntry ELSE lines[Min(I)]
LatestFor(k, lines) ==
  LET I == {i \in Parsed(lines) : lines[i].key = k} IN
  IF I = {} THEN NoEntry ELSE lines[Max(I)]

\* The LSN and the term replay finds: the highest in any line.
NoLsn(lines) == 0
NextLsn(lines) == Max({0} \cup {lines[i].lsn : i \in Parsed(lines)}) + 1
HighestLsn(lines) == Max({0} \cup {lines[i].lsn : i \in Parsed(lines)})
LastTerm(lines) ==
  IF Parsed(lines) = {} THEN 0 ELSE lines[Max(Parsed(lines))].term
HighestTerm(lines) == Max({0} \cup {lines[i].term : i \in Parsed(lines)})

-----------------------------------------------------------------------------
WALInit ==
  /\ file = << >> /\ tail = << >> /\ unsynced = << >>
  /\ phase = "down" /\ entry = NoEntry
  /\ index = [k \in Key |-> NoEntry] /\ lsn = 0 /\ highestTerm = 0
  /\ puts = 0 /\ crashes = 0 /\ corruptions = 0
  /\ done = {} /\ torn = 0 /\ ghosts = 0

\* lifespan opens the file and replays it, before the first request.
Replay ==
  /\ phase = "down" /\ phase' = "idle"
  /\ index' = [k \in Key |-> LatestFor(k, OnDisk)]
  /\ lsn' = HighestLsn(OnDisk)
  /\ highestTerm' = HighestTerm(OnDisk)
  /\ UNCHANGED <<diskVars, unsynced, entry, countVars, historyVars>>

\* put up to flush; put_kv and replicate pass the LSN after the current one.
PutWrite(k, t) ==
  /\ phase = "idle" /\ puts < MaxPuts
  /\ phase' = "written"
  /\ entry' = [lsn |-> lsn + 1, term |-> t, key |-> k, id |-> puts + 1]
  /\ unsynced' = Append(unsynced, entry')
  /\ puts' = puts + 1
  /\ UNCHANGED <<diskVars, memoryVars, crashes, corruptions, historyVars>>

\* os.fsync makes durable all that was written, also what an earlier put
\* that failed has left.
SyncsNothing == << >>
Synced == unsynced

Fsync ==
  /\ phase = "written" /\ phase' = "synced"
  /\ file' = file \o Glued(tail, Synced)
  /\ tail' = << >>
  /\ unsynced' = << >>
  /\ UNCHANGED <<entry, memoryVars, countVars, historyVars>>

\* os.fsync raises: put raises OSError and the node goes on.
FsyncFails ==
  /\ phase = "written" /\ FsyncMayFail
  /\ phase' = "idle"
  /\ ghosts' = ghosts + 1
  /\ UNCHANGED <<diskVars, unsynced, entry, memoryVars, countVars, done, torn>>

\* The index may be updated once the entry is on disk.
IndexedEarly == phase \in {"written", "synced"}
Indexable == phase = "synced"

UpdateIndex ==
  /\ Indexable
  /\ phase' = "indexed"
  /\ index' = [index EXCEPT ![entry.key] = entry]
  /\ UNCHANGED <<diskVars, unsynced, entry, lsn, highestTerm, countVars,
                 historyVars>>

\* The LSN follows, and put returns.
UpdateLsn ==
  /\ phase = "indexed" /\ phase' = "idle"
  /\ lsn' = entry.lsn
  /\ done' = done \cup {entry}
  /\ UNCHANGED <<diskVars, unsynced, entry, index, highestTerm, countVars,
                 torn, ghosts>>

(* The process dies.  Of what it wrote and did not sync, survivors lines   *)
(* survive, and of the next one perhaps a part (cut).                      *)
Survive(survivors, cut) ==
  LET lines == SubSeq(unsynced, 1, survivors)
      rest  == IF lines = << >> THEN tail ELSE << >>
  IN
  /\ file' = IF lines = << >> THEN file ELSE file \o Glued(tail, lines)
  /\ tail' = IF cut = "none" THEN rest
             ELSE IF rest = << >> /\ cut = "before newline"
                  THEN <<unsynced[survivors + 1]>> ELSE <<Garbage>>
  /\ torn' = IF cut = "none" THEN torn ELSE torn + 1

Crash ==
  /\ phase # "down" /\ crashes < MaxCrashes
  /\ \E survivors \in 0 .. Len(unsynced), cut \in Tears \cup {"none"} :
       /\ cut # "none" => survivors < Len(unsynced)
       /\ Survive(survivors, cut)
  /\ phase' = "down"
  /\ unsynced' = << >>
  /\ entry' = NoEntry
  /\ index' = [k \in Key |-> NoEntry] /\ lsn' = 0 /\ highestTerm' = 0
  /\ crashes' = crashes + 1
  /\ UNCHANGED <<puts, corruptions, done, ghosts>>

\* CORRUPT_WAL appends a malformed line to the file, from outside the node.
CorruptWal ==
  /\ corruptions < MaxCorruptions
  /\ corruptions' = corruptions + 1
  /\ IF phase = "down"
     THEN file' = file \o Glued(tail, <<Garbage>>) /\ tail' = << >>
          /\ UNCHANGED unsynced
     ELSE unsynced' = Append(unsynced, Garbage) /\ UNCHANGED diskVars
  /\ UNCHANGED <<phase, entry, memoryVars, puts, crashes, historyVars>>

WALNext ==
  \/ Replay \/ Fsync \/ FsyncFails \/ UpdateIndex \/ UpdateLsn
  \/ Crash \/ CorruptWal
  \/ \E k \in Key, t \in 1 .. MaxTerm : PutWrite(k, t)

WALSpec == WALInit /\ [][WALNext]_walVars

-----------------------------------------------------------------------------
Lines == [lsn : 0 .. MaxPuts, term : 0 .. MaxTerm, key : Key \cup {NoKey},
          id : 0 .. MaxPuts]

\* The types of the variables.
WALTypeOK ==
  /\ file \in Seq(Lines)
  /\ tail \in Seq(Lines) /\ Len(tail) <= 1
  /\ unsynced \in Seq(Lines)
  /\ phase \in {"down", "idle", "written", "synced", "indexed"}
  /\ entry \in Lines
  /\ index \in [Key -> Lines]
  /\ lsn \in 0 .. MaxPuts
  /\ highestTerm \in 0 .. MaxTerm
  /\ puts \in 0 .. MaxPuts
  /\ crashes \in 0 .. MaxCrashes
  /\ corruptions \in 0 .. MaxCorruptions
  /\ done \subseteq Lines
  /\ torn \in 0 .. MaxCrashes
  /\ ghosts \in 0 .. MaxPuts

(* Every entry whose put returned is found by each later replay, whatever  *)
(* crashes, failed fsyncs and malformed lines come after it, except that a *)
(* crash that cuts a line costs at most one: the damage does not spread.   *)
LossBoundedByTears == Cardinality(done \ Recorded) <= torn

(* Where no crash has cut a line, a get never returns a value that a crash *)
(* could still take back: what the index shows is on disk (the write-ahead *)
(* order of put).                                                          *)
ReadsAreDurable ==
  torn = 0 => \A k \in Key : index[k] # NoEntry => index[k] \in Recorded

(* Between two puts, the index and the LSN in memory are those a restart   *)
(* would rebuild: a crash that cuts no line changes no answer of the node, *)
(* unless an fsync has failed.                                             *)
MemoryIsReplay ==
  phase = "idle" /\ torn = 0 /\ ghosts = 0 =>
    /\ lsn = HighestLsn(OnDisk)
    /\ \A k \in Key : index[k] = LatestFor(k, OnDisk)

(* The puts that have returned and whose LSN a later put that has returned *)
(* was given again.                                                        *)
Reused == {d \in done : \E e \in done : e.lsn = d.lsn /\ e.id > d.id}

(* No put is acknowledged with the LSN of an earlier one, over all the     *)
(* lives of the process and whatever fsyncs have failed, except that each  *)
(* line a crash has cut may free one LSN, that of the entry glued to it    *)
(* (docs/project-description.md:48 "Never reused" knows no exception).     *)
LsnReuseNeedsTear == Cardinality(Reused) <= torn

(* A node restarts in a term no lower than that of any entry it has        *)
(* acknowledged, also if a later entry has a lower term (highest_term).    *)
RestartKeepsTerm ==
  [][Replay /\ torn = 0 => \A e \in done : e.term <= highestTerm']_walVars

(* The records in the file and those on their way to it, the puts that     *)
(* have returned and the values a get may return behave as DurableLog      *)
(* promises: what is complete in the file stays, through every crash.      *)
Promised == INSTANCE DurableLog WITH
  Record <- Lines \ {Garbage}, written <- RecordsIn(unsynced),
  kept <- RecordsIn(file), answered <- done,
  shown <- {index[k] : k \in Key} \ {NoEntry}, cuts <- torn
ImplementsDurableLog == Promised!LogSpec

=============================================================================
