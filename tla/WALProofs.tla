----------------------------- MODULE WALProofs -----------------------------
(***************************************************************************)
(* Theorems about WAL.tla, for every set of keys and all bounds, up to the *)
(* refinement of DurableLog.tla.                                           *)
(***************************************************************************)
EXTENDS WAL, FiniteSetTheorems, WellFoundedInduction, TLAPS

USE DEF diskVars, memoryVars, countVars, historyVars

-----------------------------------------------------------------------------
(* The highest element of a bounded set of numbers exists.                 *)
LEMMA MaxIsHighest ==
  ASSUME NEW N \in Nat, NEW S \in SUBSET (0 .. N), S # {}
  PROVE  Max(S) \in S /\ \A y \in S : y <= Max(S)
<1> DEFINE T == {N - x : x \in S}
<1>0. \A x \in S : x \in Nat /\ x <= N /\ N - x \in Nat
  OBVIOUS
<1>1. T \subseteq Nat /\ T # {}
  BY <1>0
<1>2. PICK m \in T : \A y \in T : ~(<<y, m>> \in OpToRel(<, Nat))
  BY <1>1, NatLessThanWellFounded, WFMin
<1>3. \A y \in T : ~(y < m)
  BY <1>1, <1>2 DEF OpToRel
<1>4. PICK x \in S : m = N - x
  OBVIOUS
<1>5. \A y \in S : y <= x
  <2>1. ASSUME NEW y \in S PROVE y <= x
    <3>1. ~(N - y < N - x)
      BY <1>3, <1>4
    <3>2. QED BY <1>0, <3>1
  <2>2. QED BY <2>1
<1>6. \E z \in S : \A y \in S : z >= y
  BY <1>5
<1>7. /\ Max(S) \in S /\ \A y \in S : Max(S) >= y
  BY <1>6 DEF Max
<1> QED BY <1>7

-----------------------------------------------------------------------------
(* The records in a piece of the file.                                     *)
LEMMA RecordsOfConcat ==
  ASSUME NEW s \in Seq(Lines), NEW t \in Seq(Lines)
  PROVE  RecordsIn(s \o t) = RecordsIn(s) \cup RecordsIn(t)
<1>1. /\ s \o t \in Seq(Lines)
      /\ Len(s \o t) = Len(s) + Len(t)
      /\ \A i \in 1 .. Len(s) : (s \o t)[i] = s[i]
      /\ \A i \in 1 .. Len(t) : (s \o t)[Len(s) + i] = t[i]
      /\ Len(s) \in Nat /\ Len(t) \in Nat
      /\ DOMAIN s = 1 .. Len(s) /\ DOMAIN t = 1 .. Len(t)
      /\ DOMAIN (s \o t) = 1 .. Len(s) + Len(t)
  OBVIOUS
<1>2. \A i \in 1 .. Len(s) + Len(t) :
        i \in 1 .. Len(s) \/ (i - Len(s) \in 1 .. Len(t) /\ Len(s) + (i - Len(s)) = i)
  BY <1>1
<1>3. ASSUME NEW x \in RecordsIn(s \o t)
      PROVE  x \in RecordsIn(s) \cup RecordsIn(t)
  <2>1. PICK i \in 1 .. Len(s) + Len(t) : x = (s \o t)[i] /\ x # Garbage
    BY <1>1 DEF RecordsIn, Parsed
  <2>2. CASE i \in 1 .. Len(s)
    BY <1>1, <2>1, <2>2 DEF RecordsIn, Parsed
  <2>3. CASE i - Len(s) \in 1 .. Len(t) /\ Len(s) + (i - Len(s)) = i
    <3>1. x = t[i - Len(s)]
      BY <1>1, <2>1, <2>3
    <3>2. QED BY <1>1, <2>1, <2>3, <3>1 DEF RecordsIn, Parsed
  <2>4. QED BY <1>2, <2>2, <2>3
<1>4. ASSUME NEW x \in RecordsIn(s)
      PROVE  x \in RecordsIn(s \o t)
  <2>1. PICK i \in 1 .. Len(s) : x = s[i] /\ x # Garbage
    BY <1>1, <1>4 DEF RecordsIn, Parsed
  <2>2. i \in 1 .. Len(s) + Len(t) /\ x = (s \o t)[i]
    BY <1>1, <2>1
  <2>3. QED BY <1>1, <2>1, <2>2 DEF RecordsIn, Parsed
<1>5. ASSUME NEW x \in RecordsIn(t)
      PROVE  x \in RecordsIn(s \o t)
  <2>1. PICK i \in 1 .. Len(t) : x = t[i] /\ x # Garbage
    BY <1>1, <1>5 DEF RecordsIn, Parsed
  <2>2. Len(s) + i \in 1 .. Len(s) + Len(t) /\ x = (s \o t)[Len(s) + i]
    BY <1>1, <2>1
  <2>3. QED BY <1>1, <2>1, <2>2 DEF RecordsIn, Parsed
<1> QED BY <1>3, <1>4, <1>5

(* What is glued behind a cut line loses its first record and no other.    *)
LEMMA RecordsOfGlued ==
  ASSUME NEW rest \in Seq(Lines), NEW s \in Seq(Lines), s # << >>,
         Garbage \in Lines
  PROVE  /\ Glued(rest, s) \in Seq(Lines)
         /\ RecordsIn(Glued(rest, s)) \subseteq RecordsIn(s)
         /\ RecordsIn(s) \subseteq RecordsIn(Glued(rest, s)) \cup {s[1]}
         /\ rest = << >> => Glued(rest, s) = s
<1>1. CASE rest = << >>
  BY <1>1 DEF Glued
<1>2. CASE rest # << >>
  <2> DEFINE g == <<Garbage>> \o Tail(s)
  <2>1. Glued(rest, s) = g
    BY <1>2 DEF Glued
  <2>2. /\ Len(s) \in Nat /\ Len(s) >= 1 /\ DOMAIN s = 1 .. Len(s)
        /\ Tail(s) \in Seq(Lines) /\ Len(Tail(s)) = Len(s) - 1
        /\ \A i \in 1 .. Len(s) - 1 : Tail(s)[i] = s[i + 1]
    OBVIOUS
  <2>3. /\ g \in Seq(Lines) /\ Len(g) = Len(s) /\ DOMAIN g = 1 .. Len(s)
        /\ g[1] = Garbage
        /\ \A i \in 2 .. Len(s) : g[i] = s[i]
    BY <2>2
  <2> HIDE DEF g
  <2>4. \A i \in 1 .. Len(s) : i = 1 \/ i \in 2 .. Len(s)
    BY <2>2
  <2>5. RecordsIn(g) \subseteq RecordsIn(s)
    BY <2>2, <2>3, <2>4 DEF RecordsIn, Parsed
  <2>6. RecordsIn(s) \subseteq RecordsIn(g) \cup {s[1]}
    BY <2>2, <2>3, <2>4 DEF RecordsIn, Parsed
  <2> QED BY <1>2, <2>1, <2>3, <2>5, <2>6
<1> QED BY <1>1, <1>2

(* A prefix has no other records.                                          *)
LEMMA RecordsOfPrefix ==
  ASSUME NEW s \in Seq(Lines), NEW k \in 0 .. Len(s)
  PROVE  /\ SubSeq(s, 1, k) \in Seq(Lines)
         /\ Len(SubSeq(s, 1, k)) = k
         /\ \A i \in 1 .. k : SubSeq(s, 1, k)[i] = s[i]
         /\ RecordsIn(SubSeq(s, 1, k)) \subseteq RecordsIn(s)
<1>1. /\ SubSeq(s, 1, k) \in Seq(Lines)
      /\ Len(SubSeq(s, 1, k)) = k /\ DOMAIN SubSeq(s, 1, k) = 1 .. k
      /\ \A i \in 1 .. k : SubSeq(s, 1, k)[i] = s[i]
      /\ DOMAIN s = 1 .. Len(s) /\ Len(s) \in Nat
  OBVIOUS
<1>2. 1 .. k \subseteq 1 .. Len(s)
  BY <1>1
<1> QED BY <1>1, <1>2 DEF RecordsIn, Parsed

LEMMA RecordsOfOne ==
  ASSUME NEW x
  PROVE  RecordsIn(<<x>>) = {x} \ {Garbage} /\ RecordsIn(<< >>) = {}
BY DEF RecordsIn, Parsed

LEMMA RecordsAreLines ==
  ASSUME NEW s \in Seq(Lines)
  PROVE  RecordsIn(s) \subseteq Lines /\ Garbage \notin RecordsIn(s)
BY DEF RecordsIn, Parsed

LEMMA GarbageIsALine == Garbage \in Lines
BY LimitAssumption DEF Garbage, Lines

-----------------------------------------------------------------------------
(* Types.  The LSNs and the counters stay within their bounds because none *)
(* of them ever exceeds the number of puts, or of crashes.                 *)

\* The lines that puts puts can have written.
LinesUpTo(p) ==
  [lsn : 0 .. p, term : 0 .. MaxTerm, key : Key \cup {NoKey}, id : 0 .. MaxPuts]

CountInv ==
  /\ file \in Seq(LinesUpTo(puts))
  /\ tail \in Seq(LinesUpTo(puts))
  /\ unsynced \in Seq(LinesUpTo(puts))
  /\ entry \in LinesUpTo(puts)
  /\ lsn <= puts
  /\ torn <= crashes
  /\ ghosts <= puts
  /\ phase = "written" => ghosts + 1 <= puts /\ unsynced # << >>

TypeInv == WALTypeOK /\ CountInv

LEMMA SeqOfMore ==
  ASSUME NEW S, NEW T, S \subseteq T, NEW s \in Seq(S)
  PROVE  s \in Seq(T)
OBVIOUS

LEMMA MoreLines ==
  ASSUME NEW p \in 0 .. MaxPuts, NEW q \in p .. MaxPuts
  PROVE  /\ LinesUpTo(p) \subseteq LinesUpTo(q)
         /\ LinesUpTo(p) \subseteq Lines
         /\ Garbage \in LinesUpTo(p)
BY LimitAssumption DEF LinesUpTo, Lines, Garbage

LEMMA SeqClosed ==
  ASSUME NEW S
  PROVE  /\ \A s, t \in Seq(S) : s \o t \in Seq(S)
         /\ \A x \in S : <<x>> \in Seq(S) /\ Len(<<x>>) = 1
         /\ \A s \in Seq(S), x \in S :
               Append(s, x) \in Seq(S) /\ Append(s, x) # << >>
OBVIOUS

(* What is glued or cut keeps its type.                                    *)
LEMMA GluedType ==
  ASSUME NEW S, Garbage \in S, NEW rest \in Seq(S), NEW s \in Seq(S), s # << >>
  PROVE  Glued(rest, s) \in Seq(S)
<1>1. Tail(s) \in Seq(S) /\ <<Garbage>> \in Seq(S)
  OBVIOUS
<1>2. <<Garbage>> \o Tail(s) \in Seq(S)
  BY <1>1
<1> QED BY <1>2 DEF Glued

LEMMA SurviveType ==
  ASSUME NEW S, Garbage \in S,
         file \in Seq(S), tail \in Seq(S), unsynced \in Seq(S), Len(tail) <= 1,
         torn \in Nat,
         NEW survivors \in 0 .. Len(unsynced), NEW cut \in Tears \cup {"none"},
         cut # "none" => survivors < Len(unsynced),
         Survive(survivors, cut)
  PROVE  /\ file' \in Seq(S)
         /\ tail' \in Seq(S) /\ Len(tail') <= 1
         /\ torn' \in torn .. torn + 1
<1> DEFINE lines == SubSeq(unsynced, 1, survivors)
           rest  == IF lines = << >> THEN tail ELSE << >>
<1>1. lines \in Seq(S) /\ rest \in Seq(S) /\ Len(rest) <= 1
  <2>1. lines \in Seq(S)
    OBVIOUS
  <2> QED BY <2>1
<1>2. /\ lines = << >> => file' = file
      /\ lines # << >> => file' = file \o Glued(tail, lines)
  BY DEF Survive
<1>3. /\ cut = "none" => tail' = rest
      /\ cut # "none" => \/ tail' = <<unsynced[survivors + 1]>>
                         \/ tail' = <<Garbage>>
  BY DEF Survive
<1>4. torn' = torn \/ torn' = torn + 1
  BY DEF Survive
<1> HIDE DEF lines, rest
<1>5. file' \in Seq(S)
  <2>1. CASE lines = << >>
    BY <1>2, <2>1
  <2>2. CASE lines # << >>
    <3>1. Glued(tail, lines) \in Seq(S)
      BY <1>1, <2>2, GluedType
    <3>2. QED BY <1>2, <2>2, <3>1, SeqClosed
  <2> QED BY <2>1, <2>2
<1>6. tail' \in Seq(S) /\ Len(tail') <= 1
  <2>1. CASE cut = "none"
    BY <1>1, <1>3, <2>1
  <2>2. CASE cut # "none"
    <3>1. Len(unsynced) \in Nat /\ survivors + 1 \in 1 .. Len(unsynced)
      BY <2>2
    <3>2. unsynced[survivors + 1] \in S
      BY <3>1
    <3>3. \E x \in S : tail' = <<x>>
      BY <1>3, <2>2, <3>2
    <3>4. QED BY <3>3, SeqClosed
  <2> QED BY <2>1, <2>2
<1>7. torn' \in torn .. torn + 1
  BY <1>4
<1> QED BY <1>5, <1>6, <1>7

(* The highest LSN and term of a file are those of one of its lines, or 0. *)
LEMMA HighestOfFile ==
  ASSUME NEW p \in 0 .. MaxPuts, NEW s \in Seq(LinesUpTo(p))
  PROVE  /\ HighestLsn(s) \in 0 .. p
         /\ \A e \in RecordsIn(s) : e.lsn <= HighestLsn(s)
         /\ HighestLsn(s) = 0 \/ \E e \in RecordsIn(s) : e.lsn = HighestLsn(s)
         /\ HighestTerm(s) \in 0 .. MaxTerm
         /\ \A e \in RecordsIn(s) : e.term <= HighestTerm(s)
<1> DEFINE L == {0} \cup {s[i].lsn : i \in Parsed(s)}
           T == {0} \cup {s[i].term : i \in Parsed(s)}
<1>1. \A i \in Parsed(s) : s[i] \in LinesUpTo(p)
  BY DEF Parsed
<1>2. \A i \in Parsed(s) : s[i].lsn \in 0 .. p /\ s[i].term \in 0 .. MaxTerm
  BY <1>1 DEF LinesUpTo
<1>3. p \in Nat /\ MaxTerm \in Nat
  BY LimitAssumption
<1>4. L \in SUBSET (0 .. p) /\ L # {} /\ T \in SUBSET (0 .. MaxTerm) /\ T # {}
  BY <1>2, <1>3
<1>5. /\ \A e \in RecordsIn(s) : e.lsn \in L /\ e.term \in T
      /\ \A x \in L : x = 0 \/ \E e \in RecordsIn(s) : e.lsn = x
  BY DEF RecordsIn
<1> HIDE DEF L, T
<1>6. Max(L) \in L /\ \A y \in L : y <= Max(L)
  BY <1>3, <1>4, MaxIsHighest
<1>7. Max(T) \in T /\ \A y \in T : y <= Max(T)
  BY <1>3, <1>4, MaxIsHighest
<1>8. HighestLsn(s) = Max(L) /\ HighestTerm(s) = Max(T)
  BY DEF HighestLsn, HighestTerm, L, T
<1> QED BY <1>4, <1>5, <1>6, <1>7, <1>8

(* What a get finds after a replay: the last line of its key, or nothing.   *)
LEMMA LatestIsLast ==
  ASSUME NEW s \in Seq(Lines), NEW k
  PROVE  \/ /\ LatestFor(k, s) = NoEntry
            /\ \A i \in Parsed(s) : s[i].key # k
         \/ \E i \in Parsed(s) :
              /\ LatestFor(k, s) = s[i] /\ s[i].key = k
              /\ \A j \in Parsed(s) : s[j].key = k => j <= i
<1> DEFINE I == {i \in Parsed(s) : s[i].key = k}
<1>1. CASE I = {}
  BY <1>1 DEF LatestFor
<1>2. CASE I # {}
  <2>1. Len(s) \in Nat /\ DOMAIN s = 1 .. Len(s)
    OBVIOUS
  <2>2. I \in SUBSET (0 .. Len(s))
    BY <2>1 DEF Parsed
  <2> HIDE DEF I
  <2>3. Max(I) \in I /\ \A j \in I : j <= Max(I)
    BY <1>2, <2>1, <2>2, MaxIsHighest
  <2>4. LatestFor(k, s) = s[Max(I)]
    BY <1>2 DEF LatestFor, I
  <2> QED BY <2>3, <2>4 DEF I
<1> QED BY <1>1, <1>2

LEMMA LatestIsALine ==
  ASSUME NEW s \in Seq(Lines), NEW k
  PROVE  LatestFor(k, s) \in Lines
<1>1. \A i \in Parsed(s) : s[i] \in Lines
  BY DEF Parsed
<1> QED BY <1>1, LatestIsLast, GarbageIsALine DEF NoEntry

\* The types of the lines follow from the finer ones of CountInv.
LEMMA FinerTypes ==
  ASSUME puts \in 0 .. MaxPuts, CountInv
  PROVE  /\ file \in Seq(Lines) /\ tail \in Seq(Lines) /\ unsynced \in Seq(Lines)
         /\ entry \in Lines
<1>1. LinesUpTo(puts) \subseteq Lines
  BY LimitAssumption, MoreLines
<1> QED BY <1>1, SeqOfMore DEF CountInv

LEMMA TypeInit == WALInit => TypeInv
<1> SUFFICES ASSUME WALInit PROVE TypeInv
  OBVIOUS
<1>1. Garbage \in LinesUpTo(0) /\ Garbage \in Lines
  BY LimitAssumption, MoreLines, GarbageIsALine
<1>2. puts = 0 /\ puts \in 0 .. MaxPuts
  BY LimitAssumption DEF WALInit
<1>3. CountInv
  BY <1>1, <1>2 DEF WALInit, CountInv, NoEntry
<1>4. WALTypeOK
  BY <1>1, LimitAssumption DEF WALInit, WALTypeOK, NoEntry
<1> QED BY <1>3, <1>4 DEF TypeInv

LEMMA TypeStep == TypeInv /\ [WALNext]_walVars => TypeInv'
<1> SUFFICES ASSUME TypeInv, [WALNext]_walVars PROVE TypeInv'
  OBVIOUS
<1> USE LimitAssumption
<1> DEFINE S == LinesUpTo(puts)
<1>1. WALTypeOK /\ CountInv
  BY DEF TypeInv
<1>2. /\ puts \in 0 .. MaxPuts /\ lsn \in 0 .. MaxPuts
      /\ torn \in 0 .. MaxCrashes /\ crashes \in 0 .. MaxCrashes
      /\ ghosts \in 0 .. MaxPuts
      /\ index \in [Key -> Lines] /\ entry \in Lines /\ done \subseteq Lines
      /\ tail \in Seq(S) /\ Len(tail) <= 1
      /\ file \in Seq(S) /\ unsynced \in Seq(S) /\ entry \in S
  BY <1>1 DEF WALTypeOK, CountInv
<1>3. Garbage \in S /\ Garbage \in Lines /\ S \subseteq Lines
  BY <1>2, MoreLines, GarbageIsALine
<1>4. /\ << >> \in Seq(S) /\ Len(<< >>) = 0
  OBVIOUS
<1> HIDE DEF S
<1>5. ASSUME CountInv', puts' \in 0 .. MaxPuts
      PROVE  /\ file' \in Seq(Lines) /\ tail' \in Seq(Lines)
             /\ unsynced' \in Seq(Lines) /\ entry' \in Lines
  <2>1. LinesUpTo(puts') \subseteq Lines
    BY <1>5, MoreLines
  <2> QED BY <1>5, <2>1, SeqOfMore DEF CountInv
<1>10. CASE Replay
  <2>1. OnDisk \in Seq(S)
    BY <1>2, SeqClosed DEF OnDisk
  <2>2. lsn' \in 0 .. puts /\ highestTerm' \in 0 .. MaxTerm
    BY <1>2, <1>10, <2>1, HighestOfFile DEF Replay, S
  <2>3. ASSUME NEW k \in Key PROVE LatestFor(k, OnDisk) \in Lines
    <3>1. OnDisk \in Seq(Lines)
      BY <1>3, <2>1, SeqOfMore
    <3> QED BY <3>1, LatestIsALine
  <2>4. index' \in [Key -> Lines]
    BY <1>10, <2>3 DEF Replay
  <2>5. CountInv'
    BY <1>1, <1>2, <1>10, <2>2 DEF Replay, CountInv
  <2>6. WALTypeOK'
    BY <1>1, <1>2, <1>10, <2>2, <2>4 DEF Replay, WALTypeOK
  <2> QED BY <2>5, <2>6 DEF TypeInv
<1>11. ASSUME NEW k \in Key, NEW t \in 1 .. MaxTerm, PutWrite(k, t)
       PROVE  TypeInv'
  <2> DEFINE P == LinesUpTo(puts')
  <2>1. puts' = puts + 1 /\ puts' \in 0 .. MaxPuts
    BY <1>2, <1>11 DEF PutWrite
  <2>2. S \subseteq P
    BY <1>2, <2>1, MoreLines DEF S
  <2>3. entry' \in P
    <3>1. entry' = [lsn |-> lsn + 1, term |-> t, key |-> k, id |-> puts + 1]
      BY <1>11 DEF PutWrite
    <3>2. lsn + 1 \in 0 .. puts'
      BY <1>1, <1>2, <2>1 DEF CountInv
    <3> QED BY <2>1, <3>1, <3>2 DEF LinesUpTo
  <2> HIDE DEF P
  <2>4. file \in Seq(P) /\ tail \in Seq(P) /\ unsynced \in Seq(P)
    BY <1>2, <2>2, SeqOfMore
  <2>5. Append(unsynced, entry') \in Seq(P) /\ Append(unsynced, entry') # << >>
    BY <2>3, <2>4, SeqClosed
  <2>6. CountInv'
    <3>1. /\ file' \in Seq(P) /\ tail' \in Seq(P) /\ unsynced' \in Seq(P)
      BY <1>11, <2>4, <2>5 DEF PutWrite
    <3>2. lsn' <= puts' /\ torn' <= crashes' /\ ghosts' <= puts'
          /\ ghosts' + 1 <= puts' /\ unsynced' # << >>
      BY <1>1, <1>2, <1>11, <2>1, <2>5 DEF PutWrite, CountInv
    <3> QED BY <2>3, <3>1, <3>2 DEF CountInv, P
  <2>7. WALTypeOK'
    <3>1. tail' = tail
      BY <1>11 DEF PutWrite
    <3>2. file' \in Seq(Lines) /\ tail' \in Seq(Lines)
          /\ unsynced' \in Seq(Lines) /\ entry' \in Lines
      BY <1>5, <2>1, <2>6
    <3> QED BY <1>1, <1>11, <2>1, <3>1, <3>2 DEF PutWrite, WALTypeOK
  <2> QED BY <2>6, <2>7 DEF TypeInv
<1>12. CASE Fsync
  <2>1. Glued(tail, unsynced) \in Seq(S)
    <3>1. unsynced # << >>
      BY <1>1, <1>12 DEF Fsync, CountInv
    <3> QED BY <1>2, <1>3, <3>1, GluedType
  <2>2. file' \in Seq(S)
    BY <1>2, <1>12, <2>1, SeqClosed DEF Fsync, Synced
  <2>3. CountInv'
    BY <1>1, <1>2, <1>4, <1>12, <2>2 DEF Fsync, CountInv, S
  <2>4. WALTypeOK'
    BY <1>1, <1>4, <1>5, <1>12, <2>3, <1>2 DEF Fsync, WALTypeOK
  <2> QED BY <2>3, <2>4 DEF TypeInv
<1>13. CASE FsyncFails
  BY <1>1, <1>2, <1>13 DEF FsyncFails, WALTypeOK, CountInv, TypeInv
<1>14. CASE UpdateIndex
  <2>1. index' \in [Key -> Lines]
    BY <1>2, <1>14 DEF UpdateIndex
  <2> QED BY <1>1, <1>14, <2>1 DEF UpdateIndex, WALTypeOK, CountInv, TypeInv
<1>15. CASE UpdateLsn
  <2>1. entry.lsn \in 0 .. puts
    BY <1>2 DEF S, LinesUpTo
  <2> QED BY <1>1, <1>2, <1>15, <2>1
          DEF UpdateLsn, WALTypeOK, CountInv, TypeInv
<1>16. CASE Crash
  <2>1. PICK survivors \in 0 .. Len(unsynced), cut \in Tears \cup {"none"} :
          /\ cut # "none" => survivors < Len(unsynced)
          /\ Survive(survivors, cut)
    BY <1>16 DEF Crash
  <2>2. torn \in Nat
    BY <1>2
  <2>3. /\ file' \in Seq(S)
        /\ tail' \in Seq(S) /\ Len(tail') <= 1
        /\ torn' \in torn .. torn + 1
    BY <1>2, <1>3, <2>1, <2>2, SurviveType
  <2>4. crashes' = crashes + 1 /\ crashes' \in 0 .. MaxCrashes
    BY <1>2, <1>16 DEF Crash
  <2>5. torn' <= crashes' /\ torn' \in 0 .. MaxCrashes
    BY <1>1, <1>2, <2>3, <2>4 DEF CountInv
  <2>6. CountInv'
    BY <1>1, <1>2, <1>3, <1>4, <1>16, <2>3, <2>5 DEF Crash, CountInv, NoEntry, S
  <2>7. index' \in [Key -> Lines]
    BY <1>3, <1>16 DEF Crash, NoEntry
  <2>8. WALTypeOK'
    <3>1. /\ file' \in Seq(Lines) /\ tail' \in Seq(Lines)
          /\ unsynced' \in Seq(Lines) /\ entry' \in Lines
      BY <1>2, <1>5, <1>16, <2>6 DEF Crash
    <3> QED BY <1>1, <1>2, <1>16, <2>3, <2>4, <2>5, <2>7, <3>1
            DEF Crash, WALTypeOK
  <2> QED BY <2>6, <2>8 DEF TypeInv
<1>17. CASE CorruptWal
  <2>1. /\ file' \in Seq(S) /\ unsynced' \in Seq(S)
        /\ tail' \in Seq(S) /\ Len(tail') <= 1
    <3>1. CASE phase = "down"
      <4>1. <<Garbage>> \in Seq(S) /\ <<Garbage>> # << >>
        BY <1>3, SeqClosed
      <4>2. file \o Glued(tail, <<Garbage>>) \in Seq(S)
        BY <1>2, <1>3, <4>1, GluedType, SeqClosed
      <4>3. /\ file' = file \o Glued(tail, <<Garbage>>) /\ tail' = << >>
            /\ unsynced' = unsynced
        BY <1>17, <3>1 DEF CorruptWal
      <4> QED BY <1>2, <1>4, <4>2, <4>3
    <3>2. CASE phase # "down"
      BY <1>2, <1>3, <1>17, <3>2, SeqClosed DEF CorruptWal
    <3> QED BY <3>1, <3>2
  <2>2. phase' = "written" => unsynced' # << >>
    <3>1. phase # "down" => Append(unsynced, Garbage) # << >>
      BY <1>2, <1>3, SeqClosed
    <3> QED BY <1>17, <3>1 DEF CorruptWal
  <2>3. CountInv'
    BY <1>1, <1>2, <1>17, <2>1, <2>2 DEF CorruptWal, CountInv, S
  <2>4. WALTypeOK'
    <3>1. /\ file' \in Seq(Lines) /\ tail' \in Seq(Lines)
          /\ unsynced' \in Seq(Lines)
      BY <1>2, <1>5, <1>17, <2>3 DEF CorruptWal
    <3>2. corruptions' \in 0 .. MaxCorruptions
      BY <1>1, <1>17 DEF CorruptWal, WALTypeOK
    <3> QED BY <1>1, <1>17, <2>1, <3>1, <3>2 DEF CorruptWal, WALTypeOK
  <2> QED BY <2>3, <2>4 DEF TypeInv
<1>18. CASE UNCHANGED walVars
  BY <1>1, <1>18 DEF walVars, WALTypeOK, CountInv, TypeInv
<1> QED
  BY <1>10, <1>11, <1>12, <1>13, <1>14, <1>15, <1>16, <1>17, <1>18 DEF WALNext

(* The types of the storage engine, and the bounds its counters keep.      *)
THEOREM WALTypeCorrect == WALSpec => []WALTypeOK
<1>1. TypeInv => WALTypeOK
  BY DEF TypeInv
<1> QED BY <1>1, TypeInit, TypeStep, PTL DEF WALSpec

-----------------------------------------------------------------------------
(* What a crash takes.  An entry is missing if its put has returned, or is *)
(* past its fsync, and no complete line of the file holds it.  Each crash  *)
(* that cuts a line is used up once: by the text without a newline it      *)
(* leaves at the end of the file, and when the next line is glued to that  *)
(* text, by the entry of that line.                                        *)

Committed ==
  IF phase \in {"synced", "indexed"} THEN done \cup {entry} ELSE done
Missing == Committed \ RecordsIn(file)

LossInv ==
  /\ IsFiniteSet(done)
  /\ phase = "down" => unsynced = << >>
  /\ phase = "written" => entry \in RecordsIn(unsynced)
  /\ Cardinality(Missing) + Len(tail) <= torn

LEMMA FewerElements ==
  ASSUME NEW M, IsFiniteSet(M), NEW N \in SUBSET M
  PROVE  /\ IsFiniteSet(N) /\ Cardinality(N) \in Nat /\ Cardinality(M) \in Nat
         /\ Cardinality(N) <= Cardinality(M)
BY FS_Subset, FS_CardinalityType

LEMMA OneMoreElement ==
  ASSUME NEW M, IsFiniteSet(M), NEW e, NEW N \in SUBSET (M \cup {e})
  PROVE  /\ IsFiniteSet(N) /\ Cardinality(N) \in Nat /\ Cardinality(M) \in Nat
         /\ Cardinality(N) <= Cardinality(M) + 1
<1>1. /\ IsFiniteSet(M \cup {e}) /\ Cardinality(M) \in Nat
      /\ Cardinality(M \cup {e}) \in Nat
      /\ Cardinality(M \cup {e}) <= Cardinality(M) + 1
  BY FS_AddElement, FS_CardinalityType
<1>2. /\ IsFiniteSet(N) /\ Cardinality(N) \in Nat
      /\ Cardinality(N) <= Cardinality(M \cup {e})
  BY <1>1, FewerElements
<1> QED BY <1>1, <1>2

LEMMA RecordsOfAppend ==
  ASSUME NEW s \in Seq(Lines), NEW x \in Lines
  PROVE  RecordsIn(Append(s, x)) = RecordsIn(s) \cup ({x} \ {Garbage})
<1>1. <<x>> \in Seq(Lines) /\ Append(s, x) = s \o <<x>>
  OBVIOUS
<1> QED BY <1>1, RecordsOfConcat, RecordsOfOne

\* A crash takes no complete line, and leaves text without a newline only
\* if there was some or it has cut a line.
LEMMA SurviveKeeps ==
  ASSUME TypeInv,
         NEW survivors \in 0 .. Len(unsynced), NEW cut \in Tears \cup {"none"},
         Survive(survivors, cut)
  PROVE  /\ RecordsIn(file) \subseteq RecordsIn(file')
         /\ Len(tail') - Len(tail) <= torn' - torn
<1> DEFINE lines == SubSeq(unsynced, 1, survivors)
<1>1. /\ file \in Seq(Lines) /\ tail \in Seq(Lines) /\ unsynced \in Seq(Lines)
      /\ Len(tail) \in Nat /\ torn \in Nat
  BY DEF TypeInv, WALTypeOK
<1>2. lines \in Seq(Lines)
  BY <1>1, RecordsOfPrefix
<1>3. /\ lines = << >> => file' = file
      /\ lines # << >> => file' = file \o Glued(tail, lines)
  BY DEF Survive
<1>4. \/ torn' = torn /\ Len(tail') \in 0 .. Len(tail)
      \/ torn' = torn + 1 /\ Len(tail') = 1
  <2>1. CASE cut = "none"
    <3>1. torn' = torn /\ (tail' = tail \/ tail' = << >>)
      BY <2>1 DEF Survive
    <3> QED BY <1>1, <3>1
  <2>2. CASE cut # "none"
    <3>1. torn' = torn + 1 /\ \E x : tail' = <<x>>
      BY <2>2 DEF Survive
    <3>2. \A x : Len(<<x>>) = 1
      OBVIOUS
    <3> QED BY <3>1, <3>2
  <2> QED BY <2>1, <2>2
<1> HIDE DEF lines
<1>5. RecordsIn(file) \subseteq RecordsIn(file')
  <2>1. CASE lines = << >>
    BY <1>3, <2>1
  <2>2. CASE lines # << >>
    <3>1. Glued(tail, lines) \in Seq(Lines)
      BY <1>1, <1>2, <2>2, GarbageIsALine, GluedType
    <3>2. RecordsIn(file \o Glued(tail, lines)) =
            RecordsIn(file) \cup RecordsIn(Glued(tail, lines))
      BY <1>1, <3>1, RecordsOfConcat
    <3> QED BY <1>3, <2>2, <3>2
  <2> QED BY <2>1, <2>2
<1>6. Len(tail') - Len(tail) <= torn' - torn
  <2>1. Len(tail) \in Nat /\ torn \in Nat
    BY <1>1
  <2>2. CASE torn' = torn /\ Len(tail') \in 0 .. Len(tail)
    <3>1. Len(tail') - Len(tail) <= 0 /\ torn' - torn = 0
      BY <2>1, <2>2
    <3> QED BY <3>1
  <2>3. CASE torn' = torn + 1 /\ Len(tail') = 1
    <3>1. 1 - Len(tail) <= 1 /\ torn' - torn = 1
      BY <2>1, <2>3
    <3> QED BY <2>3, <3>1
  <2> QED BY <1>4, <2>2, <2>3
<1> QED BY <1>5, <1>6

LEMMA LossInit == WALInit => LossInv
<1> SUFFICES ASSUME WALInit PROVE LossInv
  OBVIOUS
<1>1. Missing = {} /\ Len(tail) = 0 /\ torn = 0
  BY DEF WALInit, Missing, Committed
<1>2. IsFiniteSet({}) /\ Cardinality({}) = 0
  BY FS_EmptySet
<1> QED BY <1>1, <1>2 DEF WALInit, LossInv

LEMMA LossStep == TypeInv /\ LossInv /\ [WALNext]_walVars => LossInv'
<1> SUFFICES ASSUME TypeInv, LossInv, [WALNext]_walVars PROVE LossInv'
  OBVIOUS
<1>1. /\ file \in Seq(Lines) /\ tail \in Seq(Lines) /\ unsynced \in Seq(Lines)
      /\ entry \in Lines /\ Len(tail) \in 0 .. 1 /\ torn \in Nat
      /\ phase = "written" => unsynced # << >>
  <2>1. tail \in Seq(Lines)
    BY DEF TypeInv, WALTypeOK
  <2>2. Len(tail) <= 1
    BY DEF TypeInv, WALTypeOK
  <2>3. Len(tail) \in Nat
    BY <2>1
  <2>4. Len(tail) \in 0 .. 1
    BY <2>2, <2>3
  <2> QED BY <2>4 DEF TypeInv, WALTypeOK, CountInv
<1>2. /\ IsFiniteSet(done) /\ IsFiniteSet(Committed) /\ IsFiniteSet(Missing)
      /\ Cardinality(Missing) \in Nat
      /\ Cardinality(Missing) + Len(tail) <= torn
      /\ IsFiniteSet(done \cup {entry})
  <2>1. IsFiniteSet(done) /\ IsFiniteSet(done \cup {entry})
    BY FS_AddElement DEF LossInv
  <2>2. IsFiniteSet(Committed)
    BY <2>1 DEF Committed
  <2>3. IsFiniteSet(Missing) /\ Cardinality(Missing) \in Nat
    BY <2>2, FewerElements, FS_CardinalityType DEF Missing
  <2> QED BY <2>1, <2>2, <2>3 DEF LossInv
(* The accounting of every step but Fsync.                                 *)
<1>3. ASSUME Missing' \subseteq Missing, torn' \in Nat,
             Len(tail') - Len(tail) <= torn' - torn, Len(tail') \in Nat
      PROVE  Cardinality(Missing') + Len(tail') <= torn'
  <2>1. /\ Cardinality(Missing') \in Nat
        /\ Cardinality(Missing') <= Cardinality(Missing)
    BY <1>2, <1>3, FewerElements
  <2> QED BY <1>1, <1>2, <1>3, <2>1
<1>4. ASSUME UNCHANGED <<file, tail, torn, Committed>>
      PROVE  Cardinality(Missing') + Len(tail') <= torn'
  BY <1>2, <1>4 DEF Missing
<1>10. CASE Replay
  <2>1. UNCHANGED <<file, tail, torn, Committed>>
    BY <1>10 DEF Replay, Committed
  <2> QED BY <1>2, <1>4, <1>10, <2>1 DEF Replay, LossInv
<1>11. ASSUME NEW k \in Key, NEW t \in 1 .. MaxTerm, PutWrite(k, t)
       PROVE  LossInv'
  <2>1. UNCHANGED <<file, tail, torn, Committed>>
    BY <1>11 DEF PutWrite, Committed
  <2>2. entry' # Garbage /\ entry' \in Lines
    <3>1. entry'.key = k /\ Garbage.key = NoKey
      BY <1>11 DEF PutWrite, Garbage
    <3>2. TypeInv'
      BY TypeStep
    <3> QED BY <3>1, <3>2, KeyAssumption DEF TypeInv, WALTypeOK
  <2>3. entry' \in RecordsIn(unsynced')
    BY <1>1, <1>11, <2>2, RecordsOfAppend DEF PutWrite
  <2> QED BY <1>2, <1>4, <1>11, <2>1, <2>3 DEF PutWrite, LossInv
<1>12. CASE Fsync
  <2> DEFINE g == Glued(tail, unsynced)
  <2>1. /\ phase = "written" /\ phase' = "synced" /\ entry' = entry
        /\ file' = file \o g /\ tail' = << >> /\ done' = done /\ torn' = torn
        /\ unsynced # << >>
    BY <1>1, <1>12 DEF Fsync, Synced
  <2>2. /\ g \in Seq(Lines)
        /\ RecordsIn(unsynced) \subseteq RecordsIn(g) \cup {unsynced[1]}
        /\ tail = << >> => g = unsynced
    BY <1>1, <2>1, RecordsOfGlued, GarbageIsALine
  <2> HIDE DEF g
  <2>3. RecordsIn(file') = RecordsIn(file) \cup RecordsIn(g)
    BY <1>1, <2>1, <2>2, RecordsOfConcat
  <2>4. entry \in RecordsIn(unsynced) /\ Committed = done
    BY <2>1 DEF LossInv, Committed
  <2>5. Committed' = done \cup {entry}
    BY <2>1 DEF Committed
  <2>6. Len(<< >>) = 0 /\ (tail = << >> \/ Len(tail) = 1)
    BY <1>1
  <2>7. Cardinality(Missing') <= torn
    <3>1. CASE tail = << >>
      <4>1. Missing' \subseteq Missing
        BY <2>2, <2>3, <2>4, <2>5, <3>1 DEF Missing
      <4>2. Len(tail) = 0
        BY <2>6, <3>1
      <4> QED BY <1>1, <1>2, <4>1, <4>2, FewerElements
    <3>2. CASE Len(tail) = 1
      <4>1. Missing' \subseteq Missing \cup {entry}
        BY <2>3, <2>4, <2>5 DEF Missing
      <4>2. /\ Cardinality(Missing') \in Nat
            /\ Cardinality(Missing') <= Cardinality(Missing) + 1
        BY <1>2, <4>1, OneMoreElement
      <4> QED BY <1>1, <1>2, <3>2, <4>2
    <3> QED BY <2>6, <3>1, <3>2
  <2>8. IsFiniteSet(Missing') /\ Cardinality(Missing') \in Nat
    <3>1. Missing' \subseteq done \cup {entry}
      BY <2>5 DEF Missing
    <3> QED BY <1>2, <3>1, FewerElements
  <2>9. Cardinality(Missing') + Len(tail') <= torn'
    BY <1>1, <2>1, <2>6, <2>7, <2>8
  <2> QED BY <1>2, <2>1, <2>9 DEF LossInv
<1>13. CASE FsyncFails
  <2>1. UNCHANGED <<file, tail, torn, Committed>>
    BY <1>13 DEF FsyncFails, Committed
  <2> QED BY <1>2, <1>4, <1>13, <2>1 DEF FsyncFails, LossInv
<1>14. CASE UpdateIndex
  <2>1. UNCHANGED <<file, tail, torn, Committed>>
    BY <1>14 DEF UpdateIndex, Indexable, Committed
  <2> QED BY <1>2, <1>4, <1>14, <2>1 DEF UpdateIndex, LossInv
<1>15. CASE UpdateLsn
  <2>1. UNCHANGED <<file, tail, torn, Committed>>
    BY <1>15 DEF UpdateLsn, Committed
  <2> QED BY <1>2, <1>4, <1>15, <2>1 DEF UpdateLsn, LossInv
<1>16. CASE Crash
  <2>1. PICK survivors \in 0 .. Len(unsynced), cut \in Tears \cup {"none"} :
          Survive(survivors, cut)
    BY <1>16 DEF Crash
  <2>2. /\ RecordsIn(file) \subseteq RecordsIn(file')
        /\ Len(tail') - Len(tail) <= torn' - torn
    BY <2>1, SurviveKeeps
  <2>3. done' = done /\ phase' = "down" /\ unsynced' = << >>
    BY <1>16 DEF Crash
  <2>4. Missing' \subseteq Missing
    BY <2>2, <2>3 DEF Missing, Committed
  <2>5. torn' \in Nat /\ Len(tail') \in Nat
    <3>1. TypeInv'
      BY TypeStep
    <3>2. torn' \in 0 .. MaxCrashes /\ tail' \in Seq(Lines)
      BY <3>1 DEF TypeInv, WALTypeOK
    <3> QED BY <3>2, LimitAssumption
  <2> QED BY <1>2, <1>3, <2>2, <2>3, <2>4, <2>5 DEF LossInv
<1>17. CASE CorruptWal
  <2>1. /\ phase' = phase /\ entry' = entry /\ done' = done /\ torn' = torn
        /\ Committed' = Committed
    BY <1>17 DEF CorruptWal, Committed
  <2>2. CASE phase = "down"
    <3>1. /\ file' = file \o Glued(tail, <<Garbage>>) /\ tail' = << >>
          /\ unsynced' = unsynced
      BY <1>17, <2>2 DEF CorruptWal
    <3>2. <<Garbage>> \in Seq(Lines) /\ <<Garbage>> # << >> /\ Len(<< >>) = 0
      BY GarbageIsALine
    <3>3. Glued(tail, <<Garbage>>) \in Seq(Lines)
      BY <1>1, <3>2, GluedType, GarbageIsALine
    <3>4. Missing' \subseteq Missing
      BY <1>1, <2>1, <3>1, <3>3, RecordsOfConcat DEF Missing
    <3>5. Cardinality(Missing') + Len(tail') <= torn'
      BY <1>1, <1>3, <2>1, <3>1, <3>2, <3>4
    <3> QED BY <1>2, <2>1, <2>2, <3>1, <3>5 DEF LossInv
  <2>3. CASE phase # "down"
    <3>1. UNCHANGED <<file, tail>> /\ unsynced' = Append(unsynced, Garbage)
      BY <1>17, <2>3 DEF CorruptWal
    <3>2. phase = "written" => entry \in RecordsIn(unsynced')
      BY <1>1, <3>1, GarbageIsALine, RecordsOfAppend DEF LossInv
    <3> QED BY <1>2, <1>4, <2>1, <2>3, <3>1, <3>2 DEF LossInv
  <2> QED BY <2>2, <2>3
<1>18. CASE UNCHANGED walVars
  <2>1. UNCHANGED <<file, tail, torn, Committed, unsynced, phase, entry, done>>
    BY <1>18 DEF walVars, Committed
  <2> QED BY <1>4, <2>1 DEF LossInv
<1> QED
  BY <1>10, <1>11, <1>12, <1>13, <1>14, <1>15, <1>16, <1>17, <1>18 DEF WALNext

\* What is recorded: the complete lines, and a last line cut just before its
\* newline.
LEMMA RecordedIsInFile ==
  ASSUME TypeInv
  PROVE  /\ Recorded = RecordsIn(OnDisk) /\ OnDisk \in Seq(Lines)
         /\ RecordsIn(OnDisk) = RecordsIn(file) \cup RecordsIn(tail)
<1>1. file \in Seq(Lines) /\ tail \in Seq(Lines)
  BY DEF TypeInv, WALTypeOK
<1>2. OnDisk \in Seq(Lines)
  BY <1>1 DEF OnDisk
<1>3. RecordsIn(OnDisk) = RecordsIn(file) \cup RecordsIn(tail)
  BY <1>1, RecordsOfConcat DEF OnDisk
<1>4. Recorded = RecordsIn(OnDisk)
  BY DEF Recorded, RecordsIn
<1> QED BY <1>2, <1>3, <1>4

\* Where no crash has cut a line, nothing is missing.
LEMMA NoTearNoLoss ==
  ASSUME TypeInv, LossInv, torn = 0
  PROVE  /\ Committed \subseteq RecordsIn(file)
         /\ tail = << >>
<1>1. tail \in Seq(Lines) /\ Len(tail) \in Nat
  BY DEF TypeInv, WALTypeOK
<1>2. IsFiniteSet(Missing) /\ Cardinality(Missing) \in Nat
  <2>1. IsFiniteSet(done \cup {entry}) /\ Missing \subseteq done \cup {entry}
    BY FS_AddElement DEF LossInv, Missing, Committed
  <2> QED BY <2>1, FewerElements
<1>3. Cardinality(Missing) = 0 /\ Len(tail) = 0
  BY <1>1, <1>2 DEF LossInv
<1>4. Missing = {}
  BY <1>2, <1>3, FS_EmptySet
<1> QED BY <1>1, <1>3, <1>4 DEF Missing

(* A crash that cuts a line costs at most one entry whose put returned: no *)
(* failed fsync, malformed line or later crash makes the damage spread.    *)
THEOREM LossIsBounded == WALSpec => []LossBoundedByTears
<1>1. ASSUME TypeInv, LossInv PROVE LossBoundedByTears
  <2>1. torn \in Nat /\ Len(tail) \in Nat
    BY <1>1 DEF TypeInv, WALTypeOK
  <2>2. done \ Recorded \subseteq Missing
    BY <1>1, RecordedIsInFile DEF Missing, Committed
  <2>3. IsFiniteSet(Missing)
    <3>1. IsFiniteSet(done \cup {entry}) /\ Missing \subseteq done \cup {entry}
      BY <1>1, FS_AddElement DEF LossInv, Missing, Committed
    <3> QED BY <3>1, FewerElements
  <2>4. /\ Cardinality(done \ Recorded) \in Nat /\ Cardinality(Missing) \in Nat
        /\ Cardinality(done \ Recorded) <= Cardinality(Missing)
    BY <2>2, <2>3, FewerElements
  <2> QED BY <1>1, <2>1, <2>4 DEF LossInv, LossBoundedByTears
<1> QED
  BY <1>1, TypeInit, TypeStep, LossInit, LossStep, PTL DEF WALSpec

(* Without a cut line, a restart finds a term as high as that of any       *)
(* acknowledged entry.                                                     *)
THEOREM TermSurvivesRestart == WALSpec => RestartKeepsTerm
<1>1. ASSUME TypeInv, LossInv, Replay, torn = 0, NEW e \in done
      PROVE  e.term <= highestTerm'
  <2>1. e \in RecordsIn(OnDisk)
    BY <1>1, NoTearNoLoss, RecordedIsInFile DEF Committed
  <2>2. OnDisk \in Seq(LinesUpTo(puts)) /\ puts \in 0 .. MaxPuts
    BY <1>1, SeqClosed DEF TypeInv, CountInv, WALTypeOK, OnDisk
  <2>3. e.term <= HighestTerm(OnDisk)
    BY <2>1, <2>2, HighestOfFile
  <2> QED BY <1>1, <2>3 DEF Replay
<1>2. TypeInv /\ LossInv =>
        [Replay /\ torn = 0 => \A e \in done : e.term <= highestTerm']_walVars
  BY <1>1
<1> QED
  BY <1>2, TypeInit, TypeStep, LossInit, LossStep, PTL
     DEF WALSpec, RestartKeepsTerm

-----------------------------------------------------------------------------
(* Reads.                                                                  *)

\* What the index shows is in the file, where no crash has cut a line.
ReadInv ==
  torn = 0 => \A k \in Key : index[k] # NoEntry => index[k] \in RecordsIn(file)

\* No step takes a complete line from the file, or repairs a cut.
LEMMA FileGrows ==
  ASSUME TypeInv, [WALNext]_walVars
  PROVE  /\ RecordsIn(file) \subseteq RecordsIn(file')
         /\ torn' = 0 => torn = 0
<1>0. torn \in Nat
  BY DEF TypeInv, WALTypeOK
<1>1. /\ file \in Seq(Lines) /\ tail \in Seq(Lines) /\ unsynced \in Seq(Lines)
  BY DEF TypeInv, WALTypeOK
<1>2. ASSUME NEW s \in Seq(Lines), s # << >>
      PROVE  RecordsIn(file) \subseteq RecordsIn(file \o Glued(tail, s))
  <2>1. Glued(tail, s) \in Seq(Lines)
    BY <1>1, <1>2, GluedType, GarbageIsALine
  <2> QED BY <1>1, <1>2, <2>1, RecordsOfConcat
<1>3. CASE Fsync
  <2>1. file' = file \o Glued(tail, unsynced) /\ unsynced # << >>
    BY <1>3 DEF Fsync, Synced, TypeInv, CountInv
  <2>2. RecordsIn(file) \subseteq RecordsIn(file \o Glued(tail, unsynced))
    BY <1>1, <1>2, <2>1
  <2>3. torn' = torn
    BY <1>3 DEF Fsync
  <2> QED BY <2>1, <2>2, <2>3
<1>4. CASE Crash
  <2>1. PICK survivors \in 0 .. Len(unsynced), cut \in Tears \cup {"none"} :
          Survive(survivors, cut)
    BY <1>4 DEF Crash
  <2>2. torn' = torn \/ torn' = torn + 1
    BY <2>1 DEF Survive
  <2>3. torn' = 0 => torn = 0
    BY <1>0, <2>2
  <2> QED BY <2>1, <2>3, SurviveKeeps
<1>5. CASE CorruptWal
  <2>1. <<Garbage>> \in Seq(Lines) /\ <<Garbage>> # << >>
    BY GarbageIsALine
  <2>2. RecordsIn(file) \subseteq RecordsIn(file \o Glued(tail, <<Garbage>>))
    BY <1>2, <2>1
  <2> QED BY <1>5, <2>2 DEF CorruptWal
<1>6. CASE Replay \/ FsyncFails \/ UpdateIndex \/ UpdateLsn \/ UNCHANGED walVars
  BY <1>6 DEF Replay, FsyncFails, UpdateIndex, UpdateLsn, walVars
<1>7. ASSUME NEW k \in Key, NEW t \in 1 .. MaxTerm, PutWrite(k, t)
      PROVE  RecordsIn(file) \subseteq RecordsIn(file') /\ (torn' = 0 => torn = 0)
  BY <1>7 DEF PutWrite
<1>8. Fsync \/ CorruptWal => torn' = torn
  BY DEF Fsync, CorruptWal
<1> QED BY <1>3, <1>4, <1>5, <1>6, <1>7, <1>8 DEF WALNext

LEMMA ReadInit == WALInit => ReadInv
BY DEF WALInit, ReadInv

LEMMA ReadStep ==
  TypeInv /\ LossInv /\ ReadInv /\ [WALNext]_walVars => ReadInv'
<1> SUFFICES ASSUME TypeInv, LossInv, ReadInv, [WALNext]_walVars, torn' = 0
             PROVE  \A k \in Key :
                      index'[k] # NoEntry => index'[k] \in RecordsIn(file')
  BY DEF ReadInv
<1>1. torn = 0 /\ RecordsIn(file) \subseteq RecordsIn(file')
  BY FileGrows
<1>2. index \in [Key -> Lines]
  BY DEF TypeInv, WALTypeOK
<1>3. \A k \in Key : index[k] # NoEntry => index[k] \in RecordsIn(file')
  BY <1>1 DEF ReadInv
<1>4. CASE Replay
  <2>1. OnDisk \in Seq(Lines) /\ RecordsIn(OnDisk) \subseteq RecordsIn(file)
    BY <1>1, RecordedIsInFile, NoTearNoLoss, RecordsOfOne
  <2>2. \A k \in Key : \/ LatestFor(k, OnDisk) = NoEntry
                       \/ LatestFor(k, OnDisk) \in RecordsIn(OnDisk)
    BY <2>1, LatestIsLast DEF RecordsIn
  <2>3. \A k \in Key : index'[k] = LatestFor(k, OnDisk)
    BY <1>4 DEF Replay
  <2> QED BY <1>1, <2>1, <2>2, <2>3
<1>5. CASE UpdateIndex
  <2>1. entry \in RecordsIn(file)
    BY <1>1, <1>5, NoTearNoLoss DEF UpdateIndex, Indexable, Committed
  <2>2. \A k \in Key : index'[k] = index[k] \/ index'[k] = entry
    BY <1>2, <1>5 DEF UpdateIndex
  <2> QED BY <1>1, <1>3, <2>1, <2>2
<1>6. CASE Crash
  <2>1. \A k \in Key : index'[k] = NoEntry
    BY <1>6 DEF Crash
  <2> QED BY <2>1
<1>7. CASE UNCHANGED index
  BY <1>3, <1>7
<1>8. ASSUME NEW k \in Key, NEW t \in 1 .. MaxTerm, PutWrite(k, t)
      PROVE  UNCHANGED index
  BY <1>8 DEF PutWrite
<1>9. Fsync \/ FsyncFails \/ UpdateLsn \/ CorruptWal \/ UNCHANGED walVars
        => UNCHANGED index
  BY DEF Fsync, FsyncFails, UpdateLsn, CorruptWal, walVars
<1> QED BY <1>4, <1>5, <1>6, <1>7, <1>8, <1>9 DEF WALNext

(* Where no crash has cut a line, no get returns a value a crash can take. *)
THEOREM DurableReads == WALSpec => []ReadsAreDurable
<1>1. ASSUME TypeInv, ReadInv PROVE ReadsAreDurable
  BY <1>1, RecordedIsInFile DEF ReadInv, ReadsAreDurable
<1> QED
  BY <1>1, TypeInit, TypeStep, LossInit, LossStep, ReadInit, ReadStep, PTL
     DEF WALSpec

-----------------------------------------------------------------------------
(* The order of the LSNs, as long as no fsync has failed.                  *)

Ascends(s) == \A i, j \in Parsed(s) : i < j => s[i].lsn < s[j].lsn
Below(s, t) == \A x \in RecordsIn(s), y \in RecordsIn(t) : x.lsn < y.lsn
Within(s, b) == \A x \in RecordsIn(s) : x.lsn <= b

\* The highest LSN written by this life of the process.
Horizon == IF phase = "idle" THEN lsn ELSE lsn + 1

OrderInv ==
  ghosts = 0 =>
    /\ Ascends(file) /\ Ascends(unsynced)
    /\ Below(file, tail) /\ Below(file, unsynced) /\ Below(tail, unsynced)
    /\ phase # "down" => /\ Within(file, Horizon) /\ Within(tail, Horizon)
                         /\ Within(unsynced, Horizon)
    /\ phase \in {"written", "synced", "indexed"} => entry.lsn = lsn + 1

LEMMA AscendsConcat ==
  ASSUME NEW s \in Seq(Lines), NEW t \in Seq(Lines),
         Ascends(s), Ascends(t), Below(s, t)
  PROVE  Ascends(s \o t)
<1>1. /\ Len(s) \in Nat /\ Len(t) \in Nat
      /\ DOMAIN s = 1 .. Len(s) /\ DOMAIN t = 1 .. Len(t)
      /\ DOMAIN (s \o t) = 1 .. Len(s) + Len(t)
      /\ \A i \in 1 .. Len(s) : (s \o t)[i] = s[i]
      /\ \A i \in 1 .. Len(s) + Len(t) :
           i > Len(s) => i - Len(s) \in 1 .. Len(t) /\ (s \o t)[i] = t[i - Len(s)]
  OBVIOUS
<1> SUFFICES ASSUME NEW i \in Parsed(s \o t), NEW j \in Parsed(s \o t), i < j
             PROVE  (s \o t)[i].lsn < (s \o t)[j].lsn
  BY DEF Ascends
<1>2. /\ i \in 1 .. Len(s) + Len(t) /\ (s \o t)[i] # Garbage
      /\ j \in 1 .. Len(s) + Len(t) /\ (s \o t)[j] # Garbage
  BY <1>1 DEF Parsed
<1>3. CASE j <= Len(s)
  <2>1. i \in 1 .. Len(s) /\ j \in 1 .. Len(s)
    BY <1>1, <1>2, <1>3
  <2>2. i \in Parsed(s) /\ j \in Parsed(s)
    BY <1>1, <1>2, <2>1 DEF Parsed
  <2> QED BY <1>1, <2>1, <2>2 DEF Ascends
<1>4. CASE i > Len(s)
  <2> DEFINE a == i - Len(s)
             b == j - Len(s)
  <2>1. j > Len(s)
    BY <1>1, <1>2, <1>4
  <2>2. /\ a \in 1 .. Len(t) /\ (s \o t)[i] = t[a]
        /\ b \in 1 .. Len(t) /\ (s \o t)[j] = t[b]
    BY <1>1, <1>2, <1>4, <2>1
  <2>3. a < b
    BY <1>1, <1>2
  <2> HIDE DEF a, b
  <2>4. a \in Parsed(t) /\ b \in Parsed(t)
    BY <1>1, <1>2, <2>2 DEF Parsed
  <2> QED BY <2>2, <2>3, <2>4 DEF Ascends
<1>5. CASE i <= Len(s) /\ j > Len(s)
  <2>1. i \in 1 .. Len(s) /\ j - Len(s) \in 1 .. Len(t)
    BY <1>1, <1>2, <1>5
  <2>2. (s \o t)[i] = s[i] /\ (s \o t)[j] = t[j - Len(s)]
    BY <1>1, <1>2, <1>5, <2>1
  <2>3. (s \o t)[i] \in RecordsIn(s)
    BY <1>1, <1>2, <2>1, <2>2 DEF RecordsIn, Parsed
  <2>4. (s \o t)[j] \in RecordsIn(t)
    BY <1>1, <1>2, <2>1, <2>2 DEF RecordsIn, Parsed
  <2> QED BY <2>3, <2>4 DEF Below
<1>6. i <= Len(s) \/ i > Len(s)
  BY <1>1, <1>2
<1>7. j <= Len(s) \/ j > Len(s)
  BY <1>1, <1>2
<1> QED BY <1>3, <1>4, <1>5, <1>6, <1>7

LEMMA AscendsOne ==
  ASSUME NEW x
  PROVE  Ascends(<< >>) /\ Ascends(<<x>>)
BY DEF Ascends, Parsed

LEMMA AscendsGlued ==
  ASSUME NEW rest \in Seq(Lines), NEW s \in Seq(Lines), s # << >>, Ascends(s)
  PROVE  Ascends(Glued(rest, s))
<1>1. CASE rest = << >>
  BY <1>1 DEF Glued
<1>2. CASE rest # << >>
  <2> DEFINE g == <<Garbage>> \o Tail(s)
  <2>1. /\ Len(s) \in Nat /\ DOMAIN s = 1 .. Len(s)
        /\ Tail(s) \in Seq(Lines) /\ Len(Tail(s)) = Len(s) - 1
        /\ \A i \in 1 .. Len(s) - 1 : Tail(s)[i] = s[i + 1]
    OBVIOUS
  <2>2. /\ DOMAIN g = 1 .. Len(s)
        /\ g[1] = Garbage
        /\ \A i \in 2 .. Len(s) : g[i] = s[i]
    BY <2>1
  <2>3. Glued(rest, s) = g
    BY <1>2 DEF Glued
  <2> HIDE DEF g
  <2>4. \A i \in Parsed(g) : i \in Parsed(s) /\ g[i] = s[i]
    <3>1. \A i \in 1 .. Len(s) : i = 1 \/ i \in 2 .. Len(s)
      BY <2>1
    <3> QED BY <2>1, <2>2, <3>1 DEF Parsed
  <2> QED BY <2>3, <2>4 DEF Ascends
<1> QED BY <1>1, <1>2

LEMMA AscendsPrefix ==
  ASSUME NEW s \in Seq(Lines), NEW k \in 0 .. Len(s), Ascends(s)
  PROVE  /\ Ascends(SubSeq(s, 1, k))
         /\ k < Len(s) => Below(SubSeq(s, 1, k), <<s[k + 1]>>)
<1> DEFINE q == SubSeq(s, 1, k)
<1>1. /\ q \in Seq(Lines) /\ Len(q) = k /\ DOMAIN q = 1 .. k
      /\ \A i \in 1 .. k : q[i] = s[i]
      /\ DOMAIN s = 1 .. Len(s) /\ Len(s) \in Nat
  BY RecordsOfPrefix
<1> HIDE DEF q
<1>2. \A i \in Parsed(q) : i \in 1 .. k /\ i \in Parsed(s) /\ q[i] = s[i]
  <2>1. 1 .. k \subseteq 1 .. Len(s)
    BY <1>1
  <2> QED BY <1>1, <2>1 DEF Parsed
<1>3. Ascends(q)
  BY <1>2 DEF Ascends
<1>4. ASSUME k < Len(s), NEW x \in RecordsIn(q), NEW y \in RecordsIn(<<s[k + 1]>>)
      PROVE  x.lsn < y.lsn
  <2>1. y = s[k + 1] /\ y # Garbage
    BY <1>4, RecordsOfOne
  <2>2. k + 1 \in Parsed(s)
    BY <1>1, <1>4, <2>1 DEF Parsed
  <2>3. PICK i \in Parsed(q) : x = q[i]
    BY <1>4 DEF RecordsIn
  <2>4. i < k + 1 /\ i \in Parsed(s) /\ x = s[i]
    BY <1>2, <2>3
  <2> QED BY <2>1, <2>2, <2>4 DEF Ascends
<1> QED BY <1>3, <1>4 DEF Below, q

LEMMA OrderInit == WALInit => OrderInv
<1> SUFFICES ASSUME WALInit PROVE OrderInv
  OBVIOUS
<1>1. file = << >> /\ tail = << >> /\ unsynced = << >> /\ phase = "down"
  BY DEF WALInit
<1>2. Ascends(file) /\ Ascends(unsynced)
  BY <1>1, AscendsOne
<1>3. RecordsIn(file) = {} /\ RecordsIn(tail) = {} /\ RecordsIn(unsynced) = {}
  BY <1>1, RecordsOfOne
<1> QED BY <1>1, <1>2, <1>3 DEF OrderInv, Below

LEMMA OrderStep ==
  TypeInv /\ LossInv /\ OrderInv /\ [WALNext]_walVars => OrderInv'
<1> SUFFICES ASSUME TypeInv, LossInv, OrderInv, [WALNext]_walVars, ghosts' = 0
             PROVE  OrderInv'
  BY DEF OrderInv
<1>0. lsn \in Nat /\ ghosts \in Nat
  BY DEF TypeInv, WALTypeOK
<1>1. ghosts = 0
  <2>1. ghosts' = ghosts \/ ghosts' = ghosts + 1
    BY DEF WALNext, Replay, PutWrite, Fsync, FsyncFails, UpdateIndex,
           UpdateLsn, Crash, CorruptWal, walVars
  <2> QED BY <1>0, <2>1
<1>2. /\ file \in Seq(Lines) /\ tail \in Seq(Lines) /\ unsynced \in Seq(Lines)
  BY DEF TypeInv, WALTypeOK
<1>3. /\ Ascends(file) /\ Ascends(unsynced)
      /\ Below(file, tail) /\ Below(file, unsynced) /\ Below(tail, unsynced)
  BY <1>1 DEF OrderInv
<1>4. phase # "down" => /\ Within(file, Horizon) /\ Within(tail, Horizon)
                        /\ Within(unsynced, Horizon)
  BY <1>1 DEF OrderInv
<1>5. phase \in {"written", "synced", "indexed"} => entry.lsn = lsn + 1
  BY <1>1 DEF OrderInv
<1>6. /\ RecordsIn(<< >>) = {} /\ RecordsIn(<<Garbage>>) = {}
      /\ Ascends(<< >>) /\ <<Garbage>> \in Seq(Lines) /\ <<Garbage>> # << >>
  BY RecordsOfOne, AscendsOne, GarbageIsALine
<1>10. CASE Replay
  <2>1. UNCHANGED <<file, tail, unsynced>> /\ phase' = "idle"
        /\ lsn' = HighestLsn(OnDisk)
    BY <1>10 DEF Replay
  <2>2. RecordsIn(unsynced) = {}
    BY <1>6, <1>10 DEF Replay, LossInv
  <2>3. OnDisk \in Seq(LinesUpTo(puts)) /\ puts \in 0 .. MaxPuts
    BY SeqClosed DEF TypeInv, CountInv, WALTypeOK, OnDisk
  <2>4. \A e \in RecordsIn(file) \cup RecordsIn(tail) : e.lsn <= lsn'
    BY <2>1, <2>3, HighestOfFile, RecordedIsInFile
  <2>5. /\ Within(file', Horizon') /\ Within(tail', Horizon')
        /\ Within(unsynced', Horizon')
    BY <2>1, <2>2, <2>4 DEF Within, Horizon
  <2> QED BY <1>3, <2>1, <2>5 DEF OrderInv
<1>11. ASSUME NEW k \in Key, NEW t \in 1 .. MaxTerm, PutWrite(k, t)
       PROVE  OrderInv'
  <2>1. /\ phase = "idle" /\ phase' = "written" /\ UNCHANGED <<file, tail, lsn>>
        /\ unsynced' = Append(unsynced, entry') /\ entry'.lsn = lsn + 1
    BY <1>11 DEF PutWrite
  <2>2. entry' \in Lines
    BY TypeStep DEF TypeInv, WALTypeOK
  <2>3. /\ <<entry'>> \in Seq(Lines) /\ unsynced' = unsynced \o <<entry'>>
        /\ RecordsIn(<<entry'>>) \subseteq {entry'}
    BY <1>2, <2>1, <2>2, RecordsOfOne
  <2>4. /\ Within(file, lsn) /\ Within(tail, lsn) /\ Within(unsynced, lsn)
    BY <1>4, <2>1 DEF Horizon
  <2>5. \A x \in RecordsIn(file) \cup RecordsIn(tail) \cup RecordsIn(unsynced) :
          x.lsn < lsn + 1 /\ x.lsn <= lsn + 1
    <3>1. \A s \in Seq(Lines) : \A x \in RecordsIn(s) : x.lsn \in Nat
      BY RecordsAreLines DEF Lines
    <3> QED BY <1>0, <1>2, <2>4, <3>1 DEF Within
  <2>6. /\ Below(file, <<entry'>>) /\ Below(tail, <<entry'>>)
        /\ Below(unsynced, <<entry'>>)
    BY <2>1, <2>3, <2>5 DEF Below
  <2>7. Ascends(unsynced')
    BY <1>2, <1>3, <2>3, <2>6, AscendsOne, AscendsConcat
  <2>8. RecordsIn(unsynced') = RecordsIn(unsynced) \cup RecordsIn(<<entry'>>)
    BY <1>2, <2>3, RecordsOfConcat
  <2>9. Below(file, unsynced') /\ Below(tail, unsynced')
    BY <1>3, <2>6, <2>8 DEF Below
  <2>10. /\ Within(file, lsn + 1) /\ Within(tail, lsn + 1)
         /\ Within(unsynced', lsn + 1)
    BY <1>0, <2>1, <2>3, <2>5, <2>8 DEF Within
  <2> QED BY <1>3, <2>1, <2>7, <2>9, <2>10 DEF OrderInv, Horizon
<1>12. CASE Fsync
  <2> DEFINE g == Glued(tail, unsynced)
  <2>1. /\ phase = "written" /\ phase' = "synced" /\ UNCHANGED <<entry, lsn>>
        /\ file' = file \o g /\ tail' = << >> /\ unsynced' = << >>
        /\ unsynced # << >>
    BY <1>12 DEF Fsync, Synced, TypeInv, CountInv
  <2>2. /\ g \in Seq(Lines) /\ RecordsIn(g) \subseteq RecordsIn(unsynced)
        /\ Ascends(g)
    BY <1>2, <1>3, <2>1, RecordsOfGlued, AscendsGlued, GarbageIsALine
  <2> HIDE DEF g
  <2>3. Below(file, g)
    BY <1>3, <2>2 DEF Below
  <2>4. Ascends(file')
    BY <1>2, <1>3, <2>1, <2>2, <2>3, AscendsConcat
  <2>5. RecordsIn(file') \subseteq RecordsIn(file) \cup RecordsIn(unsynced)
    BY <1>2, <2>1, <2>2, RecordsOfConcat
  <2>6. Horizon = lsn + 1 /\ Horizon' = lsn + 1
    BY <2>1 DEF Horizon
  <2>7. Within(file', Horizon')
    BY <1>4, <2>1, <2>5, <2>6 DEF Within
  <2> QED BY <1>5, <1>6, <2>1, <2>4, <2>7 DEF OrderInv, Below, Within
<1>13. CASE FsyncFails
  BY <1>0, <1>1, <1>13 DEF FsyncFails
<1>14. CASE UpdateIndex
  <2>1. /\ UNCHANGED <<file, tail, unsynced, entry, lsn, Horizon>>
        /\ phase = "synced" /\ phase' = "indexed"
    BY <1>14 DEF UpdateIndex, Indexable, Horizon
  <2> QED BY <1>3, <1>4, <1>5, <2>1 DEF OrderInv
<1>15. CASE UpdateLsn
  <2>1. /\ UNCHANGED <<file, tail, unsynced>>
        /\ phase = "indexed" /\ phase' = "idle" /\ lsn' = entry.lsn
    BY <1>15 DEF UpdateLsn
  <2>2. Horizon' = Horizon
    BY <1>5, <2>1 DEF Horizon
  <2> QED BY <1>3, <1>4, <2>1, <2>2 DEF OrderInv
<1>16. CASE Crash
  <2>1. PICK survivors \in 0 .. Len(unsynced), cut \in Tears \cup {"none"} :
          /\ cut # "none" => survivors < Len(unsynced)
          /\ Survive(survivors, cut)
    BY <1>16 DEF Crash
  <2>2. phase' = "down" /\ unsynced' = << >>
    BY <1>16 DEF Crash
  <2> DEFINE lines == SubSeq(unsynced, 1, survivors)
             g == Glued(tail, lines)
             next == <<unsynced[survivors + 1]>>
  <2>3. /\ lines = << >> => file' = file
        /\ lines # << >> => file' = file \o g
    BY <2>1 DEF Survive
  <2>4. \/ lines = << >> /\ tail' = tail
        \/ tail' \in {<< >>, <<Garbage>>}
        \/ cut # "none" /\ tail' = next
    BY <2>1 DEF Survive
  <2>5. /\ lines \in Seq(Lines) /\ RecordsIn(lines) \subseteq RecordsIn(unsynced)
        /\ Ascends(lines) /\ (cut # "none" => Below(lines, next))
    BY <1>2, <1>3, <2>1, RecordsOfPrefix, AscendsPrefix
  <2>6. cut # "none" => RecordsIn(next) \subseteq RecordsIn(unsynced)
    <3>1. cut # "none" => survivors + 1 \in 1 .. Len(unsynced)
      BY <1>2, <2>1
    <3>2. cut # "none" => survivors + 1 \in DOMAIN unsynced
      BY <1>2, <3>1
    <3> QED BY <3>2, RecordsOfOne DEF RecordsIn, Parsed
  <2> HIDE DEF lines, next
  <2>7. lines # << >> => /\ g \in Seq(Lines) /\ Ascends(g)
                         /\ RecordsIn(g) \subseteq RecordsIn(lines)
    BY <1>2, <2>5, RecordsOfGlued, AscendsGlued, GarbageIsALine
  <2> HIDE DEF g
  <2>8. lines # << >> =>
          /\ Ascends(file \o g)
          /\ RecordsIn(file \o g) \subseteq RecordsIn(file) \cup RecordsIn(lines)
    <3>1. lines # << >> => Below(file, g)
      BY <1>3, <2>5, <2>7 DEF Below
    <3> QED BY <1>2, <1>3, <2>7, <3>1, AscendsConcat, RecordsOfConcat
  <2>9. Ascends(file')
    BY <1>3, <2>3, <2>8
  <2>10. RecordsIn(file') \subseteq RecordsIn(file) \cup RecordsIn(lines)
    BY <2>3, <2>8
  <2>11. Below(file', tail')
    <3>1. CASE lines = << >> /\ tail' = tail
      BY <1>3, <2>3, <3>1
    <3>2. CASE tail' \in {<< >>, <<Garbage>>}
      BY <1>6, <3>2 DEF Below
    <3>3. CASE cut # "none" /\ tail' = next
      BY <1>3, <2>5, <2>6, <2>10, <3>3 DEF Below
    <3> QED BY <2>4, <3>1, <3>2, <3>3
  <2> QED BY <1>6, <2>2, <2>9, <2>11 DEF OrderInv, Below
<1>17. CASE CorruptWal
  <2>1. UNCHANGED <<phase, entry, lsn, Horizon>>
    BY <1>17 DEF CorruptWal, Horizon
  <2>2. CASE phase = "down"
    <3> DEFINE g == Glued(tail, <<Garbage>>)
    <3>1. /\ file' = file \o g /\ tail' = << >> /\ unsynced' = unsynced
      BY <1>17, <2>2 DEF CorruptWal
    <3>2. unsynced = << >>
      BY <2>2 DEF LossInv
    <3>3. g \in Seq(Lines) /\ RecordsIn(g) \subseteq {} /\ Ascends(g)
      BY <1>2, <1>6, AscendsOne, AscendsGlued, RecordsOfGlued, GarbageIsALine
    <3> HIDE DEF g
    <3>4. Ascends(file')
      <4>1. Below(file, g)
        BY <3>3 DEF Below
      <4> QED BY <1>2, <1>3, <3>1, <3>3, <4>1, AscendsConcat
    <3> QED BY <1>3, <1>6, <2>1, <2>2, <3>1, <3>2, <3>4 DEF OrderInv, Below
  <2>3. CASE phase # "down"
    <3>1. UNCHANGED <<file, tail>> /\ unsynced' = unsynced \o <<Garbage>>
      <4>1. UNCHANGED <<file, tail>> /\ unsynced' = Append(unsynced, Garbage)
        BY <1>17, <2>3 DEF CorruptWal
      <4>2. Append(unsynced, Garbage) = unsynced \o <<Garbage>>
        BY <1>2
      <4> QED BY <4>1, <4>2
    <3>2. RecordsIn(unsynced') = RecordsIn(unsynced)
      <4>1. RecordsIn(unsynced \o <<Garbage>>) =
              RecordsIn(unsynced) \cup RecordsIn(<<Garbage>>)
        BY <1>2, <1>6, RecordsOfConcat
      <4> QED BY <1>6, <3>1, <4>1
    <3>3. Ascends(unsynced')
      <4>1. Below(unsynced, <<Garbage>>)
        BY <1>6 DEF Below
      <4> QED BY <1>2, <1>3, <1>6, <3>1, <4>1, AscendsOne, AscendsConcat
    <3> QED BY <1>3, <1>4, <1>5, <2>1, <3>1, <3>2, <3>3
            DEF OrderInv, Below, Within
  <2> QED BY <2>2, <2>3
<1>18. CASE UNCHANGED walVars
  BY <1>3, <1>4, <1>5, <1>18 DEF OrderInv, walVars, Horizon
<1> QED
  BY <1>10, <1>11, <1>12, <1>13, <1>14, <1>15, <1>16, <1>17, <1>18 DEF WALNext

-----------------------------------------------------------------------------
(* Memory and file.                                                        *)

MemoryInv ==
  torn = 0 /\ ghosts = 0 =>
    /\ phase \in {"idle", "synced", "indexed"} => RecordsIn(unsynced) = {}
    /\ phase = "written" => RecordsIn(unsynced) = {entry}
    /\ phase \in {"idle", "written"} => HighestLsn(file) = lsn
    /\ phase \in {"synced", "indexed"} => HighestLsn(file) = entry.lsn
    /\ phase \in {"idle", "written", "indexed"} =>
         \A k \in Key : index[k] = LatestFor(k, file)
    /\ phase = "synced" =>
         \A k \in Key :
           LatestFor(k, file) = IF k = entry.key THEN entry ELSE index[k]

\* A record behind all others hides only what its key had before.
LEMMA LatestOfConcat ==
  ASSUME NEW s \in Seq(Lines), NEW t \in Seq(Lines), NEW e,
         RecordsIn(t) = {e}, NEW k
  PROVE  LatestFor(k, s \o t) = IF k = e.key THEN e ELSE LatestFor(k, s)
<1> DEFINE c == s \o t
<1>1. /\ Len(s) \in Nat /\ Len(t) \in Nat
      /\ DOMAIN s = 1 .. Len(s) /\ DOMAIN t = 1 .. Len(t)
      /\ DOMAIN c = 1 .. Len(s) + Len(t) /\ c \in Seq(Lines)
      /\ \A i \in 1 .. Len(s) : c[i] = s[i]
      /\ \A i \in 1 .. Len(t) : c[Len(s) + i] = t[i]
  OBVIOUS
<1>2. \A i \in 1 .. Len(s) + Len(t) :
        \/ i \in 1 .. Len(s)
        \/ i > Len(s) /\ i - Len(s) \in 1 .. Len(t) /\ Len(s) + (i - Len(s)) = i
  BY <1>1
<1> HIDE DEF c
\* The records of c: those of s where s has them, and behind them only e.
<1>3. ASSUME NEW i \in Parsed(c)
      PROVE  \/ i \in Parsed(s) /\ c[i] = s[i] /\ i <= Len(s)
             \/ i > Len(s) /\ c[i] = e
  <2>1. i \in 1 .. Len(s) + Len(t) /\ c[i] # Garbage
    BY <1>1 DEF Parsed
  <2>2. CASE i \in 1 .. Len(s)
    BY <1>1, <2>1, <2>2 DEF Parsed
  <2>3. CASE i > Len(s) /\ i - Len(s) \in 1 .. Len(t) /\ Len(s) + (i - Len(s)) = i
    <3>1. c[i] = t[i - Len(s)]
      BY <1>1, <2>3
    <3>2. t[i - Len(s)] \in RecordsIn(t)
      BY <1>1, <2>1, <2>3, <3>1 DEF RecordsIn, Parsed
    <3> QED BY <2>3, <3>1, <3>2
  <2> QED BY <1>2, <2>1, <2>2, <2>3
<1>4. ASSUME NEW i \in Parsed(s)
      PROVE  i \in Parsed(c) /\ c[i] = s[i] /\ i <= Len(s)
  <2>1. i \in 1 .. Len(s) /\ s[i] # Garbage
    BY <1>1 DEF Parsed
  <2>2. i \in 1 .. Len(s) + Len(t)
    BY <1>1, <2>1
  <2> QED BY <1>1, <2>1, <2>2 DEF Parsed
<1>5. \E m \in Parsed(c) : m > Len(s) /\ c[m] = e
  <2>1. PICK i \in Parsed(t) : t[i] = e
    BY DEF RecordsIn
  <2>2. i \in 1 .. Len(t) /\ t[i] # Garbage
    BY <1>1 DEF Parsed
  <2>3. Len(s) + i \in 1 .. Len(s) + Len(t) /\ Len(s) + i > Len(s)
    BY <1>1, <2>2
  <2>4. c[Len(s) + i] = e
    BY <1>1, <2>1, <2>2
  <2> QED BY <1>1, <2>1, <2>2, <2>3, <2>4 DEF Parsed
<1>6. /\ \A i \in Parsed(c) : i \in Nat
      /\ \A i \in Parsed(s) : i \in Nat
  BY <1>1 DEF Parsed
<1>7. \/ /\ LatestFor(k, c) = NoEntry
         /\ \A i \in Parsed(c) : c[i].key # k
      \/ \E i \in Parsed(c) :
           /\ LatestFor(k, c) = c[i] /\ c[i].key = k
           /\ \A j \in Parsed(c) : c[j].key = k => j <= i
  BY <1>1, LatestIsLast
<1>8. CASE k = e.key
  <2>1. PICK m \in Parsed(c) : m > Len(s) /\ c[m] = e
    BY <1>5
  <2>2. PICK i \in Parsed(c) : /\ LatestFor(k, c) = c[i]
                               /\ \A j \in Parsed(c) : c[j].key = k => j <= i
    BY <1>7, <1>8, <2>1
  <2>3. i > Len(s)
    BY <1>1, <1>6, <1>8, <2>1, <2>2
  <2>4. c[i] = e
    BY <1>1, <1>3, <1>6, <2>3
  <2> QED BY <1>8, <2>2, <2>4 DEF c
<1>9. CASE k # e.key
  <2>1. \/ /\ LatestFor(k, s) = NoEntry
           /\ \A i \in Parsed(s) : s[i].key # k
        \/ \E i \in Parsed(s) :
             /\ LatestFor(k, s) = s[i] /\ s[i].key = k
             /\ \A j \in Parsed(s) : s[j].key = k => j <= i
    BY LatestIsLast
  <2>2. CASE \A i \in Parsed(c) : c[i].key # k
    BY <1>4, <1>7, <2>1, <2>2, <1>9 DEF c
  <2>3. CASE \E i \in Parsed(c) : c[i].key = k
    <3>1. PICK i \in Parsed(c) : /\ LatestFor(k, c) = c[i] /\ c[i].key = k
                                 /\ \A j \in Parsed(c) : c[j].key = k => j <= i
      BY <1>7, <2>3
    <3>2. i \in Parsed(s) /\ c[i] = s[i]
      BY <1>3, <1>9, <3>1
    <3>3. PICK m \in Parsed(s) : /\ LatestFor(k, s) = s[m] /\ s[m].key = k
                                 /\ \A j \in Parsed(s) : s[j].key = k => j <= m
      BY <2>1, <3>1, <3>2
    <3>4. m \in Parsed(c) /\ c[m] = s[m]
      BY <1>4
    <3>5. i <= m /\ m <= i
      BY <3>1, <3>2, <3>3, <3>4
    <3>6. i = m
      BY <1>6, <3>2, <3>5
    <3> QED BY <1>9, <3>1, <3>2, <3>3, <3>6 DEF c
  <2> QED BY <2>2, <2>3
<1> QED BY <1>8, <1>9

LEMMA MemoryInit == WALInit => MemoryInv
BY DEF WALInit, MemoryInv

\* The records of unsynced after the adversary's line.
LEMMA GarbageIsNoRecord ==
  ASSUME NEW s \in Seq(Lines)
  PROVE  RecordsIn(Append(s, Garbage)) = RecordsIn(s)
BY GarbageIsALine, RecordsOfAppend

LEMMA MemoryStep ==
  TypeInv /\ LossInv /\ OrderInv /\ MemoryInv /\ [WALNext]_walVars => MemoryInv'
<1> SUFFICES ASSUME TypeInv, LossInv, OrderInv, MemoryInv, [WALNext]_walVars,
                    torn' = 0, ghosts' = 0
             PROVE  MemoryInv'
  BY DEF MemoryInv
<1>0. /\ lsn \in Nat /\ ghosts \in Nat /\ puts \in 0 .. MaxPuts
  BY DEF TypeInv, WALTypeOK
<1>1. torn = 0 /\ ghosts = 0
  <2>1. ghosts' = ghosts \/ ghosts' = ghosts + 1
    BY DEF WALNext, Replay, PutWrite, Fsync, FsyncFails, UpdateIndex,
           UpdateLsn, Crash, CorruptWal, walVars
  <2> QED BY <1>0, <2>1, FileGrows
<1>2. /\ file \in Seq(Lines) /\ unsynced \in Seq(Lines)
  BY DEF TypeInv, WALTypeOK
<1>3. tail = << >>
  BY <1>1, NoTearNoLoss
<1>4. /\ phase \in {"idle", "synced", "indexed"} => RecordsIn(unsynced) = {}
      /\ phase = "written" => RecordsIn(unsynced) = {entry}
      /\ phase \in {"idle", "written"} => HighestLsn(file) = lsn
      /\ phase \in {"synced", "indexed"} => HighestLsn(file) = entry.lsn
      /\ phase \in {"idle", "written", "indexed"} =>
           \A k \in Key : index[k] = LatestFor(k, file)
      /\ phase = "synced" =>
           \A k \in Key :
             LatestFor(k, file) = IF k = entry.key THEN entry ELSE index[k]
  BY <1>1 DEF MemoryInv
<1>5. phase \in {"written", "synced", "indexed"} => entry.lsn = lsn + 1
  BY <1>1 DEF OrderInv
<1>6. index \in [Key -> Lines]
  BY DEF TypeInv, WALTypeOK
<1>7. RecordsIn(<< >>) = {}
  BY RecordsOfOne
<1>10. CASE Replay
  <2>1. OnDisk = file
    <3>1. file \o << >> = file
      BY <1>2
    <3> QED BY <1>3, <3>1 DEF OnDisk
  <2>2. /\ phase' = "idle" /\ UNCHANGED <<file, unsynced>>
        /\ lsn' = HighestLsn(file)
        /\ \A k \in Key : index'[k] = LatestFor(k, file)
        /\ unsynced = << >>
    BY <1>10, <2>1 DEF Replay, LossInv
  <2> QED BY <1>7, <2>2 DEF MemoryInv
<1>11. ASSUME NEW k \in Key, NEW t \in 1 .. MaxTerm, PutWrite(k, t)
       PROVE  MemoryInv'
  <2>1. /\ phase = "idle" /\ phase' = "written"
        /\ unsynced' = Append(unsynced, entry')
        /\ UNCHANGED <<file, lsn, index>>
    BY <1>11 DEF PutWrite
  <2>2. entry' # Garbage /\ entry' \in Lines
    <3>1. entry'.key = k /\ Garbage.key = NoKey
      BY <1>11 DEF PutWrite, Garbage
    <3>2. TypeInv'
      BY TypeStep
    <3> QED BY <3>1, <3>2, KeyAssumption DEF TypeInv, WALTypeOK
  <2>3. RecordsIn(unsynced') = {entry'}
    BY <1>2, <1>4, <2>1, <2>2, RecordsOfAppend
  <2> QED BY <1>4, <2>1, <2>3 DEF MemoryInv
<1>12. CASE Fsync
  <2>1. /\ phase = "written" /\ phase' = "synced"
        /\ UNCHANGED <<entry, lsn, index>>
        /\ unsynced' = << >> /\ file' = file \o unsynced
    BY <1>3, <1>12 DEF Fsync, Synced, Glued
  <2>2. RecordsIn(unsynced) = {entry}
    BY <1>4, <2>1
  <2>3. RecordsIn(file') = RecordsIn(file) \cup {entry}
    BY <1>2, <2>1, <2>2, RecordsOfConcat
  <2>4. HighestLsn(file') = entry.lsn
    <3>1. /\ file \in Seq(LinesUpTo(puts)) /\ file' \in Seq(LinesUpTo(puts))
      <4>1. puts' = puts
        BY <1>12 DEF Fsync
      <4> QED BY <4>1, TypeStep DEF TypeInv, CountInv
    <3>2. /\ \A e \in RecordsIn(file) : e.lsn <= lsn
          /\ \A e \in RecordsIn(file') : e.lsn <= HighestLsn(file')
          /\ \/ HighestLsn(file') = 0
             \/ \E e \in RecordsIn(file') : e.lsn = HighestLsn(file')
          /\ HighestLsn(file') \in 0 .. puts
      BY <1>0, <1>4, <2>1, <3>1, HighestOfFile
    <3>3. HighestLsn(file') >= lsn + 1
      BY <1>5, <2>1, <2>3, <3>2
    <3>4. \A e \in RecordsIn(file') : e.lsn <= lsn \/ e.lsn = lsn + 1
      BY <1>5, <2>1, <2>3, <3>2
    <3>5. HighestLsn(file') = 0 \/ HighestLsn(file') <= lsn
          \/ HighestLsn(file') = lsn + 1
      BY <3>2, <3>4
    <3>6. HighestLsn(file') = lsn + 1
      BY <1>0, <3>2, <3>3, <3>5
    <3> QED BY <1>5, <2>1, <3>6
  <2>5. \A k \in Key :
          LatestFor(k, file') = IF k = entry.key THEN entry ELSE index[k]
    BY <1>2, <1>4, <2>1, <2>2, LatestOfConcat
  <2> QED BY <1>7, <2>1, <2>4, <2>5 DEF MemoryInv
<1>13. CASE FsyncFails
  BY <1>0, <1>1, <1>13 DEF FsyncFails
<1>14. CASE UpdateIndex
  <2>1. /\ phase = "synced" /\ phase' = "indexed"
        /\ index' = [index EXCEPT ![entry.key] = entry]
        /\ UNCHANGED <<file, unsynced, entry, lsn>>
    BY <1>14 DEF UpdateIndex, Indexable
  <2>2. \A k \in Key : index'[k] = LatestFor(k, file)
    BY <1>4, <1>6, <2>1
  <2> QED BY <1>4, <2>1, <2>2 DEF MemoryInv
<1>15. CASE UpdateLsn
  <2>1. /\ phase = "indexed" /\ phase' = "idle" /\ lsn' = entry.lsn
        /\ UNCHANGED <<file, unsynced, index>>
    BY <1>15 DEF UpdateLsn
  <2> QED BY <1>4, <2>1 DEF MemoryInv
<1>16. CASE Crash
  BY <1>16 DEF Crash, MemoryInv
<1>17. CASE CorruptWal
  <2>1. UNCHANGED <<phase, entry, lsn, index>>
    BY <1>17 DEF CorruptWal
  <2>2. CASE phase = "down"
    BY <2>1, <2>2 DEF MemoryInv
  <2>3. CASE phase # "down"
    <3>1. UNCHANGED file /\ unsynced' = Append(unsynced, Garbage)
      BY <1>17, <2>3 DEF CorruptWal
    <3>2. RecordsIn(unsynced') = RecordsIn(unsynced)
      BY <1>2, <3>1, GarbageIsNoRecord
    <3> QED BY <1>4, <2>1, <3>1, <3>2 DEF MemoryInv
  <2> QED BY <2>2, <2>3
<1>18. CASE UNCHANGED walVars
  BY <1>4, <1>18 DEF MemoryInv, walVars
<1> QED
  BY <1>10, <1>11, <1>12, <1>13, <1>14, <1>15, <1>16, <1>17, <1>18 DEF WALNext

(* Between two puts a crash that cuts no line changes no answer.           *)
THEOREM RestartChangesNothing == WALSpec => []MemoryIsReplay
<1>1. ASSUME TypeInv, LossInv, MemoryInv PROVE MemoryIsReplay
  <2>1. SUFFICES ASSUME phase = "idle", torn = 0, ghosts = 0
                 PROVE  /\ lsn = HighestLsn(OnDisk)
                        /\ \A k \in Key : index[k] = LatestFor(k, OnDisk)
    BY DEF MemoryIsReplay
  <2>2. OnDisk = file
    <3>1. tail = << >>
      BY <1>1, <2>1, NoTearNoLoss
    <3>2. file \o << >> = file
      BY <1>1 DEF TypeInv, WALTypeOK
    <3> QED BY <3>1, <3>2 DEF OnDisk
  <2> QED BY <1>1, <2>1, <2>2 DEF MemoryInv
<1> QED
  BY <1>1, TypeInit, TypeStep, LossInit, LossStep, OrderInit, OrderStep,
     MemoryInit, MemoryStep, PTL
     DEF WALSpec
-----------------------------------------------------------------------------
(* The refinement of DurableLog, step by step.                             *)

\* A put has a record, and once it is past its fsync nothing that it or an
\* earlier one wrote is left to be synced.
SyncedInv ==
  /\ phase \in {"written", "synced", "indexed"} => entry # Garbage
  /\ phase \in {"synced", "indexed"} => RecordsIn(unsynced) = {}

Shown == {index[k] : k \in Key} \ {NoEntry}

LEMMA SyncedInit == WALInit => SyncedInv
BY DEF WALInit, SyncedInv

LEMMA SyncedStep == TypeInv /\ SyncedInv /\ [WALNext]_walVars => SyncedInv'
<1> SUFFICES ASSUME TypeInv, SyncedInv, [WALNext]_walVars PROVE SyncedInv'
  OBVIOUS
<1>1. unsynced \in Seq(Lines) /\ RecordsIn(<< >>) = {}
  BY RecordsOfOne DEF TypeInv, WALTypeOK
<1>2. CASE Fsync
  BY <1>1, <1>2 DEF Fsync, SyncedInv
<1>3. CASE CorruptWal
  <2>1. /\ UNCHANGED <<phase, entry>>
        /\ unsynced' \in {unsynced, Append(unsynced, Garbage)}
    BY <1>3 DEF CorruptWal
  <2>2. RecordsIn(Append(unsynced, Garbage)) = RecordsIn(unsynced)
    BY <1>1, GarbageIsNoRecord
  <2> QED BY <2>1, <2>2 DEF SyncedInv
<1>4. CASE UpdateIndex
  BY <1>4 DEF UpdateIndex, Indexable, SyncedInv
<1>5. CASE Replay \/ FsyncFails \/ UpdateLsn \/ Crash \/ UNCHANGED walVars
  BY <1>5 DEF Replay, FsyncFails, UpdateLsn, Crash, walVars, SyncedInv
<1>6. ASSUME NEW k \in Key, NEW t \in 1 .. MaxTerm, PutWrite(k, t)
      PROVE  SyncedInv'
  <2>1. phase' = "written" /\ entry'.key = k /\ Garbage.key = NoKey
    BY <1>6 DEF PutWrite, Garbage
  <2> QED BY <2>1, KeyAssumption DEF SyncedInv
<1> QED BY <1>2, <1>3, <1>4, <1>5, <1>6 DEF WALNext

-----------------------------------------------------------------------------
(* LSNs that are given twice.                                              *)

\* A put gets the LSN after those of all acknowledged entries that are in
\* the file.  What is not in the file when it is acknowledged never will be.
ReuseInv ==
  /\ \A d \in done : d.id <= puts
  /\ done \cap RecordsIn(unsynced) = {}
  /\ phase \in {"written", "synced", "indexed"} =>
       entry.lsn = lsn + 1 /\ entry.id = puts
  /\ phase # "down" => \A d \in done \cap RecordsIn(file) : d.lsn <= lsn
  /\ Reused \cap RecordsIn(file) = {}

\* Only what was written and not synced gets into the file.
LEMMA FileGains ==
  ASSUME TypeInv, [WALNext]_walVars
  PROVE  RecordsIn(file') \subseteq RecordsIn(file) \cup RecordsIn(unsynced)
<1> DEFINE Goal == RecordsIn(file') \subseteq RecordsIn(file) \cup RecordsIn(unsynced)
<1>1. /\ file \in Seq(Lines) /\ tail \in Seq(Lines) /\ unsynced \in Seq(Lines)
  BY DEF TypeInv, WALTypeOK
<1>2. ASSUME NEW s \in Seq(Lines), s # << >>
      PROVE  RecordsIn(file \o Glued(tail, s)) \subseteq RecordsIn(file) \cup RecordsIn(s)
  <2>1. /\ Glued(tail, s) \in Seq(Lines)
        /\ RecordsIn(Glued(tail, s)) \subseteq RecordsIn(s)
    BY <1>1, <1>2, RecordsOfGlued, GarbageIsALine
  <2> QED BY <1>1, <2>1, RecordsOfConcat
<1>3. CASE Fsync
  <2>1. file' = file \o Glued(tail, unsynced) /\ unsynced # << >>
    BY <1>3 DEF Fsync, Synced, TypeInv, CountInv
  <2> QED BY <1>1, <1>2, <2>1
<1>4. CASE Crash
  <2>1. PICK survivors \in 0 .. Len(unsynced), cut \in Tears \cup {"none"} :
          Survive(survivors, cut)
    BY <1>4 DEF Crash
  <2> DEFINE lines == SubSeq(unsynced, 1, survivors)
  <2>2. /\ lines \in Seq(Lines) /\ RecordsIn(lines) \subseteq RecordsIn(unsynced)
        /\ \/ file' = file
           \/ lines # << >> /\ file' = file \o Glued(tail, lines)
    BY <1>1, <2>1, RecordsOfPrefix DEF Survive
  <2> HIDE DEF lines
  <2>3. CASE file' = file
    BY <2>3
  <2>4. CASE lines # << >> /\ file' = file \o Glued(tail, lines)
    BY <1>2, <2>2, <2>4
  <2> QED BY <2>2, <2>3, <2>4
<1>5. CASE CorruptWal
  <2>1. /\ <<Garbage>> \in Seq(Lines) /\ <<Garbage>> # << >>
        /\ RecordsIn(<<Garbage>>) = {}
    BY GarbageIsALine, RecordsOfOne
  <2>2. RecordsIn(file \o Glued(tail, <<Garbage>>)) \subseteq RecordsIn(file)
    BY <1>2, <2>1
  <2>3. file' = file \/ file' = file \o Glued(tail, <<Garbage>>)
    BY <1>5 DEF CorruptWal
  <2> QED BY <2>2, <2>3
<1>6. CASE Replay \/ FsyncFails \/ UpdateIndex \/ UpdateLsn \/ UNCHANGED walVars
  BY <1>6 DEF Replay, FsyncFails, UpdateIndex, UpdateLsn, walVars
<1>7. ASSUME NEW k \in Key, NEW t \in 1 .. MaxTerm, PutWrite(k, t)
      PROVE  Goal
  BY <1>7 DEF PutWrite
<1> QED BY <1>3, <1>4, <1>5, <1>6, <1>7 DEF WALNext

LEMMA ReuseInit == WALInit => ReuseInv
BY DEF WALInit, ReuseInv, Reused

LEMMA ReuseStep ==
  TypeInv /\ LossInv /\ SyncedInv /\ ReuseInv /\ [WALNext]_walVars => ReuseInv'
<1> SUFFICES ASSUME TypeInv, LossInv, SyncedInv, ReuseInv, [WALNext]_walVars
             PROVE  ReuseInv'
  OBVIOUS
<1> USE DEF ReuseInv
<1>1. /\ unsynced \in Seq(Lines) /\ done \subseteq Lines /\ entry \in Lines
      /\ lsn \in Nat /\ puts \in Nat
      /\ \A d \in done : d.lsn \in Int /\ d.id \in Int
      /\ RecordsIn(<< >>) = {}
  <2>1. unsynced \in Seq(Lines) /\ done \subseteq Lines /\ entry \in Lines
    BY DEF TypeInv, WALTypeOK
  <2>2. lsn \in Nat /\ puts \in Nat
    BY LimitAssumption DEF TypeInv, WALTypeOK
  <2>3. \A d \in Lines : d.lsn \in Int /\ d.id \in Int
    BY LimitAssumption DEF Lines
  <2>4. RecordsIn(<< >>) = {}
    BY RecordsOfOne
  <2> QED BY <2>1, <2>2, <2>3, <2>4
<1>2. done \cap RecordsIn(file') \subseteq RecordsIn(file)
  BY FileGains
\* Where no put returns, only the file and the position of put matter.
<1>3. ASSUME done' = done PROVE (Reused \cap RecordsIn(file) = {})'
  BY <1>2, <1>3 DEF Reused
<1>4. CASE Replay
  <2>1. OnDisk \in Seq(LinesUpTo(puts)) /\ puts \in 0 .. MaxPuts
    BY SeqClosed DEF TypeInv, CountInv, WALTypeOK, OnDisk
  <2>2. \A e \in RecordsIn(file) : e.lsn <= HighestLsn(OnDisk)
    BY <2>1, HighestOfFile, RecordedIsInFile
  <2> QED BY <1>3, <1>4, <2>2 DEF Replay
<1>5. ASSUME NEW k \in Key, NEW t \in 1 .. MaxTerm, PutWrite(k, t)
      PROVE  ReuseInv'
  <2>1. /\ entry' = [lsn |-> lsn + 1, term |-> t, key |-> k, id |-> puts + 1]
        /\ puts' = puts + 1 /\ unsynced' = Append(unsynced, entry')
        /\ phase = "idle" /\ phase' = "written"
        /\ UNCHANGED <<file, lsn, done>>
    BY <1>5 DEF PutWrite
  <2>2. entry' \in Lines
    BY TypeStep DEF TypeInv, WALTypeOK
  <2>3. RecordsIn(unsynced') \subseteq RecordsIn(unsynced) \cup {entry'}
    BY <1>1, <2>1, <2>2, RecordsOfAppend
  <2>4. entry' \notin done
    BY <1>1, <2>1
  <2>5. \A d \in done : d.id <= puts + 1
    BY <1>1
  <2>6. done' \cap RecordsIn(unsynced)' = {}
    BY <2>1, <2>3, <2>4
  <2> QED BY <1>3, <2>1, <2>5, <2>6
<1>6. CASE Fsync
  <2>1. /\ unsynced' = << >> /\ phase = "written" /\ phase' = "synced"
        /\ UNCHANGED <<entry, lsn, puts, done>>
    BY <1>6 DEF Fsync
  <2> QED BY <1>1, <1>2, <1>3, <2>1
<1>7. CASE FsyncFails
  BY <1>3, <1>7 DEF FsyncFails
<1>8. CASE UpdateIndex
  BY <1>3, <1>8 DEF UpdateIndex, Indexable
<1>9. CASE UpdateLsn
  <2>1. /\ phase = "indexed" /\ phase' = "idle" /\ lsn' = entry.lsn
        /\ done' = done \cup {entry}
        /\ entry.lsn = lsn + 1 /\ entry.id = puts
        /\ UNCHANGED <<file, unsynced, puts>>
    BY <1>9 DEF UpdateLsn
  <2>2. RecordsIn(unsynced) = {}
    BY <2>1 DEF SyncedInv
  <2>3. \A d \in done' \cap RecordsIn(file') : d.lsn <= lsn'
    BY <1>1, <2>1
  <2>4. ASSUME NEW d \in Reused' PROVE d \notin RecordsIn(file)
    <3>1. PICK e \in done \cup {entry} : e.lsn = d.lsn /\ e.id > d.id
      BY <2>1, <2>4 DEF Reused
    <3>2. d \in done \cup {entry}
      BY <2>1, <2>4 DEF Reused
    <3>3. d \in done
      BY <1>1, <2>1, <3>1, <3>2
    <3>4. CASE e = entry
      BY <1>1, <2>1, <3>1, <3>3, <3>4
    <3>5. CASE e \in done
      BY <3>1, <3>3, <3>5 DEF Reused
    <3> QED BY <3>1, <3>4, <3>5
  <2> QED BY <1>1, <2>1, <2>2, <2>3, <2>4
<1>10. CASE Crash
  BY <1>1, <1>3, <1>10 DEF Crash
<1>11. CASE CorruptWal
  <2>1. /\ unsynced' \in {unsynced, Append(unsynced, Garbage)}
        /\ UNCHANGED <<phase, entry, lsn, puts, done>>
    BY <1>11 DEF CorruptWal
  <2>2. RecordsIn(Append(unsynced, Garbage)) = RecordsIn(unsynced)
    BY <1>1, GarbageIsNoRecord
  <2> QED BY <1>2, <1>3, <2>1, <2>2
<1>12. CASE UNCHANGED walVars
  BY <1>3, <1>12 DEF walVars
<1> QED
  BY <1>4, <1>5, <1>6, <1>7, <1>8, <1>9, <1>10, <1>11, <1>12 DEF WALNext

(* An LSN that was acknowledged is given again only for an entry a cut     *)
(* line has cost: at most once for each crash that cut one, and never      *)
(* because of a failed fsync or a malformed line.                          *)
THEOREM LsnsAreNew == WALSpec => []LsnReuseNeedsTear
<1>1. ASSUME TypeInv, LossInv, ReuseInv PROVE LsnReuseNeedsTear
  <2>1. torn \in Nat /\ Len(tail) \in Nat
    BY <1>1 DEF TypeInv, WALTypeOK
  <2>2. Reused \subseteq Missing
    BY <1>1 DEF ReuseInv, Reused, Missing, Committed
  <2>3. IsFiniteSet(Missing)
    <3>1. IsFiniteSet(done \cup {entry}) /\ Missing \subseteq done \cup {entry}
      BY <1>1, FS_AddElement DEF LossInv, Missing, Committed
    <3> QED BY <3>1, FewerElements
  <2>4. /\ Cardinality(Reused) \in Nat /\ Cardinality(Missing) \in Nat
        /\ Cardinality(Reused) <= Cardinality(Missing)
    BY <2>2, <2>3, FewerElements
  <2> QED BY <1>1, <2>1, <2>4 DEF LossInv, LsnReuseNeedsTear
<1> QED
  BY <1>1, TypeInit, TypeStep, LossInit, LossStep, SyncedInit, SyncedStep,
     ReuseInit, ReuseStep, PTL
     DEF WALSpec

-----------------------------------------------------------------------------
\* Fsync is Sync: what is lost of the written records is the first, and only
\* behind a cut line.
LEMMA FsyncIsSync ==
  ASSUME TypeInv, LossInv, Fsync
  PROVE  Promised!Sync
<1> DEFINE g    == Glued(tail, unsynced)
           lost == RecordsIn(unsynced) \ RecordsIn(g)
<1>1. /\ file \in Seq(Lines) /\ tail \in Seq(Lines) /\ unsynced \in Seq(Lines)
      /\ unsynced # << >> /\ torn \in Nat
  BY DEF TypeInv, WALTypeOK, CountInv, Fsync
<1>2. /\ g \in Seq(Lines)
      /\ RecordsIn(g) \subseteq RecordsIn(unsynced)
      /\ RecordsIn(unsynced) \subseteq RecordsIn(g) \cup {unsynced[1]}
      /\ tail = << >> => g = unsynced
  BY <1>1, RecordsOfGlued, GarbageIsALine
<1>3. /\ file' = file \o g /\ unsynced' = << >>
      /\ UNCHANGED <<done, index, torn>>
  BY DEF Fsync, Synced
<1> HIDE DEF g
<1>4. lost \in SUBSET RecordsIn(unsynced) /\ \A d, e \in lost : d = e
  BY <1>2
<1>5. lost # {} => torn > 0
  <2>1. ASSUME torn = 0 PROVE lost = {}
    BY <1>2, <2>1, NoTearNoLoss
  <2> QED BY <1>1, <2>1
<1>6. RecordsIn(file)' = RecordsIn(file) \cup (RecordsIn(unsynced) \ lost)
  <2>1. RecordsIn(file \o g) = RecordsIn(file) \cup RecordsIn(g)
    BY <1>1, <1>2, RecordsOfConcat
  <2>2. RecordsIn(g) = RecordsIn(unsynced) \ lost
    BY <1>2
  <2> QED BY <1>3, <2>1, <2>2
<1>7. RecordsIn(unsynced)' = {}
  BY <1>3, RecordsOfOne
<1>8. UNCHANGED <<done, Shown, torn>>
  BY <1>3 DEF Shown
<1> HIDE DEF lost
<1> QED BY <1>4, <1>5, <1>6, <1>7, <1>8 DEF Promised!Sync, Shown

\* What survives a crash is some of what was written.
LEMMA CrashIsCrash ==
  ASSUME TypeInv, Crash
  PROVE  Promised!Crash
<1>1. PICK survivors \in 0 .. Len(unsynced), cut \in Tears \cup {"none"} :
        Survive(survivors, cut)
  BY DEF Crash
<1> DEFINE lines == SubSeq(unsynced, 1, survivors)
           g     == Glued(tail, lines)
<1>2. file \in Seq(Lines) /\ tail \in Seq(Lines) /\ unsynced \in Seq(Lines)
  BY DEF TypeInv, WALTypeOK
<1>3. lines \in Seq(Lines) /\ RecordsIn(lines) \subseteq RecordsIn(unsynced)
  BY <1>2, RecordsOfPrefix
<1>4. /\ lines = << >> => file' = file
      /\ lines # << >> => file' = file \o g
      /\ torn' \in {torn, torn + 1}
  BY <1>1 DEF Survive
<1> HIDE DEF lines
<1>5. \E S \in SUBSET RecordsIn(unsynced) :
        RecordsIn(file)' = RecordsIn(file) \cup S
  <2>1. CASE lines = << >>
    <3>1. RecordsIn(file)' = RecordsIn(file) \cup {}
      BY <1>4, <2>1
    <3> QED BY <3>1
  <2>2. CASE lines # << >>
    <3>1. g \in Seq(Lines) /\ RecordsIn(g) \subseteq RecordsIn(lines)
      BY <1>2, <1>3, <2>2, RecordsOfGlued, GarbageIsALine
    <3>2. RecordsIn(file \o g) = RecordsIn(file) \cup RecordsIn(g)
      BY <1>2, <3>1, RecordsOfConcat
    <3> QED BY <1>3, <1>4, <2>2, <3>1, <3>2
  <2> QED BY <2>1, <2>2
<1>6. RecordsIn(unsynced)' = {} /\ done' = done
  BY RecordsOfOne DEF Crash
<1>7. Shown' = {}
  BY DEF Crash, Shown
<1> QED BY <1>4, <1>5, <1>6, <1>7 DEF Promised!Crash, Shown

\* The last step of put is Answer.
LEMMA UpdateLsnIsAnswer ==
  ASSUME TypeInv, LossInv, SyncedInv, UpdateLsn
  PROVE  Promised!Answer(entry)
<1>1. /\ phase = "indexed" /\ done' = done \cup {entry}
      /\ UNCHANGED <<file, unsynced, index, torn>>
  BY DEF UpdateLsn
<1>2. RecordsIn(unsynced) = {}
  BY <1>1 DEF SyncedInv
<1>3. (done \cup {entry}) \ RecordsIn(file) = Missing
  BY <1>1 DEF Missing, Committed
<1>4. Cardinality(Missing) <= torn
  <2>1. torn \in Nat /\ Len(tail) \in Nat
    BY DEF TypeInv, WALTypeOK
  <2>2. Cardinality(Missing) \in Nat
    <3>1. IsFiniteSet(done \cup {entry}) /\ Missing \subseteq done \cup {entry}
      BY FS_AddElement DEF LossInv, Missing, Committed
    <3> QED BY <3>1, FewerElements
  <2> QED BY <2>1, <2>2 DEF LossInv
<1>5. \A S : Promised!Cardinality(S) = Cardinality(S)
  BY DEF Promised!Cardinality, Cardinality
<1>6. UNCHANGED <<RecordsIn(unsynced), RecordsIn(file), Shown, torn>>
  BY <1>1 DEF Shown
<1> QED BY <1>1, <1>2, <1>3, <1>4, <1>5, <1>6 DEF Promised!Answer, Shown

LEMMA PromiseStep ==
  /\ TypeInv /\ LossInv /\ ReadInv /\ ReadInv' /\ SyncedInv
  /\ [WALNext]_walVars
  => [Promised!LogNext]_Promised!logVars
<1> SUFFICES ASSUME TypeInv, LossInv, ReadInv, ReadInv', SyncedInv,
                    [WALNext]_walVars
             PROVE  [Promised!LogNext]_Promised!logVars
  OBVIOUS
<1> DEFINE Goal == [Promised!LogNext]_Promised!logVars
<1>1. file \in Seq(Lines) /\ tail \in Seq(Lines) /\ unsynced \in Seq(Lines)
  BY DEF TypeInv, WALTypeOK
<1>2. ASSUME UNCHANGED <<RecordsIn(unsynced), RecordsIn(file), done, Shown,
                         torn>>
      PROVE  Goal
  BY <1>2 DEF Promised!logVars, Shown
<1>3. ASSUME UNCHANGED <<RecordsIn(unsynced), RecordsIn(file), done, torn>>
      PROVE  Goal
  <2>1. TypeInv'
    BY TypeStep
  <2>2. /\ Shown' \subseteq Lines \ {Garbage}
        /\ torn = 0 => Shown' \subseteq RecordsIn(file)
    BY <1>3, <2>1 DEF TypeInv, WALTypeOK, ReadInv, Shown, NoEntry
  <2>3. Promised!Show
    BY <1>3, <2>2 DEF Promised!Show, Shown
  <2> QED BY <2>3 DEF Promised!LogNext
<1>4. CASE Replay
  BY <1>3, <1>4 DEF Replay
<1>5. ASSUME NEW k \in Key, NEW t \in 1 .. MaxTerm, PutWrite(k, t)
      PROVE  Goal
  <2>1. /\ unsynced' = Append(unsynced, entry')
        /\ UNCHANGED <<file, done, index, torn>>
    BY <1>5 DEF PutWrite
  <2>2. entry' \in Lines \ {Garbage}
    <3>1. entry'.key = k /\ Garbage.key = NoKey
      BY <1>5 DEF PutWrite, Garbage
    <3>2. entry' \in Lines
      BY TypeStep DEF TypeInv, WALTypeOK
    <3> QED BY <3>1, <3>2, KeyAssumption
  <2>3. RecordsIn(unsynced)' = RecordsIn(unsynced) \cup {entry'}
    BY <1>1, <2>1, <2>2, RecordsOfAppend
  <2>4. UNCHANGED <<RecordsIn(file), done, Shown, torn>>
    BY <2>1 DEF Shown
  <2>5. Promised!Write(entry')
    BY <2>3, <2>4 DEF Promised!Write, Shown
  <2> QED BY <2>2, <2>5 DEF Promised!LogNext
<1>6. CASE Fsync
  BY <1>6, FsyncIsSync DEF Promised!LogNext
<1>7. CASE FsyncFails
  BY <1>2, <1>7 DEF FsyncFails, Shown
<1>8. CASE UpdateIndex
  BY <1>3, <1>8 DEF UpdateIndex
<1>9. CASE UpdateLsn
  <2>1. Promised!Answer(entry)
    BY <1>9, UpdateLsnIsAnswer
  <2>2. entry \in Lines \ {Garbage}
    BY <1>9 DEF UpdateLsn, SyncedInv, TypeInv, WALTypeOK
  <2> QED BY <2>1, <2>2 DEF Promised!LogNext
<1>10. CASE Crash
  BY <1>10, CrashIsCrash DEF Promised!LogNext
<1>11. CASE CorruptWal
  <2>1. UNCHANGED <<done, index, torn>>
    BY <1>11 DEF CorruptWal
  <2>2. RecordsIn(unsynced)' = RecordsIn(unsynced)
    <3>1. unsynced' \in {unsynced, Append(unsynced, Garbage)}
      BY <1>11 DEF CorruptWal
    <3> QED BY <1>1, <3>1, GarbageIsNoRecord
  <2>3. RecordsIn(file)' = RecordsIn(file)
    <3> DEFINE g == Glued(tail, <<Garbage>>)
    <3>1. file' \in {file, file \o g}
      BY <1>11 DEF CorruptWal
    <3>2. <<Garbage>> \in Seq(Lines) /\ <<Garbage>> # << >>
      BY GarbageIsALine
    <3>3. g \in Seq(Lines) /\ RecordsIn(g) = {}
      BY <1>1, <3>2, GarbageIsALine, RecordsOfGlued, RecordsOfOne
    <3> HIDE DEF g
    <3>4. RecordsIn(file \o g) = RecordsIn(file) \cup RecordsIn(g)
      BY <1>1, <3>3, RecordsOfConcat
    <3> QED BY <3>1, <3>3, <3>4
  <2> QED BY <1>2, <2>1, <2>2, <2>3 DEF Shown
<1>12. CASE UNCHANGED walVars
  BY <1>2, <1>12 DEF walVars, Shown
<1> QED
  BY <1>4, <1>5, <1>6, <1>7, <1>8, <1>9, <1>10, <1>11, <1>12 DEF WALNext

(* The storage engine keeps what DurableLog promises, whatever crashes,    *)
(* failed fsyncs and malformed lines there are.                            *)
THEOREM WALImplementsLog == WALSpec => ImplementsDurableLog
<1>1. WALInit => Promised!LogInit
  BY RecordsOfOne DEF WALInit, Promised!LogInit
<1>2. TypeInv /\ LossInv /\ ReadInv /\ ReadInv' /\ SyncedInv
        /\ [WALNext]_walVars
        => [Promised!LogNext]_Promised!logVars
  BY PromiseStep
<1> QED
  BY <1>1, <1>2, TypeInit, TypeStep, LossInit, LossStep, ReadInit, ReadStep,
     SyncedInit, SyncedStep, PTL
     DEF WALSpec, ImplementsDurableLog, Promised!LogSpec
=============================================================================
