---------------------------- MODULE DriverProofs ----------------------------
(***************************************************************************)
(* Theorems about Driver.tla and SampleData.tla, for every cluster, sample *)
(* and number of retries, faults and elections.                            *)
(***************************************************************************)
EXTENDS Driver, SequenceTheorems, FiniteSetTheorems, WellFoundedInduction, TLAPS

USE DEF sampleVars, nodeVars, verdictVars, envVars

-----------------------------------------------------------------------------
(* The sample.                                                             *)
SampleInv ==
  /\ read \in 0 .. Len(RawBusinesses)
  /\ businesses \in Seq(Business)
  /\ reviews \in Seq(Reviews) /\ Len(reviews) <= MaxReviews
  /\ sampled \in BOOLEAN
  /\ \A i \in DOMAIN reviews : reviews[i].business \in Ids
  /\ ~sampled => reviews = << >>

LEMMA SampleInvInit == SampleInit => SampleInv
<1> SUFFICES ASSUME SampleInit PROVE SampleInv
  OBVIOUS
<1>1. /\ Len(RawBusinesses) \in Nat /\ MaxReviews \in Nat
      /\ << >> \in Seq(Business) /\ << >> \in Seq(Reviews) /\ Len(<< >>) = 0
  BY SampleAssumption, EmptySeq
<1>2. reviews = << >> /\ businesses = << >> /\ read = 0 /\ sampled = FALSE
  BY DEF SampleInit
<1>3. \A i \in DOMAIN reviews : reviews[i].business \in Ids
  BY <1>2
<1>4. Len(reviews) <= MaxReviews /\ read \in 0 .. Len(RawBusinesses)
  BY <1>1, <1>2
<1> QED
  BY <1>1, <1>2, <1>3, <1>4 DEF SampleInv

LEMMA DrawStep ==
  ASSUME SampleInv, DrawBusiness
  PROVE  SampleInv'
<1>1. RawBusinesses[read + 1] \in Business /\ read + 1 \in 0 .. Len(RawBusinesses)
  <2>1. read \in Nat /\ Len(RawBusinesses) \in Nat
    BY SampleAssumption DEF SampleInv
  <2>2. read + 1 \in 1 .. Len(RawBusinesses)
    BY <2>1 DEF DrawBusiness
  <2> QED
    BY <2>1, <2>2, SampleAssumption
<1>2. businesses' \in Seq(Business)
  <2>1. businesses \in Seq(Business)
    BY DEF SampleInv
  <2>2. CASE businesses' = Append(businesses, RawBusinesses[read + 1])
    BY <1>1, <2>1, <2>2, AppendProperties
  <2>3. CASE \E j \in DOMAIN businesses :
               businesses' = [businesses EXCEPT ![j] = RawBusinesses[read + 1]]
    BY <1>1, <2>1, <2>3
  <2> QED
    BY <2>1, <2>2, <2>3 DEF DrawBusiness
<1>3. reviews' = << >> /\ sampled' = sampled /\ read' = read + 1 /\ ~sampled
  BY DEF DrawBusiness, SampleInv
<1>4. DOMAIN reviews' = {} /\ reviews' \in Seq(Reviews) /\ Len(reviews') = 0
  BY <1>3, EmptySeq
<1> QED
  BY <1>1, <1>2, <1>3, <1>4, SampleAssumption DEF SampleInv

LEMMA WriteSampleStep ==
  ASSUME SampleInv, WriteSample
  PROVE  SampleInv'
<1>1. PICK k \in 0 .. MaxReviews : \E p \in [1 .. k -> Matched] :
        reviews' = [i \in 1 .. k |-> RawReviews[p[i]]]
  BY DEF WriteSample
<1>2. PICK p \in [1 .. k -> Matched] : reviews' = [i \in 1 .. k |-> RawReviews[p[i]]]
  BY <1>1
<1>3. \A m \in Matched : RawReviews[m] \in Reviews /\ RawReviews[m].business \in Ids
  BY SampleAssumption DEF Matched
<1>4. k \in Nat /\ k <= MaxReviews
  BY SampleAssumption
<1>5. /\ reviews' \in Seq(Reviews) /\ Len(reviews') = k
      /\ \A i \in DOMAIN reviews' : reviews'[i].business \in Ids
  <2>1. \A i \in 1 .. k : reviews'[i] \in Reviews /\ reviews'[i].business \in Ids
    BY <1>2, <1>3
  <2>2. reviews' \in [1 .. k -> Reviews]
    BY <1>2, <2>1
  <2> QED
    BY <1>4, <2>1, <2>2
<1>6. UNCHANGED <<read, businesses, Ids>> /\ sampled'
  BY DEF WriteSample, Ids
<1> QED
  BY <1>4, <1>5, <1>6 DEF SampleInv, Ids, WriteSample

LEMMA SampleInvStep ==
  SampleInv /\ (SampleStep \/ UNCHANGED sampleVars) => SampleInv'
<1>1. SampleInv /\ UNCHANGED sampleVars => SampleInv'
  BY DEF SampleInv, Ids
<1> QED
  BY <1>1, DrawStep, WriteSampleStep DEF SampleStep

\* The reservoir: different records, as many as there is room for.
DrawInv ==
  /\ Len(businesses) = IF SampleSize < read THEN SampleSize ELSE read
  /\ \A i \in DOMAIN businesses : \E j \in 1 .. read : businesses[i] = RawBusinesses[j]
  /\ \A i, j \in DOMAIN businesses : businesses[i] = businesses[j] => i = j
  /\ sampled => read = Len(RawBusinesses)

LEMMA DrawInvStep ==
  ASSUME SampleInv, DrawInv, DrawBusiness
  PROVE  DrawInv'
<1> DEFINE record == RawBusinesses[read + 1]
<1>1. /\ read \in Nat /\ read' = read + 1 /\ ~sampled' /\ SampleSize \in Nat
      /\ businesses \in Seq(Business) /\ Len(businesses) \in Nat
      /\ DOMAIN businesses = 1 .. Len(businesses)
      /\ read + 1 \in DOMAIN RawBusinesses
  <2>1. read \in Nat /\ businesses \in Seq(Business) /\ SampleSize \in Nat
        /\ RawBusinesses \in Seq(Business) /\ Len(RawBusinesses) \in Nat
    BY SampleAssumption DEF SampleInv
  <2>2. read + 1 \in DOMAIN RawBusinesses
    BY <2>1 DEF DrawBusiness
  <2> QED
    BY <2>1, <2>2 DEF DrawBusiness
<1>2. \A i \in DOMAIN businesses : businesses[i] # record
  <2>1. SUFFICES ASSUME NEW i \in DOMAIN businesses, businesses[i] = record PROVE FALSE
    OBVIOUS
  <2>2. PICK j \in 1 .. read : businesses[i] = RawBusinesses[j]
    BY DEF DrawInv
  <2>3. j \in DOMAIN RawBusinesses /\ j # read + 1
    <3>1. RawBusinesses \in Seq(Business) /\ Len(RawBusinesses) \in Nat
      BY SampleAssumption
    <3> QED
      BY <1>1, <3>1
  <2> QED
    BY <1>1, <2>1, <2>2, <2>3, SampleAssumption
<1>3. \A i \in DOMAIN businesses : \E j \in 1 .. read' : businesses[i] = RawBusinesses[j]
  BY <1>1 DEF DrawInv
<1>4. record = RawBusinesses[read'] /\ read' \in 1 .. read'
  BY <1>1
<1> HIDE DEF record
<1>5. CASE businesses' = Append(businesses, record) /\ ~Filled
  <2>1. /\ Len(businesses') = Len(businesses) + 1
        /\ businesses'[Len(businesses) + 1] = record
        /\ \A i \in 1 .. Len(businesses) : businesses'[i] = businesses[i]
        /\ DOMAIN businesses' = 1 .. Len(businesses) + 1
    <3>1. record \in Business
      BY <1>1, SampleAssumption DEF record
    <3> QED
      BY <1>1, <1>5, <3>1, AppendProperties
  <2>2. Len(businesses') = IF SampleSize < read' THEN SampleSize ELSE read'
    BY <1>1, <1>5, <2>1 DEF DrawInv, Filled
  <2>3. \A i \in DOMAIN businesses' : \E j \in 1 .. read' : businesses'[i] = RawBusinesses[j]
    BY <1>1, <1>3, <1>4, <2>1
  <2>4. \A i, j \in DOMAIN businesses' : businesses'[i] = businesses'[j] => i = j
    BY <1>1, <1>2, <2>1 DEF DrawInv
  <2> QED
    BY <1>1, <2>2, <2>3, <2>4 DEF DrawInv
<1>6. ASSUME Filled,
             businesses' = businesses
               \/ \E j \in DOMAIN businesses : businesses' = [businesses EXCEPT ![j] = record]
      PROVE  DrawInv'
  <2>1. /\ DOMAIN businesses' = DOMAIN businesses
        /\ \A i, j \in DOMAIN businesses : businesses'[i] = businesses'[j] => i = j
        /\ \A i \in DOMAIN businesses : businesses'[i] = businesses[i] \/ businesses'[i] = record
    BY <1>2, <1>6 DEF DrawInv
  <2>2. Len(businesses') = Len(businesses)
    BY <1>1, <1>6
  <2>3. Len(businesses') = IF SampleSize < read' THEN SampleSize ELSE read'
    BY <1>1, <1>6, <2>2 DEF DrawInv, Filled
  <2>4. \A i \in DOMAIN businesses' : \E j \in 1 .. read' : businesses'[i] = RawBusinesses[j]
    BY <1>3, <1>4, <2>1
  <2> QED
    BY <1>1, <2>1, <2>3, <2>4 DEF DrawInv
<1> QED
  BY <1>5, <1>6 DEF DrawBusiness, record

\* The sample that is written, from the reservoir.
LEMMA SampleWritten ==
  ASSUME SampleInv, DrawInv, WriteSample
  PROVE  SampleIsConsistent'
<1>0. PICK k \in 0 .. MaxReviews :
        \E p \in [1 .. k -> Matched] :
          Chronological(p) /\ reviews' = [i \in 1 .. k |-> RawReviews[p[i]]]
  BY DEF WriteSample
<1>1. PICK p \in [1 .. k -> Matched] :
        Chronological(p) /\ reviews' = [i \in 1 .. k |-> RawReviews[p[i]]]
  BY <1>0
<1>2. /\ k \in Nat /\ k <= MaxReviews /\ MaxReviews \in Nat
      /\ DOMAIN p = 1 .. k /\ Len(p) = k /\ Len(reviews') = k /\ DOMAIN reviews' = 1 .. k
  BY <1>1, SampleAssumption
<1>3. businesses' = businesses /\ Ids' = Ids /\ Matched' = Matched /\ read = Len(RawBusinesses)
  BY DEF WriteSample, Ids, Matched
<1>4. \A m \in Matched : /\ m \in 1 .. Len(RawReviews) /\ RawReviews[m].date \in Nat
                         /\ RawReviews[m].business \in Ids
  <2>1. RawReviews \in Seq(Reviews)
    BY SampleAssumption
  <2>2. ASSUME NEW m \in Matched PROVE RawReviews[m] \in Reviews
    BY <2>1 DEF Matched
  <2> QED
    BY <2>1, <2>2 DEF Matched, Reviews
<1>5. IsFiniteSet(Matched) /\ Cardinality(Matched) \in Nat
  <2>1. Len(RawReviews) \in Nat
    BY SampleAssumption
  <2>2. IsFiniteSet(1 .. Len(RawReviews))
    BY <2>1, FS_Interval
  <2>3. Matched \in SUBSET (1 .. Len(RawReviews))
    BY <1>4
  <2> QED
    BY <2>2, <2>3, FS_Subset, FS_CardinalityType
<1>6. Cardinality(Ids) = Len(businesses)
  <2>1. businesses \in Seq(Business) /\ Len(businesses) \in Nat
        /\ DOMAIN businesses = 1 .. Len(businesses)
    BY DEF SampleInv
  <2>2. IsFiniteSet(1 .. Len(businesses)) /\ Cardinality(1 .. Len(businesses)) = Len(businesses)
    <3>1. /\ IsFiniteSet(1 .. Len(businesses))
          /\ Cardinality(1 .. Len(businesses))
               = IF 1 > Len(businesses) THEN 0 ELSE Len(businesses) - 1 + 1
      <4>1. 1 \in Int /\ Len(businesses) \in Int
        BY <2>1
      <4> QED
        BY ONLY <4>1, FS_Interval
    <3> QED
      BY <2>1, <3>1
  <2>3. businesses \in [1 .. Len(businesses) -> Ids]
    BY <2>1 DEF Ids
  <2>4. businesses \in Surjection(1 .. Len(businesses), Ids)
    BY <2>1, <2>3 DEF Surjection, Ids
  <2>5. businesses \in Injection(1 .. Len(businesses), Ids)
    BY <2>1, <2>3 DEF Injection, IsInjective, DrawInv
  <2> QED
    BY <2>2, <2>4, <2>5, FS_Surjection
<1>7. Len(reviews') = IF MaxReviews < Cardinality(Matched)
                      THEN MaxReviews ELSE Cardinality(Matched)
  <2> DEFINE R == {p[i] : i \in 1 .. k}
  <2>1. R \in SUBSET Matched
    OBVIOUS
  <2>2. Cardinality(R) = k /\ IsFiniteSet(R)
    <3>1. IsFiniteSet(1 .. k) /\ Cardinality(1 .. k) = k
      BY <1>2, FS_Interval
    <3>2. p \in Surjection(1 .. k, R)
      BY DEF Surjection
    <3>3. \A i, j \in 1 .. k : p[i] = p[j] => i = j
      <4>1. ASSUME NEW i \in 1 .. k, NEW j \in 1 .. k, i < j PROVE p[i] # p[j]
        <5>1. Before(p[i], p[j]) /\ p[i] \in Matched
          BY <1>1, <1>2, <4>1 DEF Chronological
        <5>2. p[i] \in Nat /\ RawReviews[p[i]].date \in Nat
          BY <1>4, <5>1
        <5> QED
          BY <5>1, <5>2 DEF Before
      <4> QED
        BY <1>2, <4>1
    <3>4. p \in Injection(1 .. k, R)
      BY <3>3 DEF Injection, IsInjective
    <3> HIDE DEF R
    <3> QED
      BY <3>1, <3>2, <3>4, FS_Surjection
  <2>3. CASE R = Matched
    <3>1. k = Cardinality(Matched)
      BY <2>2, <2>3
    <3> HIDE DEF R
    <3> QED
      BY <1>2, <1>5, <3>1
  <2>4. CASE R # Matched
    <3>1. PICK m \in Matched : m \notin R
      BY <2>1, <2>4
    <3>2. k = MaxReviews
      BY <1>1, <1>2, <3>1 DEF Chronological
    <3> HIDE DEF R
    <3>3. Cardinality(R) <= Cardinality(Matched) /\ Cardinality(R) # Cardinality(Matched)
      BY <1>5, <2>1, <2>4, FS_Subset
    <3> QED
      BY <1>2, <1>5, <2>2, <3>2, <3>3
  <2> QED
    BY <2>3, <2>4
<1>8. \A i \in DOMAIN reviews' : reviews'[i].business \in Ids
  BY <1>1, <1>2, <1>4
<1>9. ASSUME NEW i \in DOMAIN reviews', NEW m \in Matched,
             RawReviews[m].date < reviews'[i].date
      PROVE  \E j \in DOMAIN reviews' : j < i /\ reviews'[j] = RawReviews[m]
  <2>1. /\ i \in 1 .. k /\ p[i] \in Matched /\ reviews'[i] = RawReviews[p[i]]
        /\ RawReviews[p[i]].date \in Nat /\ RawReviews[m].date \in Nat
    BY <1>1, <1>2, <1>4, <1>9
  <2>2. ~Before(p[i], m) /\ p[i] # m
    BY <1>9, <2>1 DEF Before
  <2>3. PICK j \in 1 .. k : p[j] = m
    BY <1>1, <1>2, <2>1, <2>2 DEF Chronological
  <2>4. j < i
    <3>1. ~(i < j)
      BY <1>1, <1>2, <2>1, <2>2, <2>3 DEF Chronological
    <3> QED
      BY <2>1, <2>2, <2>3, <3>1
  <2> QED
    BY <1>1, <1>2, <2>3, <2>4
<1>10. Len(businesses) = IF SampleSize < Len(RawBusinesses)
                         THEN SampleSize ELSE Len(RawBusinesses)
  BY <1>3 DEF DrawInv
<1> QED
  BY <1>3, <1>6, <1>7, <1>8, <1>9, <1>10 DEF SampleIsConsistent

-----------------------------------------------------------------------------
(* The driver's own account: what it has read of the files is what its     *)
(* state and the oracle hold.                                              *)
Streaming == {"next", "send", "return", "converge", "health", "fetch", "done"}
Starting == {"count", "seek", "greet", "aborted"}
Streamed == IF pc \in Streaming THEN pos ELSE 0
OracleLines == IF pc \in Starting THEN 0
               ELSE IF pc = "oracle" THEN pos ELSE Len(reviews)

PlaceInv ==
  /\ pc \in Streaming \cup Starting \cup {"oracle", "load"}
  /\ pos \in Nat
  /\ ~sampled => pc = "count"
  /\ pc \in Starting => pos = 0
  /\ pc \in Streaming \cup {"oracle"} => pos <= Len(reviews)
  /\ pc \in {"send", "return"} => pos >= 1
  /\ pc \in {"converge", "health", "fetch", "done"} => pos = Len(reviews)
  /\ pc = "load" => pos <= Len(businesses)

AccountInv ==
  \A b \in Business : /\ state[b] = AfterLines(b, Streamed)
                      /\ oracle[b] = AfterLines(b, OracleLines)

AccountTypeOK ==
  state \in [Business -> Values] /\ oracle \in [Business -> Values]

LEMMA NoLines ==
  ASSUME NEW b
  PROVE  AfterLines(b, 0) = Unreviewed /\ Unreviewed \in Values
BY DEF AfterLines, Unreviewed, Values

\* One more line is one more review of its business.
LEMMA NextLine ==
  ASSUME SampleInv, NEW s \in [Business -> Values], NEW k \in Nat,
         k < Len(reviews), \A b \in Business : s[b] = AfterLines(b, k)
  PROVE  /\ AddReview(s, k + 1) \in [Business -> Values]
         /\ \A b \in Business : AddReview(s, k + 1)[b] = AfterLines(b, k + 1)
<1> DEFINE i == k + 1
           c == reviews[i].business
<1>1. i \in DOMAIN reviews /\ i \in 1 .. MaxReviews /\ c \in Ids /\ c \in Business
  <2>1. reviews \in Seq(Reviews) /\ Len(reviews) \in Nat /\ Len(reviews) <= MaxReviews
    BY DEF SampleInv
  <2>2. i \in DOMAIN reviews /\ i \in 1 .. MaxReviews
    BY <2>1, SampleAssumption
  <2>3. reviews[i] \in Reviews /\ c \in Ids
    BY <2>1, <2>2 DEF SampleInv
  <2> QED
    BY <2>2, <2>3 DEF Reviews
<1>2. AddReview(s, i) = [s EXCEPT ![c][i] = @ + 1]
  BY <1>1 DEF AddReview
<1>3. ASSUME NEW b \in Business
      PROVE  AddReview(s, i)[b] \in Values /\ AddReview(s, i)[b] = AfterLines(b, i)
  <2>1. CASE b # c
    <3>1. AddReview(s, i)[b] = s[b]
      BY <1>1, <1>2, <2>1
    <3>2. AfterLines(b, i) = AfterLines(b, k)
      BY <2>1 DEF AfterLines
    <3> QED
      BY <3>1, <3>2
  <2>2. CASE b = c
    <3>1. AddReview(s, i)[b] = [s[b] EXCEPT ![i] = @ + 1]
      BY <1>1, <1>2, <2>2
    <3>2. s[b] \in [1 .. MaxReviews -> Nat] /\ s[b] = AfterLines(b, k)
      BY DEF Values
    <3>3. s[b][i] = 0
      BY <1>1, <3>2 DEF AfterLines
    <3>4. AddReview(s, i)[b] = [j \in 1 .. MaxReviews |-> IF j = i THEN 1 ELSE s[b][j]]
      <4>1. s[b][i] + 1 = 1
        BY <3>3
      <4> QED
        BY <1>1, <3>1, <3>2, <4>1
    <3>5. \A j \in 1 .. MaxReviews :
            (IF j = i THEN 1 ELSE s[b][j])
              = IF j <= i /\ reviews[j].business = b THEN 1 ELSE 0
      BY <2>2, <3>2 DEF AfterLines
    <3>6. AddReview(s, i)[b] = AfterLines(b, i)
      BY <3>4, <3>5 DEF AfterLines
    <3>7. AddReview(s, i)[b] \in Values
      BY <3>2, <3>4 DEF Values
    <3> QED
      BY <3>6, <3>7
  <2> QED
    BY <2>1, <2>2
<1>4. AddReview(s, i) \in [Business -> Values]
  <2>1. DOMAIN AddReview(s, i) = Business /\ AddReview(s, i) = [b \in Business |-> AddReview(s, i)[b]]
    BY <1>2
  <2> QED
    BY <1>3, <2>1
<1> QED
  BY <1>3, <1>4

\* A step that leaves the driver's place and files alone.
LEMMA AccountKept ==
  ASSUME PlaceInv, AccountInv, AccountTypeOK,
         UNCHANGED <<pc, pos, reviews, businesses, sampled, state, oracle>>
  PROVE  PlaceInv' /\ AccountInv' /\ AccountTypeOK'
BY DEF PlaceInv, AccountInv, AccountTypeOK, AfterLines, Streamed, OracleLines,
       Streaming, Starting

\* A step that only leads to another place with as many lines read.
LEMMA PlaceMoves ==
  ASSUME PlaceInv, AccountInv, AccountTypeOK, sampled, PlaceInv',
         Streamed' = Streamed, OracleLines' = OracleLines,
         UNCHANGED <<reviews, state, oracle>>
  PROVE  AccountInv' /\ AccountTypeOK'
BY DEF AccountInv, AccountTypeOK, AfterLines

LEMMA EnvAccount ==
  ASSUME PlaceInv, AccountInv, AccountTypeOK, EnvStep
  PROVE  PlaceInv' /\ AccountInv' /\ AccountTypeOK'
<1>1. UNCHANGED envVars
  BY DEF EnvStep, Elect, StepsDown, Returns, Leaves, LateEntry, LatePut
<1> QED
  BY <1>1, AccountKept

LEMMA SamplingAccount ==
  ASSUME SampleInv, PlaceInv, AccountInv, AccountTypeOK, Sampling
  PROVE  PlaceInv' /\ AccountInv' /\ AccountTypeOK'
<1>1. ~sampled /\ UNCHANGED <<pc, pos, state, oracle>>
  BY DEF Sampling, SampleStep, DrawBusiness, WriteSample
<1>2. pc = "count" /\ pos = 0
  BY <1>1 DEF PlaceInv, Starting
<1>3. Streamed = 0 /\ OracleLines = 0 /\ Streamed' = 0 /\ OracleLines' = 0
  BY <1>1, <1>2 DEF Streamed, OracleLines, Streaming, Starting
<1>4. PlaceInv'
  BY <1>1, <1>2 DEF PlaceInv, Streaming, Starting
<1>5. \A b \in Business : AfterLines(b, 0)' = AfterLines(b, 0)
  <2> \A b : (AfterLines(b, 0) = Unreviewed /\ AfterLines(b, 0)' = Unreviewed)
    BY DEF AfterLines, Unreviewed
  <2> QED
    OBVIOUS
<1>6. AccountInv' /\ AccountTypeOK'
  BY <1>1, <1>3, <1>5 DEF AccountInv, AccountTypeOK
<1> QED
  BY <1>4, <1>6

(* Polls, and what the driver concludes from them.                         *)
LEMMA PollAccount ==
  ASSUME SampleInv, PlaceInv, AccountInv, AccountTypeOK, sampled,
         Asks \/ CountNodes \/ FindsLeader \/ Greets \/ FindsNone \/ Converges
           \/ ChooseNodes \/ Verdict \/ \E n \in Node, k \in Business : FetchKey(n, k)
  PROVE  PlaceInv' /\ AccountInv' /\ AccountTypeOK'
<1>1. CASE Asks \/ \E n \in Node, k \in Business : FetchKey(n, k)
  BY <1>1, AccountKept DEF Asks, FetchKey
<1>2. ASSUME CountNodes \/ FindsLeader \/ Greets \/ FindsNone \/ Converges
               \/ ChooseNodes \/ Verdict
      PROVE  /\ UNCHANGED <<pos, reviews, businesses, sampled, state, oracle>>
             /\ \/ pc = "count" /\ pc' \in {"aborted", "seek"}
                \/ pc = "seek" /\ pc' \in {"greet", "seek", "aborted"}
                \/ pc = "greet" /\ pc' \in {"oracle", "aborted"}
                \/ pc = "return" /\ pc' = "send"
                \/ pc = "converge" /\ pc' \in {"converge", "health"}
                \/ pc = "health" /\ pc' \in {"fetch", "done"}
                \/ pc = "fetch" /\ pc' = "done"
  <2>1. UNCHANGED <<pos, reviews, businesses, sampled, state, oracle>>
    BY <1>2
       DEF CountNodes, FindsLeader, Greets, FindsNone, Converges, ChooseNodes,
           Verdict, Concludes
  <2>2. CASE CountNodes \/ ChooseNodes \/ Verdict \/ Greets
    BY <2>1, <2>2 DEF CountNodes, ChooseNodes, Verdict, Greets, Concludes
  <2>3. CASE FindsLeader \/ FindsNone \/ Converges
    BY <2>1, <2>3 DEF FindsLeader, FindsNone, Converges, Concludes
  <2> QED
    BY <1>2, <2>2, <2>3
<1>3. CASE CountNodes \/ FindsLeader \/ Greets \/ FindsNone \/ Converges
             \/ ChooseNodes \/ Verdict
  <2>1. PlaceInv'
    <3> Len(reviews) \in Nat
      BY DEF SampleInv
    <3>1. CASE pc \in {"count", "seek"}
      BY <1>2, <1>3, <3>1 DEF PlaceInv, Streaming, Starting
    <3>2. CASE pc = "greet"
      <4>1. pos' = 0 /\ pc' \in {"oracle", "aborted"}
        BY <1>2, <1>3, <3>2 DEF PlaceInv, Starting
      <4>2. pos' \in Nat /\ pos' <= Len(reviews') /\ sampled'
        <5>1. UNCHANGED <<reviews, sampled>>
          BY <1>2, <1>3
        <5> QED
          BY <4>1, <5>1
      <4>3. CASE pc' = "oracle"
        BY <4>1, <4>2, <4>3 DEF PlaceInv, Streaming, Starting
      <4>4. CASE pc' = "aborted"
        BY <4>1, <4>2, <4>4 DEF PlaceInv, Streaming, Starting
      <4> QED
        BY <4>1, <4>3, <4>4
    <3>4. CASE pc = "return"
      BY <1>2, <1>3, <3>4 DEF PlaceInv, Streaming, Starting
    <3>3. CASE pc \in {"converge", "health", "fetch"}
      BY <1>2, <1>3, <3>3 DEF PlaceInv, Streaming, Starting
    <3> QED
      BY <1>2, <1>3, <3>1, <3>2, <3>3, <3>4
  <2>2. Streamed' = Streamed /\ OracleLines' = OracleLines
    BY <1>2, <1>3 DEF PlaceInv, Streamed, OracleLines, Streaming, Starting
  <2> QED
    BY <1>2, <1>3, <2>1, <2>2, PlaceMoves
<1> QED
  BY <1>1, <1>3

(* Lines are read, and PUTs are sent.                                      *)
LEMMA OracleAccount ==
  ASSUME SampleInv, PlaceInv, AccountInv, AccountTypeOK, sampled, BuildOracle
  PROVE  PlaceInv' /\ AccountInv' /\ AccountTypeOK'
<1>1. /\ UNCHANGED <<reviews, businesses, sampled, state>> /\ pc = "oracle"
      /\ Len(reviews) \in Nat /\ pos \in Nat /\ pos <= Len(reviews)
  BY DEF BuildOracle, SampleInv, PlaceInv, Streaming
<1>2. Streamed = 0 /\ OracleLines = pos
  BY <1>1 DEF Streamed, OracleLines, Streaming, Starting
<1>3. CASE pos < Len(reviews)
  <2>1. pos' = pos + 1 /\ oracle' = AddReview(oracle, pos + 1) /\ pc' = "oracle"
    BY <1>1, <1>3 DEF BuildOracle
  <2>2. PlaceInv'
    BY <1>1, <1>3, <2>1 DEF PlaceInv, Streaming, Starting
  <2>3. Streamed' = 0 /\ OracleLines' = pos + 1
    BY <2>1 DEF Streamed, OracleLines, Streaming, Starting
  <2>4. /\ oracle' \in [Business -> Values]
        /\ \A b \in Business : oracle'[b] = AfterLines(b, pos + 1)
    BY <1>1, <1>2, <1>3, <2>1, NextLine DEF AccountInv, AccountTypeOK
  <2>5. AccountTypeOK'
    BY <1>1, <2>4 DEF AccountTypeOK
  <2>6. AccountInv'
    <3>1. \A b \in Business : /\ AfterLines(b, OracleLines)' = AfterLines(b, pos + 1)
                               /\ AfterLines(b, Streamed)' = AfterLines(b, 0)
      BY <1>1, <2>3 DEF AfterLines
    <3> QED
      BY <1>1, <1>2, <2>4, <3>1 DEF AccountInv
  <2> QED
    BY <2>2, <2>5, <2>6
<1>4. CASE ~(pos < Len(reviews))
  <2>1. pos' = 0 /\ oracle' = oracle /\ pc' = "load" /\ pos = Len(reviews)
    BY <1>1, <1>4 DEF BuildOracle
  <2>2. PlaceInv'
    <3> Len(businesses) \in Nat
      BY DEF SampleInv
    <3> QED
      BY <1>1, <2>1 DEF PlaceInv, Streaming, Starting
  <2>3. Streamed' = Streamed /\ OracleLines' = OracleLines
    BY <1>1, <1>2, <2>1 DEF Streamed, OracleLines, Streaming, Starting
  <2> QED
    BY <1>1, <2>1, <2>2, <2>3, PlaceMoves
<1> QED
  BY <1>3, <1>4

LEMMA NextAccount ==
  ASSUME SampleInv, PlaceInv, AccountInv, AccountTypeOK, sampled, NextReview
  PROVE  PlaceInv' /\ AccountInv' /\ AccountTypeOK'
<1>1. /\ UNCHANGED <<reviews, businesses, sampled, oracle>> /\ pc = "next"
      /\ Len(reviews) \in Nat /\ pos \in Nat /\ pos <= Len(reviews)
  BY DEF NextReview, SampleInv, PlaceInv, Streaming
<1>2. Streamed = pos /\ OracleLines = Len(reviews)
  BY <1>1 DEF Streamed, OracleLines, Streaming, Starting
<1>3. CASE pos < Len(reviews)
  <2>1. /\ pos' = pos + 1 /\ state' = AddReview(state, pos + 1)
        /\ pc' \in {"send", "next"}
    BY <1>1, <1>3 DEF NextReview
  <2>2. PlaceInv'
    BY <1>1, <1>3, <2>1 DEF PlaceInv, Streaming, Starting
  <2>3. Streamed' = pos + 1 /\ OracleLines' = Len(reviews)
    BY <1>1, <2>1 DEF Streamed, OracleLines, Streaming, Starting
  <2>4. /\ state' \in [Business -> Values]
        /\ \A b \in Business : state'[b] = AfterLines(b, pos + 1)
    BY <1>1, <1>2, <1>3, <2>1, NextLine DEF AccountInv, AccountTypeOK
  <2>5. AccountTypeOK'
    BY <1>1, <2>4 DEF AccountTypeOK
  <2>6. AccountInv'
    <3>1. \A b \in Business : /\ AfterLines(b, Streamed)' = AfterLines(b, pos + 1)
                               /\ AfterLines(b, OracleLines)' = AfterLines(b, Len(reviews))
      BY <1>1, <2>3 DEF AfterLines
    <3> QED
      BY <1>1, <1>2, <2>4, <3>1 DEF AccountInv
  <2> QED
    BY <2>2, <2>5, <2>6
<1>4. CASE ~(pos < Len(reviews))
  <2>1. pos' = pos /\ state' = state /\ pc' = "converge" /\ pos = Len(reviews)
    BY <1>1, <1>4 DEF NextReview
  <2>2. PlaceInv'
    BY <1>1, <2>1 DEF PlaceInv, Streaming, Starting
  <2>3. Streamed' = Streamed /\ OracleLines' = OracleLines
    BY <1>1, <1>2, <2>1 DEF Streamed, OracleLines, Streaming, Starting
  <2> QED
    BY <1>1, <2>1, <2>2, <2>3, PlaceMoves
<1> QED
  BY <1>3, <1>4

LEMMA PutAccount ==
  ASSUME SampleInv, PlaceInv, AccountInv, AccountTypeOK, sampled,
         LoadBusiness \/ LoadEnds \/ SendReview \/ SkipReview
  PROVE  PlaceInv' /\ AccountInv' /\ AccountTypeOK'
<1>1. /\ UNCHANGED <<reviews, businesses, sampled, state, oracle>>
      /\ Len(reviews) \in Nat /\ Len(businesses) \in Nat /\ pos \in Nat
  <2>1. UNCHANGED <<reviews, businesses, sampled, state, oracle>>
    BY DEF LoadBusiness, LoadEnds, SendReview, SkipReview
  <2>2. Len(reviews) \in Nat /\ Len(businesses) \in Nat /\ pos \in Nat
    BY DEF SampleInv, PlaceInv
  <2> QED
    BY <2>1, <2>2
<1>2. \/ pc = "load" /\ pc' = "load" /\ pos' = pos + 1 /\ pos < Len(businesses)
      \/ pc = "load" /\ pc' = "next" /\ pos' = 0
      \/ pc = "send" /\ pc' \in {"next", "return", "send"} /\ pos' = pos
  BY DEF LoadBusiness, LoadEnds, SendReview, SkipReview
<1>3. PlaceInv'
  BY <1>1, <1>2 DEF PlaceInv, Streaming, Starting
<1>4. Streamed' = Streamed /\ OracleLines' = OracleLines
  BY <1>1, <1>2 DEF Streamed, OracleLines, Streaming, Starting
<1> QED
  BY <1>1, <1>3, <1>4, PlaceMoves

DriverAccount == SampleInv /\ PlaceInv /\ AccountInv /\ AccountTypeOK

LEMMA AccountInit == DriverInit => DriverAccount
<1> SUFFICES ASSUME DriverInit PROVE DriverAccount
  OBVIOUS
<1>1. SampleInv /\ Len(reviews) \in Nat
  BY SampleInvInit DEF DriverInit, SampleInv
<1>2. PlaceInv
  BY <1>1 DEF DriverInit, SampleInit, PlaceInv, Streaming, Starting
<1>3. Streamed = 0 /\ OracleLines = 0
  BY DEF DriverInit, Streamed, OracleLines, Streaming, Starting
<1>4. AccountInv /\ AccountTypeOK
  BY <1>3, NoLines DEF DriverInit, AccountInv, AccountTypeOK
<1> QED
  BY <1>1, <1>2, <1>4 DEF DriverAccount

LEMMA AccountStep == DriverAccount /\ [DriverNext]_driverVars => DriverAccount'
<1> SUFFICES ASSUME DriverAccount, [DriverNext]_driverVars PROVE DriverAccount'
  OBVIOUS
<1>1. SampleInv'
  <2>1. SampleStep \/ UNCHANGED sampleVars
    BY DEF DriverNext, EnvStep, DriverStep, Sampling, driverVars, Elect, StepsDown,
           Returns, Leaves, LateEntry, LatePut, Asks, CountNodes, FindsLeader,
           Greets, FindsNone, Converges, ChooseNodes, Verdict, FetchKey,
           Concludes, BuildOracle, LoadBusiness, LoadEnds, NextReview, SendReview,
           SkipReview
  <2> QED
    BY <2>1, SampleInvStep DEF DriverAccount
<1>2. PlaceInv' /\ AccountInv' /\ AccountTypeOK'
  BY AccountKept, EnvAccount, SamplingAccount, PollAccount, OracleAccount,
     NextAccount, PutAccount
     DEF DriverAccount, DriverNext, DriverStep, driverVars
<1> QED
  BY <1>1, <1>2 DEF DriverAccount

-----------------------------------------------------------------------------
(* The logs.                                                               *)
LogTypeOK ==
  /\ up \subseteq Node /\ leads \subseteq Node /\ led \subseteq Node
  /\ term \in [Node -> Nat]
  /\ log \in [Node -> Seq(Entries)]
  /\ late \subseteq [to : Node, entry : Entries]
  /\ confirmed \subseteq Entries
  /\ overtaken \in BOOLEAN
  /\ leader \in Node

\* Only who has led writes.
LeadersWrite ==
  /\ leads \subseteq led
  /\ led = {} => \A n \in Node : Len(log[n]) = 0

\* A value that some first lines of the stream give.
Current(e) == \E k \in 0 .. Streamed : e.value = AfterLines(e.key, k)
ValuesAreCurrent ==
  /\ \A n \in Node : \A i \in DOMAIN log[n] : Current(log[n][i])
  /\ \A c \in late : Current(c.entry)

\* As long as only one node has led, every log is a prefix of its log.
OneLed == \A n, m \in led : n = m
LogsAgree ==
  OneLed =>
    \A l \in led, n \in Node :
      /\ Len(log[n]) <= Len(log[l])
      /\ \A i \in DOMAIN log[n] : log[n][i] = log[l][i]

\* Then, and if no PUT came late, the values of a key only grow.
AtMost(v, w) == \A r \in 1 .. MaxReviews : v[r] <= w[r]
ValuesGrow ==
  OneLed /\ ~overtaken =>
    \A n \in Node : \A i, j \in DOMAIN log[n] :
      i < j /\ log[n][i].key = log[n][j].key =>
        AtMost(log[n][i].value, log[n][j].value)

\* What was confirmed is in the leader's log.
ConfirmedAreStored ==
  OneLed =>
    \A e \in confirmed :
      led # {} /\ \A l \in led : \E i \in DOMAIN log[l] : log[l][i] = e

LogInv ==
  /\ LogTypeOK /\ LeadersWrite /\ ValuesAreCurrent /\ LogsAgree /\ ValuesGrow
  /\ ConfirmedAreStored

LEMMA LogInvInit == DriverInit => LogInv
<1> SUFFICES ASSUME DriverInit PROVE LogInv
  OBVIOUS
<1>1. /\ led = {} /\ late = {} /\ confirmed = {} /\ leads = {} /\ up = Node
      /\ term = [n \in Node |-> 0] /\ overtaken = FALSE /\ leader = NodeOrder[1]
      /\ log = [n \in Node |-> << >>]
  BY DEF DriverInit
<1>2. \A n \in Node : /\ log[n] = << >> /\ Len(log[n]) = 0 /\ DOMAIN log[n] = {}
                      /\ log[n] \in Seq(Entries)
  BY <1>1, EmptySeq
<1>3. NodeOrder[1] \in Node
  BY DriverAssumption
<1>4. LogTypeOK
  BY <1>1, <1>2, <1>3 DEF LogTypeOK
<1>5. LeadersWrite /\ ValuesAreCurrent /\ LogsAgree /\ ValuesGrow /\ ConfirmedAreStored
  BY <1>1, <1>2
     DEF LeadersWrite, ValuesAreCurrent, LogsAgree, ValuesGrow, ConfirmedAreStored
<1> QED
  BY <1>4, <1>5 DEF LogInv

\* What a node's log is after an entry.
LEMMA AppendedLog ==
  ASSUME NEW n \in Node, NEW e \in Entries, NEW S \in SUBSET Node, LogTypeOK,
         log' = [p \in Node |-> IF p \in S \cup {n} THEN Append(log[p], e) ELSE log[p]]
  PROVE  /\ log' \in [Node -> Seq(Entries)]
         /\ \A p \in Node \ (S \cup {n}) : log'[p] = log[p]
         /\ \A p \in S \cup {n} :
              /\ Len(log'[p]) = Len(log[p]) + 1
              /\ DOMAIN log'[p] = 1 .. Len(log[p]) + 1
              /\ log'[p][Len(log[p]) + 1] = e
              /\ \A i \in 1 .. Len(log[p]) : log'[p][i] = log[p][i]
         /\ \A p \in Node : /\ DOMAIN log[p] = 1 .. Len(log[p]) /\ Len(log[p]) \in Nat
                           /\ log[p] \in Seq(Entries)
<1>1. \A p \in Node : log[p] \in Seq(Entries)
  BY DEF LogTypeOK
<1>2. \A p \in Node : DOMAIN log[p] = 1 .. Len(log[p]) /\ Len(log[p]) \in Nat
  BY <1>1
<1>3. ASSUME NEW p \in S \cup {n}
      PROVE  /\ log'[p] \in Seq(Entries)
             /\ Len(log'[p]) = Len(log[p]) + 1
             /\ DOMAIN log'[p] = 1 .. Len(log[p]) + 1
             /\ log'[p][Len(log[p]) + 1] = e
             /\ \A i \in 1 .. Len(log[p]) : log'[p][i] = log[p][i]
  <2>1. log'[p] = Append(log[p], e) /\ log[p] \in Seq(Entries)
    BY <1>1
  <2>2. /\ Append(log[p], e) \in Seq(Entries)
        /\ Len(Append(log[p], e)) = Len(log[p]) + 1
        /\ Append(log[p], e)[Len(log[p]) + 1] = e
        /\ \A i \in 1 .. Len(log[p]) : Append(log[p], e)[i] = log[p][i]
    BY <2>1, AppendProperties
  <2>3. DOMAIN Append(log[p], e) = 1 .. Len(log[p]) + 1
    BY <2>2
  <2> QED
    BY <2>1, <2>2, <2>3
<1>4. \A p \in Node \ (S \cup {n}) : log'[p] = log[p]
  OBVIOUS
<1>5. log' \in [Node -> Seq(Entries)]
  BY <1>1, <1>3, <1>4
<1> QED
  BY <1>1, <1>2, <1>3, <1>4, <1>5

\* What is current stays so while the stream goes on.
LEMMA CurrentStays ==
  ASSUME reviews' = reviews, Streamed \in Nat, Streamed' \in Nat, Streamed <= Streamed',
         NEW e, Current(e)
  PROVE  Current(e)'
<1>1. PICK k \in 0 .. Streamed : e.value = AfterLines(e.key, k)
  BY DEF Current
<1>2. k \in 0 .. Streamed'
  OBVIOUS
<1>3. AfterLines(e.key, k)' = AfterLines(e.key, k)
  BY DEF AfterLines
<1> QED
  BY <1>1, <1>2, <1>3 DEF Current

LEMMA LogsStayCurrent ==
  ASSUME \A n \in Node : \A i \in DOMAIN log[n] : Current(log[n][i]),
         NEW e, Current(e), reviews' = reviews,
         Streamed \in Nat, Streamed' \in Nat, Streamed <= Streamed',
         \A n \in Node : \A i \in DOMAIN log'[n] :
           log'[n][i] = e \/ \E m \in Node : \E j \in DOMAIN log[m] : log'[n][i] = log[m][j]
  PROVE  (\A n \in Node : \A i \in DOMAIN log[n] : Current(log[n][i]))'
<1>1. ASSUME NEW n \in Node, NEW i \in DOMAIN log'[n]
      PROVE  (Current(log[n][i]))'
  <2>1. PICK d : d = log'[n][i] /\ Current(d)
    OBVIOUS
  <2>2. Current(d)'
    BY <2>1, CurrentStays
  <2> QED
    BY <2>1, <2>2 DEF Current, AfterLines
<1> QED
  BY <1>1

\* A leader writes an entry, and some of the peers it fits with it.
LEMMA WriteGrows ==
  ASSUME DriverAccount, LogInv, NEW n \in leads, NEW e \in Entries,
         NEW S \in SUBSET Acceptors(n), Append1(n, e, S), led' = led,
         reviews' = reviews, Streamed' = Streamed, Current(e)
  PROVE  /\ log' \in [Node -> Seq(Entries)] /\ term' \in [Node -> Nat]
         /\ up' \subseteq Node /\ leads' \subseteq Node /\ led' \subseteq Node
         /\ LeadersWrite' /\ LogsAgree'
         /\ (\A m \in Node : \A i \in DOMAIN log[m] : Current(log[m][i]))'
         /\ \A m \in Node : Len(log[m]) <= Len(log'[m])
         /\ \A m \in Node : \A i \in DOMAIN log[m] :
              i \in DOMAIN log'[m] /\ log'[m][i] = log[m][i]
         /\ \A m \in S \cup {n} :
              /\ DOMAIN log'[m] = 1 .. Len(log[m]) + 1
              /\ log'[m][Len(log[m]) + 1] = e
         /\ \A m \in Node \ (S \cup {n}) : log'[m] = log[m]
<1>1. n \in Node /\ n \in led /\ S \in SUBSET Node /\ \A p \in S : Len(log[p]) = Len(log[n])
  BY DEF LogInv, LogTypeOK, LeadersWrite, Acceptors
<1>2. /\ log' \in [Node -> Seq(Entries)]
      /\ \A p \in Node \ (S \cup {n}) : log'[p] = log[p]
      /\ \A p \in S \cup {n} :
           /\ Len(log'[p]) = Len(log[p]) + 1
           /\ DOMAIN log'[p] = 1 .. Len(log[p]) + 1
           /\ log'[p][Len(log[p]) + 1] = e
           /\ \A i \in 1 .. Len(log[p]) : log'[p][i] = log[p][i]
      /\ \A p \in Node : DOMAIN log[p] = 1 .. Len(log[p]) /\ Len(log[p]) \in Nat
  <2>1. log' = [p \in Node |-> IF p \in S \cup {n} THEN Append(log[p], e) ELSE log[p]]
    BY DEF Append1
  <2>2. LogTypeOK
    BY DEF LogInv
  <2>3. n \in Node /\ e \in Entries /\ S \in SUBSET Node
    BY <1>1
  <2>4. /\ log' \in [Node -> Seq(Entries)]
        /\ \A p \in Node \ (S \cup {n}) : log'[p] = log[p]
        /\ \A p \in S \cup {n} :
             /\ Len(log'[p]) = Len(log[p]) + 1
             /\ DOMAIN log'[p] = 1 .. Len(log[p]) + 1
             /\ log'[p][Len(log[p]) + 1] = e
             /\ \A i \in 1 .. Len(log[p]) : log'[p][i] = log[p][i]
        /\ \A p \in Node : /\ DOMAIN log[p] = 1 .. Len(log[p]) /\ Len(log[p]) \in Nat
                          /\ log[p] \in Seq(Entries)
    BY <2>1, <2>2, <2>3, AppendedLog
  <2> QED
    BY <2>4
<1>3. /\ term' \in [Node -> Nat] /\ up' \subseteq Node /\ leads' \subseteq Node
      /\ led' \subseteq Node
  BY <1>1 DEF Append1, LogInv, LogTypeOK
<1>4. LeadersWrite'
  BY <1>1 DEF Append1, LogInv, LeadersWrite
<1>5. \A m \in Node : /\ Len(log[m]) <= Len(log'[m])
                      /\ \A i \in DOMAIN log[m] :
                           i \in DOMAIN log'[m] /\ log'[m][i] = log[m][i]
  BY <1>2
<1>6. LogsAgree'
  <2>1. ASSUME OneLed, NEW m \in Node
        PROVE  /\ Len(log'[m]) <= Len(log'[n])
               /\ \A i \in DOMAIN log'[m] : log'[m][i] = log'[n][i]
    <3>1. /\ Len(log[m]) <= Len(log[n])
          /\ \A i \in DOMAIN log[m] : log[m][i] = log[n][i]
      BY <1>1, <2>1 DEF LogInv, LogsAgree
    <3>2. CASE m \in S \cup {n}
      <4>1. Len(log[m]) = Len(log[n])
        BY <1>1, <3>2
      <4>2. ASSUME NEW i \in DOMAIN log'[m] PROVE log'[m][i] = log'[n][i]
        <5>1. i \in 1 .. Len(log[n]) + 1 /\ Len(log[n]) \in Nat
          BY <1>1, <1>2, <3>2, <4>1
        <5>2. CASE i = Len(log[n]) + 1
          BY <1>2, <3>2, <4>1, <5>2
        <5>3. CASE i \in 1 .. Len(log[n])
          <6>1. log'[m][i] = log[m][i] /\ log'[n][i] = log[n][i] /\ i \in DOMAIN log[m]
            BY <1>1, <1>2, <3>2, <4>1, <5>3
          <6> QED
            BY <3>1, <6>1
        <5> QED
          BY <5>1, <5>2, <5>3
      <4>3. Len(log'[m]) = Len(log[n]) + 1 /\ Len(log'[n]) = Len(log[n]) + 1
        BY <1>2, <3>2, <4>1
      <4> QED
        BY <1>1, <1>2, <4>2, <4>3
    <3>3. CASE m \notin S \cup {n}
      <4>1. log'[m] = log[m]
        BY <1>2, <3>3
      <4> QED
        BY <1>1, <1>2, <3>1, <4>1
    <3> QED
      BY <3>2, <3>3
  <2>2. OneLed' => OneLed /\ led' = {n}
    BY <1>1 DEF OneLed
  <2> QED
    BY <2>1, <2>2 DEF LogsAgree
<1>7. (\A m \in Node : \A i \in DOMAIN log[m] : Current(log[m][i]))'
  <2>1. Streamed \in Nat
    BY DEF DriverAccount, PlaceInv, Streamed
  <2>2. \A m \in Node : \A i \in DOMAIN log'[m] :
          log'[m][i] = e \/ \E p \in Node : \E j \in DOMAIN log[p] : log'[m][i] = log[p][j]
    BY <1>2
  <2>3. \A m \in Node : \A i \in DOMAIN log[m] : Current(log[m][i])
    BY DEF LogInv, ValuesAreCurrent
  <2> QED
    BY <2>1, <2>2, <2>3, LogsStayCurrent
<1> QED
  BY <1>2, <1>3, <1>4, <1>5, <1>6, <1>7

\* The newest value of a business is at least every older one.
LEMMA NewestIsHighest ==
  ASSUME DriverAccount, NEW b, NEW v, NEW k \in 0 .. Streamed, v = AfterLines(b, k)
  PROVE  AtMost(v, AfterLines(b, Streamed))
<1>1. Streamed \in Nat
  BY DEF DriverAccount, PlaceInv, Streamed
<1> QED
  BY <1>1, SampleAssumption DEF AtMost, AfterLines

\* What was confirmed stays in the logs, which only get longer.
LEMMA ConfirmedStay ==
  ASSUME LogInv, led \subseteq led', led' \subseteq Node,
         \A m \in Node : \A i \in DOMAIN log[m] :
           i \in DOMAIN log'[m] /\ log'[m][i] = log[m][i],
         \A e \in confirmed' \ confirmed :
           \E n \in led' : \E i \in DOMAIN log'[n] : log'[n][i] = e
  PROVE  ConfirmedAreStored'
<1>1. ASSUME OneLed', NEW e \in confirmed'
      PROVE  led' # {} /\ \A l \in led' : \E i \in DOMAIN log'[l] : log'[l][i] = e
  <2>1. OneLed
    BY <1>1 DEF OneLed
  <2>2. CASE e \in confirmed
    <3>1. PICK l \in led : \E i \in DOMAIN log[l] : log[l][i] = e
      BY <2>1, <2>2 DEF LogInv, ConfirmedAreStored
    <3>2. PICK i \in DOMAIN log[l] : log[l][i] = e
      BY <3>1
    <3>3. l \in led' /\ l \in Node /\ \A m \in led' : m = l
      BY <1>1, <3>1 DEF OneLed
    <3>4. i \in DOMAIN log'[l] /\ log'[l][i] = e
      BY <3>2, <3>3
    <3> QED
      BY <3>3, <3>4
  <2>3. CASE e \notin confirmed
    <3>1. PICK n \in led' : \E i \in DOMAIN log'[n] : log'[n][i] = e
      BY <1>1, <2>3
    <3>2. \A m \in led' : m = n
      BY <1>1, <3>1 DEF OneLed
    <3> QED
      BY <3>1, <3>2
  <2> QED
    BY <2>2, <2>3
<1> QED
  BY <1>1 DEF ConfirmedAreStored

\* Steps that write no entry.
LEMMA QuietLogs ==
  ASSUME LogInv, LogTypeOK', log' = log, led \subseteq led', leads' \subseteq led',
         confirmed' = confirmed, overtaken' = overtaken,
         \A c \in late' : Current(c.entry),
         reviews' = reviews \/ Streamed = 0,
         Streamed \in Nat, Streamed' \in Nat, Streamed <= Streamed'
  PROVE  LogInv'
<1>1. LeadersWrite'
  BY DEF LogInv, LeadersWrite
<1>2. ASSUME NEW e, Current(e) PROVE Current(e)'
  <2>1. CASE reviews' = reviews
    BY <1>2, <2>1, CurrentStays
  <2>2. CASE Streamed = 0
    <3>1. e.value = AfterLines(e.key, 0) /\ 0 \in 0 .. Streamed'
      BY <1>2, <2>2 DEF Current
    <3>2. AfterLines(e.key, 0)' = AfterLines(e.key, 0)
      <4>1. AfterLines(e.key, 0) = Unreviewed /\ AfterLines(e.key, 0)' = Unreviewed
        BY DEF AfterLines, Unreviewed
      <4> QED
        BY <4>1
    <3> QED
      BY <3>1, <3>2 DEF Current
  <2> QED
    BY <2>1, <2>2
<1>3. ValuesAreCurrent'
  <2>1. ASSUME NEW n \in Node, NEW i \in DOMAIN log'[n] PROVE Current(log[n][i])'
    <3>1. PICK d : d = log[n][i]
      OBVIOUS
    <3>2. Current(d)'
      BY <1>2, <2>1, <3>1 DEF LogInv, ValuesAreCurrent
    <3> QED
      BY <3>1, <3>2 DEF Current, AfterLines
  <2>2. ASSUME NEW c \in late' PROVE Current(c.entry)'
    <3>1. PICK d : d = c.entry
      OBVIOUS
    <3>2. Current(d)'
      BY <1>2, <2>2, <3>1
    <3> QED
      BY <3>1, <3>2 DEF Current, AfterLines
  <2> QED
    BY <2>1, <2>2 DEF ValuesAreCurrent
<1>4. OneLed' => OneLed
  BY DEF OneLed
<1>5. LogsAgree'
  <2>1. ASSUME OneLed', NEW l \in led', NEW n \in Node
        PROVE  Len(log[n]) <= Len(log[l]) /\ \A i \in DOMAIN log[n] : log[n][i] = log[l][i]
    <3>1. CASE led = {}
      <4>1. l \in Node /\ Len(log[n]) = 0 /\ Len(log[l]) = 0
        BY <3>1 DEF LogInv, LeadersWrite, LogTypeOK
      <4>2. DOMAIN log[n] = 1 .. Len(log[n])
        BY DEF LogInv, LogTypeOK
      <4> QED
        BY <4>1, <4>2
    <3>2. CASE led # {}
      <4>1. l \in led
        BY <2>1, <3>2 DEF OneLed
      <4> QED
        BY <1>4, <2>1, <4>1 DEF LogInv, LogsAgree
    <3> QED
      BY <3>1, <3>2
  <2> QED
    BY <2>1 DEF LogsAgree
<1>6. ValuesGrow'
  BY <1>4 DEF LogInv, ValuesGrow, AtMost
<1>7. ConfirmedAreStored'
  BY ConfirmedStay DEF LogTypeOK
<1> QED
  BY <1>1, <1>3, <1>5, <1>6, <1>7 DEF LogInv

(* A PUT of the newest value of a business.                                *)
LEMMA PutLogs ==
  ASSUME DriverAccount, LogInv, NEW e \in Entries, NEW result \in Results,
         Put(leader, e, result), Confirms(e, result),
         e.value = AfterLines(e.key, Streamed),
         reviews' = reviews, Streamed' = Streamed, leader' = leader,
         overtaken' = overtaken
  PROVE  LogInv'
<1>1. Streamed \in Nat /\ Current(e)
  BY DEF DriverAccount, PlaceInv, Streamed, Current
<1>2. confirmed' \subseteq Entries /\ confirmed \subseteq confirmed'
      /\ confirmed' \subseteq confirmed \cup {e}
      /\ (result # "200" => confirmed' = confirmed)
  BY DEF Confirms, LogInv, LogTypeOK
<1>3. CASE Serves(leader, e, result)
  <2>1. PICK S \in SUBSET Acceptors(leader) : Append1(leader, e, S)
    BY <1>3 DEF Serves
  <2>2. leader \in leads /\ led' = led /\ late' = late /\ leader \in led /\ leader \in Node
    BY <1>3 DEF Serves, Append1, LogInv, LeadersWrite, LogTypeOK
  <2>3. /\ log' \in [Node -> Seq(Entries)] /\ term' \in [Node -> Nat]
        /\ up' \subseteq Node /\ leads' \subseteq Node /\ led' \subseteq Node
        /\ LeadersWrite' /\ LogsAgree'
        /\ (\A m \in Node : \A i \in DOMAIN log[m] : Current(log[m][i]))'
        /\ \A m \in Node : \A i \in DOMAIN log[m] :
             i \in DOMAIN log'[m] /\ log'[m][i] = log[m][i]
        /\ \A m \in S \cup {leader} :
             /\ DOMAIN log'[m] = 1 .. Len(log[m]) + 1
             /\ log'[m][Len(log[m]) + 1] = e
        /\ \A m \in Node \ (S \cup {leader}) : log'[m] = log[m]
    BY <1>1, <2>1, <2>2, WriteGrows
  <2>4. LogTypeOK'
    BY <1>2, <2>2, <2>3 DEF LogInv, LogTypeOK
  <2>5. ValuesAreCurrent'
    <3>1. ASSUME NEW c \in late' PROVE Current(c.entry)'
      <4>1. PICK d : d = c.entry
        OBVIOUS
      <4>2. Current(d)
        BY <2>2, <3>1, <4>1 DEF LogInv, ValuesAreCurrent
      <4>3. Current(d)'
        BY <1>1, <4>2, CurrentStays
      <4> QED
        BY <4>1, <4>3 DEF Current, AfterLines
    <3> QED
      BY <2>3, <3>1 DEF ValuesAreCurrent
  <2>6. ValuesGrow'
    <3>1. ASSUME OneLed, ~overtaken, NEW m \in Node, NEW i \in DOMAIN log'[m],
                 NEW j \in DOMAIN log'[m], i < j, log'[m][i].key = log'[m][j].key
          PROVE  AtMost(log'[m][i].value, log'[m][j].value)
      <4>1. DOMAIN log[m] = 1 .. Len(log[m]) /\ Len(log[m]) \in Nat
        BY DEF LogInv, LogTypeOK
      <4>2. \A a, b \in DOMAIN log[m] :
              a < b /\ log[m][a].key = log[m][b].key =>
                AtMost(log[m][a].value, log[m][b].value)
        BY <3>1 DEF LogInv, ValuesGrow
      <4>3. CASE i \in DOMAIN log[m] /\ j \in DOMAIN log[m]
        BY <2>3, <3>1, <4>2, <4>3
      <4>4. CASE m \in S \cup {leader} /\ j = Len(log[m]) + 1
        <5>1. i \in DOMAIN log[m] /\ log'[m][i] = log[m][i] /\ log'[m][j] = e
          BY <2>3, <3>1, <4>1, <4>4
        <5>2. PICK k \in 0 .. Streamed : log[m][i].value = AfterLines(log[m][i].key, k)
          BY <5>1 DEF LogInv, ValuesAreCurrent, Current
        <5>3. AtMost(log[m][i].value, AfterLines(log[m][i].key, Streamed))
          BY <5>2, NewestIsHighest
        <5> QED
          BY <3>1, <5>1, <5>3
      <4> QED
        <5>1. CASE m \in S \cup {leader}
          BY <2>3, <3>1, <4>1, <4>3, <4>4, <5>1
        <5>2. CASE m \notin S \cup {leader}
          BY <2>3, <4>3, <5>2
        <5> QED
          BY <5>1, <5>2
    <3>2. OneLed' => OneLed
      BY <2>2 DEF OneLed
    <3> QED
      BY <3>1, <3>2 DEF ValuesGrow, AtMost
  <2>7. ConfirmedAreStored'
    <3>1. Len(log[leader]) + 1 \in DOMAIN log'[leader]
      <4> Len(log[leader]) \in Nat
        BY <2>2 DEF LogInv, LogTypeOK
      <4> QED
        BY <2>3
    <3>2. \A d \in confirmed' \ confirmed :
            \E n \in led' : \E i \in DOMAIN log'[n] : log'[n][i] = d
      BY <1>2, <2>2, <2>3, <3>1
    <3> QED
      BY <2>2, <2>3, <3>2, ConfirmedStay
  <2> QED
    BY <2>3, <2>4, <2>5, <2>6, <2>7 DEF LogInv
<1>4. CASE ~Serves(leader, e, result)
  <2>1. UNCHANGED nodeVars /\ confirmed' = confirmed
    BY <1>2, <1>4 DEF Put, Refuses, Breaks, Hangs
  <2>2. late' = late \/ late' = {Call(leader, e)}
    BY <1>4 DEF Put, Refuses, Breaks, Hangs
  <2>3. \A c \in late' : Current(c.entry) /\ c \in [to : Node, entry : Entries]
    BY <1>1, <2>2 DEF LogInv, ValuesAreCurrent, LogTypeOK, Call
  <2>4. LogTypeOK'
    BY <2>1, <2>3 DEF LogInv, LogTypeOK
  <2>5. led \subseteq led' /\ leads' \subseteq led' /\ log' = log
    BY <2>1 DEF LogInv, LeadersWrite
  <2> QED
    BY <1>1, <2>1, <2>3, <2>4, <2>5, QuietLogs
<1> QED
  BY <1>3, <1>4

\* An entry whose fan-out is over is still appended by a peer.
LEMMA LateEntryFacts ==
  ASSUME LogInv, NEW n \in Node, NEW p \in Node, LateEntry(n, p)
  PROVE  /\ n \in led /\ p # n /\ Len(log[p]) + 1 \in DOMAIN log[n]
         /\ log' \in [Node -> Seq(Entries)]
         /\ \A m \in Node \ {p} : log'[m] = log[m]
         /\ Len(log'[p]) = Len(log[p]) + 1
         /\ DOMAIN log'[p] = 1 .. Len(log[p]) + 1
         /\ log'[p][Len(log[p]) + 1] = log[n][Len(log[p]) + 1]
         /\ \A i \in DOMAIN log[p] : log'[p][i] = log[p][i]
         /\ \A m \in Node : DOMAIN log[m] = 1 .. Len(log[m]) /\ Len(log[m]) \in Nat
<1> DEFINE e == log[n][Len(log[p]) + 1]
<1>1. log \in [Node -> Seq(Entries)] /\ LogTypeOK
  BY DEF LogInv, LogTypeOK
<1>2. \A m \in Node : DOMAIN log[m] = 1 .. Len(log[m]) /\ Len(log[m]) \in Nat
  BY <1>1
<1>3. n \in led /\ p # n /\ Len(log[p]) + 1 \in DOMAIN log[n]
  BY <1>2 DEF LateEntry
<1>4. e \in Entries
  BY <1>1, <1>3
<1>5. log' = [m \in Node |-> IF m \in {} \cup {p} THEN Append(log[m], e) ELSE log[m]]
  BY <1>1 DEF LateEntry
<1> HIDE DEF e
<1>6. {} \in SUBSET Node
  OBVIOUS
<1>7. /\ log' \in [Node -> Seq(Entries)]
      /\ \A m \in Node \ ({} \cup {p}) : log'[m] = log[m]
      /\ \A m \in {} \cup {p} :
           /\ Len(log'[m]) = Len(log[m]) + 1
           /\ DOMAIN log'[m] = 1 .. Len(log[m]) + 1
           /\ log'[m][Len(log[m]) + 1] = e
           /\ \A i \in 1 .. Len(log[m]) : log'[m][i] = log[m][i]
      /\ \A m \in Node : /\ DOMAIN log[m] = 1 .. Len(log[m]) /\ Len(log[m]) \in Nat
                        /\ log[m] \in Seq(Entries)
  BY <1>1, <1>4, <1>5, <1>6, AppendedLog
<1> QED
  BY <1>2, <1>3, <1>7 DEF e

LEMMA LateEntryLogs ==
  ASSUME DriverAccount, LogInv, NEW n \in Node, NEW p \in Node, LateEntry(n, p)
  PROVE  LogInv'
<1>1. /\ n \in led /\ p # n /\ Len(log[p]) + 1 \in DOMAIN log[n]
      /\ log' \in [Node -> Seq(Entries)]
      /\ \A m \in Node \ {p} : log'[m] = log[m]
      /\ Len(log'[p]) = Len(log[p]) + 1
      /\ DOMAIN log'[p] = 1 .. Len(log[p]) + 1
      /\ log'[p][Len(log[p]) + 1] = log[n][Len(log[p]) + 1]
      /\ \A i \in DOMAIN log[p] : log'[p][i] = log[p][i]
      /\ \A m \in Node : DOMAIN log[m] = 1 .. Len(log[m]) /\ Len(log[m]) \in Nat
  BY LateEntryFacts
<1>2. UNCHANGED <<up, leads, term, late, led, overtaken, leader, confirmed, reviews,
                  pc, pos>>
  BY DEF LateEntry
<1>3. Streamed \in Nat /\ Streamed' = Streamed
  BY <1>2 DEF DriverAccount, PlaceInv, Streamed
<1>4. LogTypeOK'
  BY <1>1, <1>2 DEF LogInv, LogTypeOK
<1>5. LeadersWrite'
  BY <1>1, <1>2 DEF LogInv, LeadersWrite
<1>6. \A m \in Node : \A i \in DOMAIN log'[m] :
        \E q \in Node : \E j \in DOMAIN log[q] : log'[m][i] = log[q][j]
  <2>1. ASSUME NEW i \in DOMAIN log'[p]
        PROVE  \E q \in Node : \E j \in DOMAIN log[q] : log'[p][i] = log[q][j]
    <3>1. CASE i = Len(log[p]) + 1
      BY <1>1, <3>1
    <3>2. CASE i \in DOMAIN log[p]
      BY <1>1, <3>2
    <3> QED
      BY <1>1, <3>1, <3>2
  <2>2. ASSUME NEW m \in Node, NEW i \in DOMAIN log'[m]
        PROVE  \E q \in Node : \E j \in DOMAIN log[q] : log'[m][i] = log[q][j]
    <3>1. CASE m = p
      BY <2>1, <2>2, <3>1
    <3>2. CASE m # p
      BY <1>1, <2>2, <3>2
    <3> QED
      BY <3>1, <3>2
  <2> QED
    BY <2>2
<1>7. ValuesAreCurrent'
  <2>1. ASSUME NEW m \in Node, NEW i \in DOMAIN log'[m] PROVE Current(log[m][i])'
    <3>1. PICK d : d = log'[m][i] /\ Current(d)
      BY <1>6, <2>1 DEF LogInv, ValuesAreCurrent
    <3>2. Current(d)'
      BY <1>2, <1>3, <3>1, CurrentStays
    <3> QED
      BY <3>1, <3>2 DEF Current, AfterLines
  <2>2. ASSUME NEW c \in late' PROVE Current(c.entry)'
    <3>1. PICK d : d = c.entry /\ Current(d)
      BY <1>2, <2>2 DEF LogInv, ValuesAreCurrent
    <3>2. Current(d)'
      BY <1>2, <1>3, <3>1, CurrentStays
    <3> QED
      BY <3>1, <3>2 DEF Current, AfterLines
  <2> QED
    BY <2>1, <2>2 DEF ValuesAreCurrent
<1>8. ASSUME OneLed, NEW m \in Node
      PROVE  /\ Len(log'[m]) <= Len(log[n])
             /\ \A i \in DOMAIN log'[m] : i \in DOMAIN log[n] /\ log'[m][i] = log[n][i]
  <2>1. /\ Len(log[m]) <= Len(log[n])
        /\ \A i \in DOMAIN log[m] : log[m][i] = log[n][i]
    BY <1>1, <1>8 DEF LogInv, LogsAgree
  <2>2. CASE m # p
    <3>1. log'[m] = log[m] /\ n \in Node
      BY <1>1, <2>2
    <3>2. DOMAIN log[m] \subseteq DOMAIN log[n]
      BY <1>1, <2>1
    <3> QED
      BY <2>1, <3>1, <3>2
  <2>3. CASE m = p
    <3>1. Len(log'[m]) <= Len(log[n])
      BY <1>1, <2>3
    <3>2. ASSUME NEW i \in DOMAIN log'[m]
          PROVE  i \in DOMAIN log[n] /\ log'[m][i] = log[n][i]
      <4>1. CASE i = Len(log[p]) + 1
        BY <1>1, <2>3, <4>1
      <4>2. CASE i \in DOMAIN log[p]
        <5>1. i \in DOMAIN log[n]
          BY <1>1, <2>1, <2>3, <4>2
        <5> QED
          BY <1>1, <2>1, <2>3, <4>2, <5>1
      <4> QED
        BY <1>1, <2>3, <3>2, <4>1, <4>2
    <3> QED
      BY <3>1, <3>2
  <2> QED
    BY <2>2, <2>3
<1>9. LogsAgree' /\ ValuesGrow'
  <2>1. log'[n] = log[n] /\ (OneLed' => OneLed /\ led' = {n})
    BY <1>1, <1>2 DEF OneLed
  <2>2. LogsAgree'
    BY <1>8, <2>1 DEF LogsAgree
  <2>3. ASSUME OneLed, ~overtaken, NEW m \in Node, NEW i \in DOMAIN log'[m],
               NEW j \in DOMAIN log'[m], i < j, log'[m][i].key = log'[m][j].key
        PROVE  AtMost(log'[m][i].value, log'[m][j].value)
    <3>1. /\ i \in DOMAIN log[n] /\ log'[m][i] = log[n][i]
          /\ j \in DOMAIN log[n] /\ log'[m][j] = log[n][j]
      BY <1>8, <2>3
    <3> QED
      BY <2>3, <3>1 DEF LogInv, ValuesGrow
  <2>4. ValuesGrow'
    BY <1>2, <2>1, <2>3 DEF ValuesGrow, AtMost
  <2> QED
    BY <2>2, <2>4
<1>10. ConfirmedAreStored'
  <2>1. \A m \in Node : \A i \in DOMAIN log[m] :
          i \in DOMAIN log'[m] /\ log'[m][i] = log[m][i]
    <3>1. \A i \in DOMAIN log[p] : i \in DOMAIN log'[p] /\ log'[p][i] = log[p][i]
      BY <1>1
    <3> QED
      BY <1>1, <3>1
  <2>2. led \subseteq led' /\ led' \subseteq Node /\ confirmed' \ confirmed = {}
    BY <1>2 DEF LogInv, LogTypeOK
  <2> QED
    BY <2>1, <2>2, ConfirmedStay
<1> QED
  BY <1>4, <1>5, <1>7, <1>9, <1>10 DEF LogInv

\* A call the driver has given up on.
LEMMA LatePutLogs ==
  ASSUME DriverAccount, LogInv, NEW c \in late, LatePut(c)
  PROVE  LogInv'
<1>1. PICK S \in SUBSET Acceptors(c.to) : Append1(c.to, c.entry, S)
  BY DEF LatePut
<1>2. /\ c.to \in leads /\ c.to \in Node /\ c.entry \in Entries /\ Current(c.entry)
      /\ UNCHANGED <<led, leader, confirmed, reviews, pc, pos>> /\ overtaken'
      /\ late' \subseteq late
  BY <1>1
     DEF LatePut, Append1, LogInv, LogTypeOK, ValuesAreCurrent
<1>3. Streamed \in Nat /\ Streamed' = Streamed
  BY <1>2 DEF DriverAccount, PlaceInv, Streamed
<1>4. /\ log' \in [Node -> Seq(Entries)] /\ term' \in [Node -> Nat]
      /\ up' \subseteq Node /\ leads' \subseteq Node /\ led' \subseteq Node
      /\ LeadersWrite' /\ LogsAgree'
      /\ (\A m \in Node : \A i \in DOMAIN log[m] : Current(log[m][i]))'
      /\ \A m \in Node : \A i \in DOMAIN log[m] :
           i \in DOMAIN log'[m] /\ log'[m][i] = log[m][i]
  BY <1>1, <1>2, <1>3, WriteGrows
<1>5. LogTypeOK'
  <2>1. overtaken' \in BOOLEAN
    BY DEF LatePut
  <2> QED
    BY <1>2, <1>4, <2>1 DEF LogInv, LogTypeOK
<1>6. ValuesAreCurrent'
  <2>1. ASSUME NEW d \in late' PROVE Current(d.entry)'
    <3>1. PICK f : f = d.entry /\ Current(f)
      BY <1>2, <2>1 DEF LogInv, ValuesAreCurrent
    <3>2. Current(f)'
      BY <1>2, <1>3, <3>1, CurrentStays
    <3> QED
      BY <3>1, <3>2 DEF Current, AfterLines
  <2> QED
    BY <1>4, <2>1 DEF ValuesAreCurrent
<1>7. ValuesGrow'
  BY <1>2 DEF ValuesGrow
<1>8. ConfirmedAreStored'
  <2>1. led \subseteq led' /\ led' \subseteq Node /\ confirmed' \ confirmed = {}
    BY <1>2, <1>4
  <2> QED
    BY <1>4, <2>1, ConfirmedStay
<1> QED
  BY <1>4, <1>5, <1>6, <1>7, <1>8 DEF LogInv

\* Elections, failures and what is late.
LEMMA EnvLogs ==
  ASSUME DriverAccount, LogInv, EnvStep
  PROVE  LogInv'
<1>1. UNCHANGED envVars
  BY DEF EnvStep, Elect, StepsDown, Returns, Leaves, LateEntry, LatePut
<1>2. Streamed \in Nat /\ Streamed' = Streamed
  BY <1>1 DEF DriverAccount, PlaceInv, Streamed
<1>3. ASSUME NEW n \in Node,
             Elect(n) \/ StepsDown(n) \/ Returns(n) \/ \E killed \in BOOLEAN : Leaves(n, killed)
      PROVE  LogInv'
  <2>1. /\ log' = log /\ overtaken' = overtaken /\ up' \subseteq Node
        /\ led' \subseteq Node /\ led \subseteq led' /\ leads' \subseteq led'
        /\ late' \subseteq late
    <3>1. CASE Elect(n)
      BY <3>1 DEF Elect, LogInv, LogTypeOK, LeadersWrite
    <3>2. CASE StepsDown(n)
      BY <3>2 DEF StepsDown, LogInv, LogTypeOK, LeadersWrite
    <3>3. CASE Returns(n)
      BY <3>3 DEF Returns, LogInv, LogTypeOK, LeadersWrite
    <3>4. CASE \E killed \in BOOLEAN : Leaves(n, killed)
      BY <3>4 DEF Leaves, LogInv, LogTypeOK, LeadersWrite
    <3> QED
      BY <1>3, <3>1, <3>2, <3>3, <3>4
  <2>2. term' \in [Node -> Nat]
    <3>1. CASE Elect(n)
      <4>1. PICK t \in 1 .. MaxTerm :
              term' = [p \in Node |-> IF p \in {q \in up : Len(log[q]) <= Len(log[n])}
                                     THEN t ELSE term[p]]
        BY <3>1 DEF Elect
      <4>2. t \in Nat /\ term \in [Node -> Nat]
        BY DriverAssumption DEF LogInv, LogTypeOK
      <4> QED
        BY <4>1, <4>2
    <3>2. CASE StepsDown(n)
      <4>1. PICK p \in up : term' = [term EXCEPT ![n] = term[p]]
        BY <3>2 DEF StepsDown
      <4> QED
        BY <4>1 DEF LogInv, LogTypeOK
    <3>3. CASE \E killed \in BOOLEAN : Leaves(n, killed)
      <4>1. PICK t \in 0 .. term[n] : term' = [term EXCEPT ![n] = t]
        BY <3>3 DEF Leaves
      <4>2. t \in Nat /\ term \in [Node -> Nat]
        BY DEF LogInv, LogTypeOK
      <4> QED
        BY <4>1, <4>2
    <3>4. CASE Returns(n)
      BY <3>4 DEF Returns, LogInv, LogTypeOK
    <3> QED
      BY <1>3, <3>1, <3>2, <3>3, <3>4
  <2>3. LogTypeOK'
    BY <1>1, <2>1, <2>2 DEF LogInv, LogTypeOK
  <2>4. \A c \in late' : Current(c.entry)
    BY <2>1 DEF LogInv, ValuesAreCurrent
  <2> QED
    BY <1>1, <1>2, <2>1, <2>3, <2>4, QuietLogs
<1> QED
  BY <1>3, LateEntryLogs, LatePutLogs DEF EnvStep

\* What the driver sends is current.
LEMMA SentEntry ==
  ASSUME DriverAccount, LoadBusiness \/ SendReview
  PROVE  \E e \in Entries, result \in Results :
           /\ Put(leader, e, result) /\ Confirms(e, result)
           /\ e.value = AfterLines(e.key, Streamed)
<1>1. CASE LoadBusiness
  <2> DEFINE e == Entry(businesses[pos + 1], Unreviewed)
  <2>1. PICK result \in Results : Put(leader, e, result) /\ Confirms(e, result)
    BY <1>1 DEF LoadBusiness
  <2>2. businesses[pos + 1] \in Business
    <3>1. businesses \in Seq(Business) /\ pos \in Nat /\ pos < Len(businesses)
      BY <1>1 DEF LoadBusiness, DriverAccount, SampleInv, PlaceInv
    <3>2. pos + 1 \in 1 .. Len(businesses)
      BY <3>1
    <3> QED
      BY <3>1, <3>2
  <2>3. e.value = AfterLines(e.key, Streamed)
    <3>1. Streamed = 0
      BY <1>1 DEF LoadBusiness, Streamed, Streaming
    <3> QED
      BY <3>1, NoLines DEF Entry
  <2>4. e \in Entries
    BY <2>2, NoLines DEF Entry, Entries
  <2> HIDE DEF e
  <2> QED
    BY <2>1, <2>3, <2>4
<1>2. CASE SendReview
  <2> DEFINE e == Entry(reviews[pos].business, Sent(reviews[pos].business))
  <2>1. PICK result \in Results : Put(leader, e, result) /\ Confirms(e, result)
    BY <1>2 DEF SendReview
  <2>2. reviews[pos].business \in Business
    <3>1. reviews \in Seq(Reviews) /\ pos \in Nat /\ pos >= 1 /\ pos <= Len(reviews)
      BY <1>2 DEF SendReview, DriverAccount, SampleInv, PlaceInv, Streaming
    <3>2. reviews[pos] \in Reviews
      BY <3>1
    <3> QED
      BY <3>2 DEF Reviews
  <2>3. e.value = AfterLines(e.key, Streamed) /\ e \in Entries
    BY <2>2 DEF Entry, Entries, Sent, DriverAccount, AccountInv, AccountTypeOK
  <2> HIDE DEF e
  <2> QED
    BY <2>1, <2>3
<1> QED
  BY <1>1, <1>2

LEMMA SendLogs ==
  ASSUME DriverAccount, LogInv, LoadBusiness \/ SendReview
  PROVE  LogInv'
<1>1. /\ UNCHANGED <<reviews, leader, overtaken>>
      /\ \/ pc = "load" /\ pc' = "load"
         \/ pos' = pos /\ pc = "send" /\ pc' \in {"next", "return", "send"}
  BY DEF LoadBusiness, SendReview
<1>2. Streamed' = Streamed
  BY <1>1 DEF Streamed, Streaming
<1>3. PICK e \in Entries, result \in Results :
        /\ Put(leader, e, result) /\ Confirms(e, result)
        /\ e.value = AfterLines(e.key, Streamed)
  BY SentEntry
<1> QED
  BY <1>1, <1>2, <1>3, PutLogs

\* Everything else the driver does leaves the nodes alone.
LEMMA DriverLogs ==
  ASSUME DriverAccount, DriverAccount', LogInv, answers \in Seq(Answers), DriverStep,
         ~LoadBusiness, ~SendReview
  PROVE  LogInv'
<1>1. UNCHANGED <<nodeVars, late, confirmed, overtaken>>
  BY DEF DriverStep, Sampling, Asks, CountNodes, FindsLeader, Greets, FindsNone,
         Converges, ChooseNodes, Verdict, FetchKey, Concludes, BuildOracle,
         LoadEnds, NextReview, SkipReview
<1>2. leader' \in Node
  <2>1. CASE FindsLeader
    <3>1. leader' = answers[Len(answers)].node /\ answers # << >>
      BY <2>1 DEF FindsLeader, LeaderFound
    <3>2. answers[Len(answers)] \in Answers
      BY <3>1
    <3> QED
      BY <3>1, <3>2 DEF Answers
  <2>2. CASE leader' = leader
    BY <2>2 DEF LogInv, LogTypeOK
  <2>3. FindsLeader \/ leader' = leader
    BY DEF DriverStep, Sampling, Asks, CountNodes, FindsLeader, Greets, FindsNone,
           Converges, ChooseNodes, Verdict, FetchKey, Concludes, BuildOracle,
           LoadEnds, NextReview, SkipReview
  <2> QED
    BY <2>1, <2>2, <2>3
<1>3. LogTypeOK'
  BY <1>1, <1>2 DEF LogInv, LogTypeOK
<1>4. Streamed \in Nat /\ Streamed' \in Nat
  BY DEF DriverAccount, PlaceInv, Streamed
<1>5. (reviews' = reviews \/ Streamed = 0) /\ Streamed <= Streamed'
  <2>1. CASE Sampling
    <3>1. pc = "count"
      BY <2>1 DEF Sampling, SampleStep, DrawBusiness, WriteSample, DriverAccount,
                  PlaceInv
    <3> QED
      BY <1>4, <3>1 DEF Streamed, Streaming
  <2>2. CASE ~Sampling
    <3>1. reviews' = reviews /\ sampled /\ sampled' = sampled
      BY <2>2 DEF DriverStep, Asks, CountNodes, FindsLeader, Greets, FindsNone,
                  Converges, ChooseNodes, Verdict, FetchKey, Concludes, BuildOracle,
                  LoadEnds, NextReview, SkipReview
    <3>2. CASE pc \notin Streaming
      BY <1>4, <3>1, <3>2 DEF Streamed
    <3>3. CASE pc \in Streaming
      <4>1. pc' \in Streaming
        BY <2>2, <3>3
           DEF DriverStep, Asks, CountNodes, FindsLeader, Greets, FindsNone,
               Converges, ChooseNodes, Verdict, FetchKey, Concludes, BuildOracle,
               LoadEnds, NextReview, SkipReview, Streaming
      <4>2. pos' = pos \/ pos' = pos + 1
        BY <2>2, <3>3
           DEF DriverStep, Asks, CountNodes, FindsLeader, Greets, FindsNone,
               Converges, ChooseNodes, Verdict, FetchKey, Concludes, BuildOracle,
               LoadEnds, NextReview, SkipReview, Streaming
      <4>3. pos \in Nat
        BY DEF DriverAccount, PlaceInv
      <4> QED
        BY <3>1, <3>3, <4>1, <4>2, <4>3 DEF Streamed
    <3> QED
      BY <3>2, <3>3
  <2> QED
    BY <2>1, <2>2
<1>6. \A c \in late' : Current(c.entry)
  BY <1>1 DEF LogInv, ValuesAreCurrent
<1>7. log' = log /\ led \subseteq led' /\ leads' \subseteq led'
  BY <1>1 DEF LogInv, LeadersWrite
<1> QED
  BY <1>1, <1>3, <1>4, <1>5, <1>6, <1>7, QuietLogs

LEMMA LogInvStep ==
  ASSUME DriverAccount, DriverAccount', LogInv, answers \in Seq(Answers),
         [DriverNext]_driverVars
  PROVE  LogInv'
<1>1. CASE UNCHANGED driverVars
  <2>1. /\ UNCHANGED <<reviews, pc, pos, log, led, leads, up, term, late, confirmed,
                       overtaken, leader>>
    BY <1>1 DEF driverVars
  <2>2. LogTypeOK' /\ Streamed' = Streamed /\ Streamed \in Nat
    BY <2>1 DEF LogInv, LogTypeOK, Streamed, DriverAccount, PlaceInv
  <2>3. led \subseteq led' /\ leads' \subseteq led' /\ \A c \in late' : Current(c.entry)
    BY <2>1 DEF LogInv, LeadersWrite, ValuesAreCurrent
  <2> QED
    BY <2>1, <2>2, <2>3, QuietLogs
<1> QED
  BY <1>1, EnvLogs, SendLogs, DriverLogs DEF DriverNext

\* Logs only grow.
LEMMA LogsGrow ==
  ASSUME DriverAccount, LogInv, [DriverNext]_driverVars
  PROVE  \A n \in Node : /\ Len(log[n]) \in Nat /\ Len(log[n]) <= Len(log'[n])
                         /\ \A i \in DOMAIN log[n] :
                              i \in DOMAIN log'[n] /\ log'[n][i] = log[n][i]
<1>1. LogTypeOK /\ \A n \in Node : Len(log[n]) \in Nat
  BY DEF LogInv, LogTypeOK
<1>2. ASSUME NEW n \in Node, NEW e \in Entries, NEW S \in SUBSET Acceptors(n),
             Append1(n, e, S), NEW m \in Node
      PROVE  /\ Len(log[m]) <= Len(log'[m])
             /\ \A i \in DOMAIN log[m] : i \in DOMAIN log'[m] /\ log'[m][i] = log[m][i]
  <2>1. S \in SUBSET Node
    BY <1>1 DEF Acceptors, LogTypeOK
  <2>2. log' = [p \in Node |-> IF p \in S \cup {n} THEN Append(log[p], e) ELSE log[p]]
    BY <1>2 DEF Append1
  <2>3. /\ \A p \in Node \ (S \cup {n}) : log'[p] = log[p]
        /\ \A p \in S \cup {n} :
             /\ Len(log'[p]) = Len(log[p]) + 1
             /\ DOMAIN log'[p] = 1 .. Len(log[p]) + 1
             /\ \A i \in 1 .. Len(log[p]) : log'[p][i] = log[p][i]
        /\ \A p \in Node : DOMAIN log[p] = 1 .. Len(log[p]) /\ Len(log[p]) \in Nat
    BY <1>1, <1>2, <2>1, <2>2, AppendedLog
  <2>4. CASE m \in S \cup {n}
    BY <2>3, <2>4
  <2>5. CASE m \notin S \cup {n}
    BY <2>3, <2>5
  <2> QED
    BY <2>4, <2>5
<1>3. CASE LoadBusiness \/ SendReview
  <2>1. PICK e \in Entries, result \in Results : Put(leader, e, result)
    BY <1>3, SentEntry
  <2>2. CASE Serves(leader, e, result)
    BY <1>1, <1>2, <2>2 DEF Serves, LogTypeOK
  <2>3. CASE log' = log
    BY <1>1, <2>3
  <2> QED
    BY <2>1, <2>2, <2>3 DEF Put, Refuses, Breaks, Hangs
<1>4. CASE EnvStep
  <2>1. ASSUME NEW c \in late, LatePut(c)
        PROVE  \A m \in Node :
                 /\ Len(log[m]) <= Len(log'[m])
                 /\ \A i \in DOMAIN log[m] : i \in DOMAIN log'[m] /\ log'[m][i] = log[m][i]
    <3>1. c.to \in Node /\ c.entry \in Entries
      BY <1>1, <2>1 DEF LogTypeOK
    <3>2. PICK S \in SUBSET Acceptors(c.to) : Append1(c.to, c.entry, S)
      BY <2>1 DEF LatePut
    <3> QED
      BY <1>2, <3>1, <3>2
  <2>2. ASSUME NEW n \in Node, NEW p \in Node, LateEntry(n, p), NEW m \in Node
        PROVE  /\ Len(log[m]) <= Len(log'[m])
               /\ \A i \in DOMAIN log[m] : i \in DOMAIN log'[m] /\ log'[m][i] = log[m][i]
    <3>1. /\ \A q \in Node \ {p} : log'[q] = log[q]
          /\ Len(log'[p]) = Len(log[p]) + 1
          /\ DOMAIN log'[p] = 1 .. Len(log[p]) + 1
          /\ \A i \in DOMAIN log[p] : log'[p][i] = log[p][i]
          /\ \A q \in Node : DOMAIN log[q] = 1 .. Len(log[q]) /\ Len(log[q]) \in Nat
      BY <2>2, LateEntryFacts
    <3>2. CASE m = p
      BY <3>1, <3>2
    <3>3. CASE m # p
      BY <3>1, <3>3
    <3> QED
      BY <3>2, <3>3
  <2>3. CASE log' = log
    BY <1>1, <2>3
  <2> QED
    BY <1>1, <1>4, <2>1, <2>2, <2>3 DEF EnvStep, Elect, StepsDown, Returns, Leaves
<1>5. CASE DriverStep /\ ~LoadBusiness /\ ~SendReview
  <2>1. log' = log
    BY <1>5
       DEF DriverStep, Sampling, Asks, CountNodes, FindsLeader, Greets, FindsNone,
           Converges, ChooseNodes, Verdict, FetchKey, Concludes, BuildOracle,
           LoadEnds, NextReview, SkipReview
  <2> QED
    BY <1>1, <2>1
<1>6. CASE UNCHANGED driverVars
  <2>1. log' = log
    BY <1>6 DEF driverVars
  <2> QED
    BY <1>1, <2>1
<1> QED
  BY <1>1, <1>3, <1>4, <1>5, <1>6 DEF DriverNext

-----------------------------------------------------------------------------
(* The polls, and what verify has to read.                                 *)
PollInv ==
  /\ answers \in Seq(Answers) /\ Len(answers) <= Len(NodeOrder)
  /\ \A i \in DOMAIN answers : answers[i].lsn <= Len(log[answers[i].node])
  /\ converged \in [lsn : Nat, nodes : SUBSET Node]
  /\ \A n \in converged.nodes : converged.lsn <= Len(log[n])
  /\ faults \in 0 .. MaxFaults
  /\ tries \in 0 .. (IF MaxPolls > MaxRetries THEN MaxPolls ELSE MaxRetries + 1)
  /\ pc \in {"send", "return"} => tries <= MaxRetries + 1
  /\ unread \subseteq Node \X Business
  /\ passed \in BOOLEAN
  /\ judged \subseteq Node

LEMMA PollInvInit == DriverInit => PollInv
<1> SUFFICES ASSUME DriverInit PROVE PollInv
  OBVIOUS
<1>1. /\ answers = << >> /\ converged = [lsn |-> 0, nodes |-> {}] /\ faults = 0
      /\ tries = 0 /\ pc = "count" /\ unread = {} /\ passed = FALSE /\ judged = {}
  BY DEF DriverInit
<1>2. /\ << >> \in Seq(Answers) /\ Len(<< >>) = 0 /\ DOMAIN << >> = {}
      /\ MaxPolls \in Nat /\ MaxRetries \in Nat /\ MaxFaults \in Nat
      /\ Len(NodeOrder) \in Nat
  BY EmptySeq, DriverAssumption
<1>3. answers \in Seq(Answers) /\ Len(answers) <= Len(NodeOrder)
      /\ \A i \in DOMAIN answers : answers[i].lsn <= Len(log[answers[i].node])
  BY <1>1, <1>2
<1>4. /\ converged \in [lsn : Nat, nodes : SUBSET Node]
      /\ \A n \in converged.nodes : converged.lsn <= Len(log[n])
  BY <1>1
<1>5. /\ faults \in 0 .. MaxFaults
      /\ tries \in 0 .. (IF MaxPolls > MaxRetries THEN MaxPolls ELSE MaxRetries + 1)
  BY <1>1, <1>2
<1> QED
  BY <1>1, <1>3, <1>4, <1>5 DEF PollInv

\* The answers of the current poll.
LEMMA AnswersStep ==
  ASSUME DriverAccount, LogInv, LogInv', PollInv, [DriverNext]_driverVars
  PROVE  /\ answers' \in Seq(Answers) /\ Len(answers') <= Len(NodeOrder)
         /\ \A i \in DOMAIN answers' : answers'[i].lsn <= Len(log'[answers'[i].node])
<1>1. \A n \in Node : /\ Len(log[n]) \in Nat /\ Len(log'[n]) \in Nat
                      /\ Len(log[n]) <= Len(log'[n])
  <2>1. \A n \in Node : Len(log[n]) \in Nat /\ Len(log[n]) <= Len(log'[n])
    BY LogsGrow
  <2>2. \A n \in Node : Len(log'[n]) \in Nat
    BY DEF LogInv, LogTypeOK
  <2> QED
    BY <2>1, <2>2
<1>2. /\ answers \in Seq(Answers) /\ Len(answers) \in Nat /\ Len(NodeOrder) \in Nat
      /\ \A i \in DOMAIN answers : answers[i] \in Answers
  BY DriverAssumption DEF PollInv
<1>3. CASE answers' = answers
  <2>1. ASSUME NEW i \in DOMAIN answers PROVE answers[i].lsn <= Len(log'[answers[i].node])
    <3>1. answers[i].node \in Node /\ answers[i].lsn \in Nat
      BY <1>2 DEF Answers
    <3>2. answers[i].lsn <= Len(log[answers[i].node])
      BY DEF PollInv
    <3> QED
      BY <1>1, <3>1, <3>2
  <2> QED
    BY <1>3, <2>1 DEF PollInv
<1>4. CASE answers' = << >>
  <2>1. << >> \in Seq(Answers) /\ Len(<< >>) = 0 /\ DOMAIN << >> = {}
    BY EmptySeq
  <2> QED
    BY <1>2, <1>4, <2>1
<1>5. CASE Asks
  <2> DEFINE n == NodeOrder[Len(answers) + 1]
  <2>1. n \in Node /\ Len(answers) + 1 <= Len(NodeOrder)
    <3>1. Len(answers) # Len(NodeOrder) /\ Len(answers) <= Len(NodeOrder)
      BY <1>5 DEF Asks, AllAnswered, PollInv
    <3>2. Len(answers) + 1 \in 1 .. Len(NodeOrder)
      BY <1>2, <3>1
    <3> QED
      BY <1>2, <3>2, DriverAssumption
  <2>2. log' = log
    BY <1>5 DEF Asks
  <2>3. PICK a : /\ answers' = Append(answers, a)
                 /\ \/ a = [node |-> n, live |-> TRUE, leads |-> n \in leads, lsn |-> Len(log[n])]
                    \/ a = [node |-> n, live |-> FALSE, leads |-> FALSE, lsn |-> 0]
    BY <1>5 DEF Asks
  <2>4. a \in Answers /\ a.node = n /\ a.lsn <= Len(log[n])
    <3>1. n \in Node /\ Len(log[n]) \in Nat
      BY <1>1, <2>1
    <3> HIDE DEF n
    <3>2. /\ DOMAIN a = {"node", "live", "leads", "lsn"} /\ a.node = n
          /\ a.lsn \in Nat /\ a.lsn <= Len(log[n])
      BY <2>3, <3>1
    <3>3. a.live \in BOOLEAN /\ a.leads \in BOOLEAN
      <4>1. (n \in leads) \in BOOLEAN
        OBVIOUS
      <4>2. CASE a = [node |-> n, live |-> TRUE, leads |-> n \in leads, lsn |-> Len(log[n])]
        <5>1. a.live = TRUE
          BY <4>2
        <5>2. a.leads = (n \in leads)
          BY <4>2
        <5> QED
          BY <4>1, <5>1, <5>2
      <4>3. CASE a = [node |-> n, live |-> FALSE, leads |-> FALSE, lsn |-> 0]
        BY <4>3
      <4> QED
        BY <2>3, <4>2, <4>3
    <3>4. a = [node |-> a.node, live |-> a.live, leads |-> a.leads, lsn |-> a.lsn]
      BY <2>3, Zenon
    <3> QED
      BY <3>1, <3>2, <3>3, <3>4 DEF Answers
  <2> HIDE DEF n
  <2>5. /\ answers' \in Seq(Answers) /\ Len(answers') = Len(answers) + 1
        /\ answers'[Len(answers) + 1] = a
        /\ \A i \in 1 .. Len(answers) : answers'[i] = answers[i]
    BY <1>2, <2>3, <2>4, AppendProperties
  <2>6. DOMAIN answers' = 1 .. Len(answers) + 1 /\ DOMAIN answers = 1 .. Len(answers)
    BY <1>2, <2>5
  <2>7. ASSUME NEW i \in DOMAIN answers' PROVE answers'[i].lsn <= Len(log'[answers'[i].node])
    <3>1. CASE i = Len(answers) + 1
      BY <2>2, <2>4, <2>5, <3>1
    <3>2. CASE i \in DOMAIN answers
      BY <2>2, <2>5, <2>6, <3>2 DEF PollInv
    <3> QED
      BY <1>2, <2>6, <2>7, <3>1, <3>2
  <2> QED
    BY <2>1, <2>5, <2>7
<1>6. Asks \/ answers' = answers \/ answers' = << >>
  BY DEF DriverNext, EnvStep, DriverStep, driverVars, Sampling, Elect, StepsDown,
         Returns, Leaves, LateEntry, LatePut, CountNodes, FindsLeader, Greets,
         FindsNone, Converges, ChooseNodes, Verdict, FetchKey, Concludes,
         BuildOracle, LoadBusiness, LoadEnds, NextReview, SendReview, SkipReview
<1> QED
  BY <1>3, <1>4, <1>5, <1>6

\* What wait_convergence printed is not undone.
LEMMA ConvergedStep ==
  ASSUME DriverAccount, LogInv, LogInv', PollInv, [DriverNext]_driverVars
  PROVE  /\ converged' \in [lsn : Nat, nodes : SUBSET Node]
         /\ \A n \in converged'.nodes : converged'.lsn <= Len(log'[n])
<1>1. \A n \in Node : /\ Len(log[n]) \in Nat /\ Len(log'[n]) \in Nat
                      /\ Len(log[n]) <= Len(log'[n])
  <2>1. \A n \in Node : Len(log[n]) \in Nat /\ Len(log[n]) <= Len(log'[n])
    BY LogsGrow
  <2>2. \A n \in Node : Len(log'[n]) \in Nat
    BY DEF LogInv, LogTypeOK
  <2> QED
    BY <2>1, <2>2
<1>2. CASE converged' = converged
  <2>1. converged \in [lsn : Nat, nodes : SUBSET Node]
    BY DEF PollInv
  <2>2. ASSUME NEW n \in converged.nodes PROVE converged.lsn <= Len(log'[n])
    <3>1. n \in Node /\ converged.lsn \in Nat
      BY <2>1
    <3>2. converged.lsn <= Len(log[n])
      BY DEF PollInv
    <3> QED
      BY <1>1, <3>1, <3>2
  <2> QED
    BY <1>2, <2>1, <2>2
<1>3. CASE Converges /\ SameLsn
  <2>1. PICK lsn \in Lsns :
          converged' = [lsn |-> lsn, nodes |-> {answers[i].node : i \in Answered}]
    BY <1>3 DEF Converges
  <2>2. \A i \in Answered : /\ answers[i].node \in Node /\ answers[i].lsn \in Nat
                           /\ answers[i].lsn <= Len(log[answers[i].node])
    <3>1. \A i \in DOMAIN answers : answers[i] \in Answers
      BY DEF PollInv
    <3> QED
      BY <3>1 DEF PollInv, Answered, Answers
  <2>3. \A i \in Answered : answers[i].lsn = lsn
    <3>1. PICK x : Lsns = {x}
      <4> DEFINE f == [i \in Answered |-> answers[i].lsn]
      <4>1. answers \in Seq(Answers) /\ Len(answers) \in Nat
        BY DEF PollInv
      <4>2. IsFiniteSet(1 .. Len(answers))
        BY <4>1, FS_Interval
      <4>3. Answered \in SUBSET (1 .. Len(answers))
        BY <4>1 DEF Answered
      <4>4. IsFiniteSet(Answered)
        BY <4>2, <4>3, FS_Subset
      <4>5. f \in Surjection(Answered, Lsns)
        BY DEF Surjection, Lsns
      <4>6. IsFiniteSet(Lsns)
        BY <4>4, <4>5, FS_Surjection
      <4>7. Cardinality(Lsns) = 1
        BY <1>3 DEF SameLsn
      <4> QED
        BY <4>6, <4>7, FS_Singleton
    <3> QED
      BY <2>1, <3>1 DEF Lsns
  <2>4. log' = log
    BY <1>3 DEF Converges, Concludes
  <2>5. lsn \in Nat
    BY <2>1, <2>2 DEF Lsns
  <2> QED
    BY <2>1, <2>2, <2>3, <2>4, <2>5
<1>4. (Converges /\ SameLsn) \/ converged' = converged
  BY DEF DriverNext, EnvStep, DriverStep, driverVars, Sampling, Elect, StepsDown,
         Returns, Leaves, LateEntry, LatePut, CountNodes, FindsLeader, Greets,
         FindsNone, Converges, ChooseNodes, Verdict, FetchKey, Concludes, Asks,
         BuildOracle, LoadBusiness, LoadEnds, NextReview, SendReview, SkipReview
<1> QED
  BY <1>2, <1>3, <1>4

\* Failures and tries are counted, within their bounds.
LEMMA CountersStep ==
  ASSUME PollInv, [DriverNext]_driverVars
  PROVE  /\ faults' \in 0 .. MaxFaults
         /\ tries' \in 0 .. (IF MaxPolls > MaxRetries THEN MaxPolls ELSE MaxRetries + 1)
         /\ pc' \in {"send", "return"} => tries' <= MaxRetries + 1
<1>1. faults' = faults \/ Fault
  BY DEF DriverNext, EnvStep, DriverStep, driverVars, Sampling, Elect, StepsDown,
         Returns, Leaves, LateEntry, LatePut, CountNodes, FindsLeader, Greets,
         FindsNone, Converges, ChooseNodes, Verdict, FetchKey, Concludes, Asks,
         BuildOracle, LoadBusiness, LoadEnds, NextReview, SendReview, SkipReview,
         NoFault, Put, Serves, Refuses, Breaks, Hangs
<1>2. faults' \in 0 .. MaxFaults
  BY <1>1, DriverAssumption DEF Fault, PollInv
<1>3. MaxPolls \in Nat /\ MaxRetries \in Nat
      /\ tries \in 0 .. (IF MaxPolls > MaxRetries THEN MaxPolls ELSE MaxRetries + 1)
  BY DriverAssumption DEF PollInv
<1>4. CASE tries' = 0
  BY <1>2, <1>3, <1>4
<1>5. CASE SendReview
  <2>1. tries <= MaxRetries /\ (tries' = tries \/ tries' = tries + 1)
    BY <1>5 DEF SendReview, MayRetry, Counts
  <2> QED
    BY <1>2, <1>3, <2>1
<1>6. CASE FindsNone \/ Converges
  <2>1. CASE FindsNone
    <3>1. \/ tries' = tries /\ pc = "return"
          \/ /\ tries' = (IF tries < MaxPolls THEN tries + 1 ELSE tries)
             /\ pc' \notin {"send", "return"}
      BY <2>1 DEF FindsNone, Concludes
    <3> QED
      BY <1>2, <1>3, <3>1 DEF PollInv
  <2>2. CASE Converges
    <3>1. /\ tries' = tries \/ tries' = (IF tries < MaxPolls THEN tries + 1 ELSE tries)
          /\ pc' \notin {"send", "return"}
      BY <2>2 DEF Converges, Concludes
    <3> QED
      BY <1>2, <1>3, <3>1
  <2> QED
    BY <1>6, <2>1, <2>2
<1>7. CASE tries' = tries /\ (pc' \in {"send", "return"} => pc \in {"send", "return"})
  BY <1>2, <1>7 DEF PollInv
<1>8. \/ tries' = 0 \/ SendReview \/ FindsNone \/ Converges
      \/ tries' = tries /\ (pc' \in {"send", "return"} => pc \in {"send", "return"})
  <2>1. CASE EnvStep \/ UNCHANGED driverVars
    BY <2>1 DEF EnvStep, driverVars, Elect, StepsDown, Returns, Leaves, LateEntry, LatePut
  <2>2. CASE DriverStep
    BY <2>2
       DEF DriverStep, Sampling, CountNodes, FindsLeader, Greets, ChooseNodes, Verdict,
           FetchKey, Concludes, Asks, BuildOracle, LoadBusiness, LoadEnds, NextReview,
           SkipReview
  <2> QED
    BY <2>1, <2>2 DEF DriverNext
<1> QED
  BY <1>4, <1>5, <1>6, <1>7, <1>8

\* verify reads what it chose to.
LEMMA VerifyStep ==
  ASSUME DriverAccount, PollInv, [DriverNext]_driverVars
  PROVE  unread' \subseteq Node \X Business /\ passed' \in BOOLEAN /\ judged' \subseteq Node
<1>1. CASE ChooseNodes
  <2>1. \A i \in DOMAIN answers : answers[i].node \in Node
    <3>1. \A i \in DOMAIN answers : answers[i] \in Answers
      BY DEF PollInv
    <3> QED
      BY <3>1 DEF Answers
  <2>2. judged' \subseteq Node
    BY <1>1, <2>1 DEF ChooseNodes, Answered
  <2>3. Ids \subseteq Business
    BY DEF DriverAccount, SampleInv, Ids
  <2> QED
    BY <1>1, <2>2, <2>3 DEF ChooseNodes
<1>2. CASE \E n \in Node, k \in Business : FetchKey(n, k)
  BY <1>2 DEF FetchKey, PollInv
<1>3. CASE UNCHANGED verdictVars
  BY <1>3 DEF PollInv
<1>4. ChooseNodes \/ UNCHANGED verdictVars \/ \E n \in Node, k \in Business : FetchKey(n, k)
  <2>1. CASE EnvStep \/ UNCHANGED driverVars
    BY <2>1 DEF EnvStep, driverVars, Elect, StepsDown, Returns, Leaves, LateEntry, LatePut
  <2>2. CASE DriverStep
    BY <2>2
       DEF DriverStep, Sampling, CountNodes, FindsLeader, Greets, FindsNone, Converges,
           Verdict, Concludes, Asks, BuildOracle, LoadBusiness, LoadEnds, NextReview,
           SendReview, SkipReview
  <2> QED
    BY <2>1, <2>2 DEF DriverNext
<1> QED
  BY <1>1, <1>2, <1>3, <1>4

LEMMA PollInvStep ==
  ASSUME DriverAccount, LogInv, LogInv', PollInv, [DriverNext]_driverVars
  PROVE  PollInv'
BY AnswersStep, ConvergedStep, CountersStep, VerifyStep DEF PollInv

-----------------------------------------------------------------------------
(* The invariant of the driver and of the nodes it writes to.              *)
DriverInv == DriverAccount /\ LogInv /\ PollInv

LEMMA DriverInvInit == DriverInit => DriverInv
BY AccountInit, LogInvInit, PollInvInit DEF DriverInv

LEMMA DriverInvStep == DriverInv /\ [DriverNext]_driverVars => DriverInv'
<1> SUFFICES ASSUME DriverInv, [DriverNext]_driverVars PROVE DriverInv'
  OBVIOUS
<1>1. DriverAccount'
  BY AccountStep DEF DriverInv
<1>2. LogInv'
  BY <1>1, LogInvStep DEF DriverInv, PollInv
<1>3. PollInv'
  BY <1>2, PollInvStep DEF DriverInv
<1> QED
  BY <1>1, <1>2, <1>3 DEF DriverInv

LEMMA DriverInvHolds == DriverSpec => []DriverInv
BY DriverInvInit, DriverInvStep, PTL DEF DriverSpec

(* The variables keep their types, and no PUT is sent more often than      *)
(* MAX_RETRIES allows (run_demo.py:226).                                   *)
THEOREM DriverTypeCorrect == DriverSpec => []DriverTypeOK
<1>1. DriverInv => DriverTypeOK
  <2> SUFFICES ASSUME DriverInv PROVE DriverTypeOK
    OBVIOUS
  <2>1. pc \in {"count", "seek", "greet", "return", "oracle", "load", "next",
                "send", "converge", "health", "fetch", "done", "aborted"}
    BY DEF DriverInv, DriverAccount, PlaceInv, Streaming, Starting
  <2>2. pos \in Nat /\ state \in [Business -> Values] /\ oracle \in [Business -> Values]
    BY DEF DriverInv, DriverAccount, PlaceInv, AccountTypeOK
  <2>3. LogTypeOK
    BY DEF DriverInv, LogInv
  <2>4. PollInv
    BY DEF DriverInv
  <2> QED
    BY <2>1, <2>2, <2>3, <2>4 DEF DriverTypeOK, LogTypeOK, PollInv
<1> QED
  BY <1>1, DriverInvHolds, PTL

(* Whatever is lost, sent again or late, every value that reaches a WAL is *)
(* what some first lines of the stream give its business, each review      *)
(* folded in once: stream_reviews computes the value before its retry loop *)
(* and sends it whole (run_demo.py:229-240).                               *)
THEOREM RetriesFoldOnce == DriverSpec => []StoredValuesArePrefixes
<1>1. DriverInv => StoredValuesArePrefixes
  <2> SUFFICES ASSUME DriverInv PROVE StoredValuesArePrefixes
    OBVIOUS
  <2>1. Streamed \in Nat /\ Len(reviews) \in Nat /\ Streamed <= Len(reviews)
    BY DEF DriverInv, DriverAccount, PlaceInv, SampleInv, Streamed
  <2>2. ASSUME NEW n \in Node, NEW i \in DOMAIN log[n]
        PROVE  \E k \in 0 .. Len(reviews) : log[n][i].value = AfterLines(log[n][i].key, k)
    <3>1. PICK k \in 0 .. Streamed : log[n][i].value = AfterLines(log[n][i].key, k)
      BY DEF DriverInv, LogInv, ValuesAreCurrent, Current
    <3>2. k \in 0 .. Len(reviews)
      BY <2>1
    <3> QED
      BY <3>1, <3>2
  <2> QED
    BY <2>2 DEF StoredValuesArePrefixes
<1> QED
  BY <1>1, DriverInvHolds, PTL

LEMMA OneLeaderLed ==
  ASSUME LogTypeOK, OneLeader
  PROVE  OneLed
<1>1. IsFiniteSet(led)
  BY DriverAssumption, FS_Subset DEF LogTypeOK
<1>2. Cardinality(led) \in Nat
  BY <1>1, FS_CardinalityType
<1>3. Cardinality(led) = 0 \/ Cardinality(led) = 1
  BY <1>2 DEF OneLeader
<1>4. led = {} \/ \E x : led = {x}
  BY <1>1, <1>3, FS_EmptySet, FS_Singleton
<1> QED
  BY <1>4 DEF OneLed

(* As long as no second node has led, nodes that reported the same LSN to  *)
(* wait_convergence do have the same entries up to it (run_demo.py:295).   *)
THEOREM SameLsnSameEntries == DriverSpec => []ConvergedNodesAgree
<1>1. DriverInv => ConvergedNodesAgree
  <2> SUFFICES ASSUME DriverInv, OneLeader,
                      NEW n \in converged.nodes, NEW m \in converged.nodes
               PROVE  /\ Len(log[n]) >= converged.lsn
                      /\ SubSeq(log[n], 1, converged.lsn) = SubSeq(log[m], 1, converged.lsn)
    BY DEF ConvergedNodesAgree
  <2> DEFINE k == converged.lsn
  <2>1. LogTypeOK /\ PollInv /\ LogsAgree /\ LeadersWrite
    BY DEF DriverInv, LogInv
  <2>2. OneLed
    BY <2>1, OneLeaderLed
  <2>3. /\ k \in Nat /\ n \in Node /\ m \in Node
        /\ k <= Len(log[n]) /\ k <= Len(log[m])
    BY <2>1 DEF PollInv
  <2>4. /\ log[n] \in Seq(Entries) /\ log[m] \in Seq(Entries)
        /\ Len(log[n]) \in Nat /\ Len(log[m]) \in Nat
    BY <2>1, <2>3 DEF LogTypeOK
  <2>5. ASSUME NEW i \in 1 .. k PROVE log[n][i] = log[m][i] /\ log[n][i] \in Entries
                                     /\ log[m][i] \in Entries
    <3>1. i \in DOMAIN log[n] /\ i \in DOMAIN log[m]
      BY <2>3, <2>4
    <3>2. led # {}
      <4>1. Len(log[n]) # 0
        BY <2>3, <2>4, <3>1
      <4> QED
        BY <2>1, <2>3, <4>1 DEF LeadersWrite
    <3>3. PICK l \in led : TRUE
      BY <3>2
    <3>4. log[n][i] = log[l][i] /\ log[m][i] = log[l][i]
      BY <2>1, <2>2, <2>3, <3>1, <3>3 DEF LogsAgree
    <3> QED
      BY <2>4, <3>1, <3>4
  <2>6. SubSeq(log[n], 1, k) = SubSeq(log[m], 1, k)
    <3> HIDE DEF k
    <3>1. /\ SubSeq(log[n], 1, k) \in Seq(Entries)
          /\ Len(SubSeq(log[n], 1, k)) = IF 1 <= k THEN k - 1 + 1 ELSE 0
          /\ \A i \in 1 .. k - 1 + 1 : SubSeq(log[n], 1, k)[i] = log[n][1 + i - 1]
      BY <2>3, <2>5, SubSeqProperties
    <3>2. /\ SubSeq(log[m], 1, k) \in Seq(Entries)
          /\ Len(SubSeq(log[m], 1, k)) = IF 1 <= k THEN k - 1 + 1 ELSE 0
          /\ \A i \in 1 .. k - 1 + 1 : SubSeq(log[m], 1, k)[i] = log[m][1 + i - 1]
      BY <2>3, <2>5, SubSeqProperties
    <3>3. Len(SubSeq(log[n], 1, k)) = k /\ Len(SubSeq(log[m], 1, k)) = k
      BY <2>3, <3>1, <3>2
    <3>4. \A i \in 1 .. k : /\ SubSeq(log[n], 1, k)[i] = log[n][i]
                            /\ SubSeq(log[m], 1, k)[i] = log[m][i]
      BY <2>3, <3>1, <3>2
    <3> QED
      BY <2>5, <3>1, <3>2, <3>3, <3>4, SeqEqual
  <2> QED
    BY <2>3, <2>4, <2>6
<1> QED
  BY <1>1, DriverInvHolds, PTL

\* A bounded set of numbers has a highest one.
LEMMA HighestExists ==
  ASSUME NEW N \in Nat, NEW S \in SUBSET (0 .. N), S # {}
  PROVE  \E x \in S : \A y \in S : y <= x
<1> DEFINE T == {N - x : x \in S}
<1>1. \A x \in S : x \in Nat /\ x <= N /\ N - x \in Nat
  OBVIOUS
<1>2. T \subseteq Nat /\ T # {}
  BY <1>1
<1>3. PICK m \in T : \A y \in T : ~(<<y, m>> \in OpToRel(<, Nat))
  BY <1>2, NatLessThanWellFounded, WFMin
<1>4. \A y \in T : ~(y < m)
  BY <1>2, <1>3 DEF OpToRel
<1>5. PICK x \in S : m = N - x
  OBVIOUS
<1>6. ASSUME NEW y \in S PROVE y <= x
  <2>1. ~(N - y < N - x)
    BY <1>4, <1>5
  <2> QED
    BY <1>1, <2>1
<1> QED
  BY <1>6

\* AtMost orders values, and a value is not outdated by a smaller one.
LEMMA AtMostItself ==
  ASSUME NEW v \in Values
  PROVE  AtMost(v, v)
<1>1. \A r \in 1 .. MaxReviews : v[r] \in Nat
  BY DEF Values
<1>2. \A r \in 1 .. MaxReviews : v[r] <= v[r]
  BY <1>1
<1> QED
  BY <1>2 DEF AtMost

LEMMA NotOutdated ==
  ASSUME NEW v \in Values, NEW w \in Values, AtMost(v, w)
  PROVE  ~Outdated(w, v)
<1>1. ASSUME NEW r \in 1 .. MaxReviews PROVE ~(w[r] < v[r])
  <2>1. v[r] \in Nat /\ w[r] \in Nat /\ v[r] <= w[r]
    BY DEF Values, AtMost
  <2> QED
    BY <2>1
<1> QED
  BY <1>1 DEF Outdated

(* While no second node has led and no PUT came late, a confirmed value is *)
(* only replaced by one with more reviews: a retry never brings an old     *)
(* value back (run_demo.py:243-270).                                       *)
THEOREM RetriesKeepConfirmed == DriverSpec => []ConfirmedStays
<1>1. DriverInv => ConfirmedStays
  <2> SUFFICES ASSUME DriverInv, OneLeader, ~overtaken, NEW n \in led, NEW e \in confirmed
               PROVE  \E i \in DOMAIN log[n] :
                        /\ log[n][i].key = e.key /\ ~Outdated(log[n][i].value, e.value)
                        /\ Has(n, e.key, log[n][i].value)
    BY DEF ConfirmedStays
  <2>1. LogTypeOK /\ ValuesGrow /\ ConfirmedAreStored
    BY DEF DriverInv, LogInv
  <2>2. OneLed /\ n \in Node
    BY <2>1, OneLeaderLed DEF LogTypeOK
  <2>3. PICK j \in DOMAIN log[n] : log[n][j] = e
    BY <2>1, <2>2 DEF ConfirmedAreStored
  <2>4. /\ DOMAIN log[n] = 1 .. Len(log[n]) /\ Len(log[n]) \in Nat
        /\ \A i \in DOMAIN log[n] : log[n][i] \in Entries
    BY <2>1, <2>2 DEF LogTypeOK
  <2> DEFINE I == {i \in DOMAIN log[n] : log[n][i].key = e.key}
  <2>5. I \in SUBSET (0 .. Len(log[n])) /\ I # {}
    BY <2>3, <2>4
  <2>6. PICK i \in I : \A k \in I : k <= i
    <3> HIDE DEF I
    <3> QED
      BY <2>4, <2>5, HighestExists
  <2>7. i \in DOMAIN log[n] /\ log[n][i].key = e.key /\ i \in Nat /\ j \in Nat
    BY <2>4
  <2>8. AtMost(e.value, log[n][i].value)
    <3>1. CASE i = j
      <4>1. e.value \in Values
        BY <2>3, <2>4 DEF Entries
      <4> QED
        BY <2>3, <3>1, <4>1, AtMostItself
    <3>2. CASE i # j
      <4>1. j < i
        BY <2>3, <2>6, <2>7, <3>2
      <4> QED
        BY <2>1, <2>2, <2>3, <2>7, <4>1 DEF ValuesGrow
    <3> QED
      BY <3>1, <3>2
  <2>9. ~Outdated(log[n][i].value, e.value)
    <3>1. log[n][i].value \in Values /\ e.value \in Values
      BY <2>3, <2>4, <2>7 DEF Entries
    <3> QED
      BY <2>8, <3>1, NotOutdated
  <2>10. Has(n, e.key, log[n][i].value)
    <3>1. log[n][i] = Entry(e.key, log[n][i].value)
      BY <2>4, <2>7 DEF Entry, Entries
    <3>2. \A k \in i + 1 .. Len(log[n]) : log[n][k].key # e.key
      <4>1. SUFFICES ASSUME NEW k \in i + 1 .. Len(log[n]), log[n][k].key = e.key
                     PROVE  FALSE
        OBVIOUS
      <4>2. k \in DOMAIN log[n] /\ k > i
        BY <2>4, <2>7
      <4> QED
        BY <2>6, <2>7, <4>1, <4>2
    <3> QED
      BY <2>7, <3>1, <3>2 DEF Has
  <2> QED
    BY <2>7, <2>9, <2>10
<1> QED
  BY <1>1, DriverInvHolds, PTL

-----------------------------------------------------------------------------
(* What verify has found so far is still so.                               *)
VerdictInv ==
  /\ pc = "done" /\ passed => unread = {}
  /\ pc \in {"fetch", "done"} /\ passed /\ OneLed /\ ~overtaken =>
       \A n \in judged, k \in Ids : <<n, k>> \notin unread => Has(n, k, oracle[k])

\* One more entry leaves the value of a key, unless it brings another one.
LEMMA HasAppended ==
  ASSUME NEW p \in Node, NEW x, NEW k, NEW v, Has(p, k, v),
         DOMAIN log[p] = 1 .. Len(log[p]), Len(log[p]) \in Nat,
         Len(log'[p]) = Len(log[p]) + 1,
         DOMAIN log'[p] = 1 .. Len(log[p]) + 1,
         log'[p][Len(log[p]) + 1] = x,
         \A i \in DOMAIN log[p] : log'[p][i] = log[p][i],
         x.key = k => x = Entry(k, v)
  PROVE  \E i \in DOMAIN log'[p] :
           /\ log'[p][i] = Entry(k, v)
           /\ \A j \in i + 1 .. Len(log'[p]) : log'[p][j].key # k
<1>1. PICK i \in DOMAIN log[p] :
        log[p][i] = Entry(k, v) /\ \A j \in i + 1 .. Len(log[p]) : log[p][j].key # k
  BY DEF Has
<1>2. CASE x.key = k
  <2>1. Len(log[p]) + 1 \in DOMAIN log'[p]
    OBVIOUS
  <2>2. \A j \in Len(log[p]) + 1 + 1 .. Len(log'[p]) : log'[p][j].key # k
    OBVIOUS
  <2> QED
    BY <1>2, <2>1, <2>2
<1>3. CASE x.key # k
  <2>1. i \in DOMAIN log'[p] /\ log'[p][i] = Entry(k, v)
    BY <1>1
  <2>2. ASSUME NEW j \in i + 1 .. Len(log'[p]) PROVE log'[p][j].key # k
    <3>1. CASE j = Len(log[p]) + 1
      BY <1>3, <3>1
    <3>2. CASE j # Len(log[p]) + 1
      <4>1. j \in i + 1 .. Len(log[p]) /\ j \in DOMAIN log[p]
        BY <3>2, <2>2
      <4> QED
        BY <1>1, <4>1
    <3> QED
      BY <3>1, <3>2
  <2> QED
    BY <2>1, <2>2
<1> QED
  BY <1>2, <1>3

\* The value of the oracle is the highest; nothing current is above it.
LEMMA OracleIsHighest ==
  ASSUME DriverInv, pc \in {"fetch", "done"}, NEW e \in Entries, Current(e),
         AtMost(oracle[e.key], e.value)
  PROVE  e = Entry(e.key, oracle[e.key])
<1>1. Streamed = Len(reviews) /\ OracleLines = Len(reviews) /\ Len(reviews) \in Nat
  BY DEF DriverInv, DriverAccount, PlaceInv, SampleInv, Streamed, OracleLines, Streaming,
         Starting
<1>2. e.key \in Business /\ e = Entry(e.key, e.value)
  BY DEF Entries, Entry
<1>3. PICK k \in 0 .. Len(reviews) : e.value = AfterLines(e.key, k)
  BY <1>1 DEF Current
<1>4. oracle[e.key] = AfterLines(e.key, Len(reviews))
  BY <1>1, <1>2 DEF DriverInv, DriverAccount, AccountInv
<1>5. ASSUME NEW i \in 1 .. MaxReviews
      PROVE  (IF i <= k /\ reviews[i].business = e.key THEN 1 ELSE 0)
               = IF i <= Len(reviews) /\ reviews[i].business = e.key THEN 1 ELSE 0
  <2>1. oracle[e.key][i] <= e.value[i]
    BY DEF AtMost
  <2>2. /\ oracle[e.key][i] = IF i <= Len(reviews) /\ reviews[i].business = e.key THEN 1 ELSE 0
        /\ e.value[i] = IF i <= k /\ reviews[i].business = e.key THEN 1 ELSE 0
    BY <1>3, <1>4 DEF AfterLines
  <2>3. i \in Nat /\ k \in Nat /\ k <= Len(reviews)
    BY <1>1, SampleAssumption
  <2> QED
    BY <1>1, <2>1, <2>2, <2>3
<1>6. AfterLines(e.key, k) = AfterLines(e.key, Len(reviews))
  BY <1>5 DEF AfterLines
<1> QED
  BY <1>2, <1>3, <1>4, <1>6

LEMMA VerdictKept ==
  ASSUME VerdictInv, UNCHANGED <<pc, verdictVars, oracle, businesses, log, overtaken>>,
         OneLed' => OneLed
  PROVE  VerdictInv'
<1>1. pc' = "done" /\ passed' => unread' = {}
  BY DEF VerdictInv
<1>2. ASSUME pc' \in {"fetch", "done"}, passed', OneLed', ~overtaken',
             NEW n \in judged', NEW k \in Ids', <<n, k>> \notin unread'
      PROVE  Has(n, k, oracle[k])'
  <2>1. n \in judged /\ k \in Ids /\ <<n, k>> \notin unread
    BY <1>2 DEF Ids
  <2>2. Has(n, k, oracle[k])
    BY <1>2, <2>1 DEF VerdictInv
  <2> QED
    BY <2>2 DEF Has
<1> QED
  BY <1>1, <1>2 DEF VerdictInv

\* A late entry brings no other value, for the leader's log has it as well.
LEMMA VerdictLateEntry ==
  ASSUME DriverInv, VerdictInv, NEW n \in Node, NEW p \in Node, LateEntry(n, p)
  PROVE  VerdictInv'
<1>1. /\ n \in led /\ p # n /\ Len(log[p]) + 1 \in DOMAIN log[n]
      /\ \A m \in Node \ {p} : log'[m] = log[m]
      /\ Len(log'[p]) = Len(log[p]) + 1
      /\ DOMAIN log'[p] = 1 .. Len(log[p]) + 1
      /\ log'[p][Len(log[p]) + 1] = log[n][Len(log[p]) + 1]
      /\ \A i \in DOMAIN log[p] : log'[p][i] = log[p][i]
      /\ \A m \in Node : DOMAIN log[m] = 1 .. Len(log[m]) /\ Len(log[m]) \in Nat
  BY LateEntryFacts DEF DriverInv
<1>2. UNCHANGED <<pc, verdictVars, oracle, businesses, overtaken, led>>
  BY DEF LateEntry
<1>3. pc' = "done" /\ passed' => unread' = {}
  BY <1>2 DEF VerdictInv
<1>4. ASSUME pc \in {"fetch", "done"}, passed, OneLed, ~overtaken,
             NEW m \in judged, NEW k \in Ids, <<m, k>> \notin unread
      PROVE  \E i \in DOMAIN log'[m] :
               /\ log'[m][i] = Entry(k, oracle[k])
               /\ \A j \in i + 1 .. Len(log'[m]) : log'[m][j].key # k
  <2>1. Has(m, k, oracle[k]) /\ m \in Node
    BY <1>4 DEF VerdictInv, DriverInv, PollInv
  <2>2. CASE m # p
    <3>1. log'[m] = log[m]
      BY <1>1, <2>1, <2>2
    <3> QED
      BY <2>1, <3>1 DEF Has
  <2>3. CASE m = p
    <3> DEFINE q == Len(log[p]) + 1
               x == log[n][q]
    <3>1. x \in Entries /\ Current(x)
      <4>1. \A l \in Node : \A i \in DOMAIN log[l] : log[l][i] \in Entries /\ Current(log[l][i])
        BY DEF DriverInv, LogInv, LogTypeOK, ValuesAreCurrent
      <4> QED
        BY <1>1, <4>1
    <3>2. ASSUME x.key = k PROVE x = Entry(k, oracle[k])
      <4>1. PICK i \in DOMAIN log[p] : log[p][i] = Entry(k, oracle[k])
        BY <2>1, <2>3 DEF Has
      <4>2. i \in DOMAIN log[n] /\ log[n][i] = Entry(k, oracle[k]) /\ i < q
        <5>1. /\ Len(log[p]) <= Len(log[n])
              /\ \A j \in DOMAIN log[p] : log[p][j] = log[n][j]
          BY <1>1, <1>4 DEF DriverInv, LogInv, LogsAgree
        <5> QED
          BY <1>1, <4>1, <5>1
      <4>3. log[n][i].key = k /\ log[n][i].value = oracle[k]
        BY <4>2 DEF Entry
      <4>4. AtMost(oracle[k], x.value)
        BY <1>1, <1>4, <3>2, <4>2, <4>3 DEF DriverInv, LogInv, ValuesGrow
      <4> HIDE DEF x
      <4> QED
        BY <1>4, <3>1, <3>2, <4>4, OracleIsHighest
    <3> HIDE DEF x
    <3>3. log'[p][Len(log[p]) + 1] = x
      BY <1>1 DEF x
    <3>4. Has(p, k, oracle[k])
      BY <2>1, <2>3
    <3>5. \E i \in DOMAIN log'[p] :
            /\ log'[p][i] = Entry(k, oracle[k])
            /\ \A j \in i + 1 .. Len(log'[p]) : log'[p][j].key # k
      <4>1. /\ DOMAIN log[p] = 1 .. Len(log[p]) /\ Len(log[p]) \in Nat
            /\ Len(log'[p]) = Len(log[p]) + 1
            /\ DOMAIN log'[p] = 1 .. Len(log[p]) + 1
            /\ \A i \in DOMAIN log[p] : log'[p][i] = log[p][i]
        BY <1>1
      <4>2. x.key = k => x = Entry(k, oracle[k])
        BY <3>2
      <4> QED
        BY <3>3, <3>4, <4>1, <4>2, HasAppended, SMTT(60)
    <3> QED
      BY <2>3, <3>5
  <2> QED
    BY <2>2, <2>3
<1>5. ASSUME pc' \in {"fetch", "done"}, passed', OneLed', ~overtaken',
             NEW m \in judged', NEW k \in Ids', <<m, k>> \notin unread'
      PROVE  Has(m, k, oracle[k])'
  <2>1. /\ pc \in {"fetch", "done"} /\ passed /\ OneLed /\ ~overtaken
        /\ m \in judged /\ k \in Ids /\ <<m, k>> \notin unread /\ oracle' = oracle
    BY <1>2, <1>5 DEF OneLed, Ids
  <2>2. \E i \in DOMAIN log'[m] :
          /\ log'[m][i] = Entry(k, oracle[k])
          /\ \A j \in i + 1 .. Len(log'[m]) : log'[m][j].key # k
    BY <1>4, <2>1
  <2> QED
    BY <2>1, <2>2 DEF Has, Entry
<1> QED
  BY <1>3, <1>5 DEF VerdictInv

LEMMA VerdictStep ==
  ASSUME DriverInv, VerdictInv, [DriverNext]_driverVars
  PROVE  VerdictInv'
<1>1. CASE EnvStep
  <2>1. ASSUME NEW n \in Node,
               Elect(n) \/ StepsDown(n) \/ Returns(n) \/ \E killed \in BOOLEAN : Leaves(n, killed)
        PROVE  VerdictInv'
    <3>1. led \subseteq led' /\ UNCHANGED <<pc, verdictVars, oracle, businesses, log, overtaken>>
      BY <2>1 DEF Elect, StepsDown, Returns, Leaves
    <3>2. OneLed' => OneLed
      BY <3>1 DEF OneLed
    <3> QED
      BY <3>1, <3>2, VerdictKept
  <2>2. ASSUME NEW c \in late, LatePut(c) PROVE VerdictInv'
    <3>1. overtaken' /\ UNCHANGED <<pc, verdictVars>>
      BY <2>2 DEF LatePut
    <3> QED
      BY <3>1 DEF VerdictInv
  <2> QED
    BY <1>1, <2>1, <2>2, VerdictLateEntry DEF EnvStep
<1>2. CASE ChooseNodes
  <2>1. /\ pc' \in {"fetch", "done"} /\ (pc' = "done" => ~passed')
        /\ unread' = judged' \X Ids /\ businesses' = businesses
    BY <1>2 DEF ChooseNodes, Concludes
  <2>2. ASSUME NEW n \in judged', NEW k \in Ids' PROVE <<n, k>> \in unread'
    BY <2>1, <2>2 DEF Ids
  <2> QED
    BY <2>1, <2>2 DEF VerdictInv
<1>3. ASSUME NEW m \in Node, NEW b \in Business, FetchKey(m, b)
      PROVE  VerdictInv'
  <2>1. /\ UNCHANGED <<pc, judged, oracle, businesses, log, led, overtaken>> /\ pc = "fetch"
        /\ unread' = unread \ {<<m, b>>}
        /\ passed' => passed /\ Has(m, b, oracle[b])
    BY <1>3 DEF FetchKey, Matches
  <2>2. ASSUME passed', OneLed', ~overtaken', NEW n \in judged', NEW k \in Ids',
               <<n, k>> \notin unread'
        PROVE  Has(n, k, oracle[k])'
    <3>1. n \in judged /\ k \in Ids /\ OneLed /\ passed
      BY <2>1, <2>2 DEF OneLed, Ids
    <3>2. Has(n, k, oracle[k])
      <4>1. CASE <<n, k>> = <<m, b>>
        BY <2>1, <2>2, <4>1
      <4>2. CASE <<n, k>> \notin unread
        BY <2>1, <2>2, <3>1, <4>2 DEF VerdictInv
      <4> QED
        BY <2>1, <2>2, <4>1, <4>2
    <3> QED
      BY <2>1, <3>2 DEF Has
  <2> QED
    BY <2>1, <2>2 DEF VerdictInv
<1>4. CASE Verdict
  <2>1. /\ UNCHANGED <<passed, judged, oracle, businesses, log, led, overtaken, unread>>
        /\ pc = "fetch" /\ unread = {} /\ OneLed' = OneLed
    BY <1>4 DEF Verdict, OneLed
  <2>2. ASSUME passed', OneLed', ~overtaken', NEW n \in judged', NEW k \in Ids',
               <<n, k>> \notin unread'
        PROVE  Has(n, k, oracle[k])'
    <3>1. Has(n, k, oracle[k])
      BY <2>1, <2>2 DEF VerdictInv, Ids
    <3> QED
      BY <2>1, <3>1 DEF Has
  <2> QED
    BY <2>1, <2>2 DEF VerdictInv
<1>5. CASE /\ DriverStep /\ ~ChooseNodes /\ ~Verdict
           /\ ~ \E n \in Node, k \in Business : FetchKey(n, k)
  <2>1. UNCHANGED verdictVars
    BY <1>5
       DEF DriverStep, Sampling, Asks, CountNodes, FindsLeader, Greets, FindsNone,
           Converges, Concludes, BuildOracle, LoadBusiness, LoadEnds, NextReview,
           SendReview, SkipReview
  <2>2. pc' \in {"fetch", "done"} => UNCHANGED <<pc, oracle, businesses, log, led, overtaken>>
    BY <1>5
       DEF DriverStep, Sampling, SampleStep, Asks, CountNodes, FindsLeader, Greets,
           FindsNone, Converges, Concludes, BuildOracle, LoadBusiness, LoadEnds,
           NextReview, SendReview, SkipReview, DrawBusiness, WriteSample,
           DriverInv, DriverAccount, PlaceInv
  <2>3. CASE pc' \in {"fetch", "done"}
    BY <2>1, <2>2, <2>3, VerdictKept DEF OneLed
  <2>4. CASE pc' \notin {"fetch", "done"}
    BY <2>4 DEF VerdictInv
  <2> QED
    BY <2>3, <2>4
<1>6. CASE UNCHANGED driverVars
  BY <1>6, VerdictKept DEF driverVars, OneLed
<1> QED
  BY <1>1, <1>2, <1>3, <1>4, <1>5, <1>6 DEF DriverNext, DriverStep

(* A run that passed stays right: what verify read at different moments    *)
(* from different nodes is what all of them hold in the end, unless a      *)
(* second node has led or a PUT came late (verify_cluster.py:206-271).     *)
THEOREM PassedRunsStayRight == DriverSpec => []PassIsFinal
<1>1. DriverInit => VerdictInv
  BY DEF DriverInit, VerdictInv
<1>2. DriverInv /\ VerdictInv /\ [DriverNext]_driverVars => VerdictInv'
  BY VerdictStep
<1>3. DriverInv /\ VerdictInv => PassIsFinal
  <2> SUFFICES ASSUME DriverInv, VerdictInv, pc = "done", passed, OneLeader, ~overtaken,
                      NEW n \in judged, NEW b \in Ids
               PROVE  Has(n, b, oracle[b])
    BY DEF PassIsFinal
  <2>1. OneLed
    BY OneLeaderLed DEF DriverInv, LogInv
  <2>2. <<n, b>> \notin unread
    BY DEF VerdictInv
  <2> QED
    BY <2>1, <2>2 DEF VerdictInv
<1> QED
  BY <1>1, <1>2, <1>3, DriverInvHolds, PTL DEF DriverSpec

(* The sample is a self-consistent subset (sample_data.py:2): as many      *)
(* different businesses and of their reviews as asked for, or all there    *)
(* are, and no review is later than one that was left out.                 *)
THEOREM SamplesAreConsistent == DriverSpec => []SampleIsConsistent
<1> DEFINE I == SampleInv /\ DrawInv /\ SampleIsConsistent
<1>1. DriverInit => I
  <2> SUFFICES ASSUME DriverInit PROVE I
    OBVIOUS
  <2>1. businesses = << >> /\ read = 0 /\ sampled = FALSE
    BY DEF DriverInit, SampleInit
  <2>2. SampleSize \in Nat /\ Len(<< >>) = 0 /\ DOMAIN << >> = {}
    BY SampleAssumption
  <2>3. DrawInv
    BY <2>1, <2>2 DEF DrawInv
  <2> QED
    BY <2>1, <2>3, SampleInvInit DEF DriverInit, SampleIsConsistent
<1>2. I /\ [DriverNext]_driverVars => I'
  <2> SUFFICES ASSUME I, [DriverNext]_driverVars PROVE I'
    OBVIOUS
  <2>1. SampleStep \/ UNCHANGED sampleVars
    BY DEF DriverNext, EnvStep, DriverStep, Sampling, driverVars, Elect, StepsDown,
           Returns, Leaves, LateEntry, LatePut, Asks, CountNodes, FindsLeader,
           Greets, FindsNone, Converges, ChooseNodes, Verdict, FetchKey,
           Concludes, BuildOracle, LoadBusiness, LoadEnds, NextReview, SendReview,
           SkipReview
  <2>2. SampleInv'
    BY <2>1, SampleInvStep
  <2>3. CASE DrawBusiness
    BY <2>2, <2>3, DrawInvStep DEF DrawBusiness, SampleIsConsistent
  <2>4. CASE WriteSample
    <3>1. DrawInv'
      BY <2>4 DEF WriteSample, DrawInv
    <3> QED
      BY <2>2, <2>4, <3>1, SampleWritten
  <2>5. CASE UNCHANGED sampleVars
    BY <2>2, <2>5 DEF DrawInv, SampleIsConsistent, Ids, Matched
  <2> QED
    BY <2>1, <2>3, <2>4, <2>5 DEF SampleStep
<1> QED
  BY <1>1, <1>2, PTL DEF DriverSpec

-----------------------------------------------------------------------------
(* A run in which nothing has failed: one leader, and all logs are its log. *)
Working == Streaming \cup {"greet", "oracle", "load"}
LeaderLed ==
  /\ \A i \in DOMAIN answers : answers[i].leads => answers[i].node \in led
  /\ pc \in Working => leader \in led

CalmNodes ==
  faults = 0 =>
    /\ up = Node /\ late = {} /\ leads = led /\ OneLed
    /\ led # {} => Majority <= Cardinality(Node)
    /\ \A l \in led, n \in Node : log[n] = log[l] /\ term[n] <= term[l]

\* Everything read so far is stored, but for the review that is being sent.
CalmStores ==
  faults = 0 =>
    /\ pc = "send" => tries = 0
    /\ pc # "return"
    /\ pc = "load" => \A l \in led : \A i \in 1 .. pos : Has(l, businesses[i], Unreviewed)
    /\ pc \in Streaming =>
         \A l \in led, b \in Ids :
           Has(l, b, state[b]) \/ (pc = "send" /\ b = reviews[pos].business)

CalmVerdict ==
  /\ pc \in {"fetch", "done"} => unread \subseteq Node \X Ids
  /\ faults = 0 =>
       /\ \A i \in DOMAIN answers : answers[i].live
       /\ pc \in {"fetch", "done"} => passed

CalmInv == LeaderLed /\ CalmNodes /\ CalmStores /\ CalmVerdict

LEMMA CalmInvInit == DriverInit => CalmInv
<1> SUFFICES ASSUME DriverInit PROVE CalmInv
  OBVIOUS
<1>1. /\ answers = << >> /\ pc = "count" /\ led = {} /\ leads = {} /\ late = {} /\ up = Node
      /\ unread = {}
  BY DEF DriverInit
<1>2. DOMAIN answers = {}
  BY <1>1
<1> QED
  BY <1>1, <1>2
     DEF CalmInv, LeaderLed, CalmNodes, CalmStores, CalmVerdict, Working, Streaming, OneLed

\* Without a failure a PUT reaches every node, and is confirmed.
LEMMA CalmPut ==
  ASSUME DriverInv, CalmNodes, faults = 0, faults' = 0, leader \in led,
         NEW e \in Entries, NEW result \in Results, Put(leader, e, result)
  PROVE  /\ result = "200" /\ UNCHANGED <<up, leads, led, late>>
         /\ log' = [p \in Node |-> Append(log[p], e)]
         /\ \A p \in Node : term'[p] <= term'[leader]
<1>1. /\ up = Node /\ late = {} /\ leads = led /\ OneLed
      /\ Majority <= Cardinality(Node)
      /\ \A n \in Node : log[n] = log[leader] /\ term[n] <= term[leader]
      /\ leader \in Node /\ led = {leader}
  BY DEF CalmNodes, DriverInv, LogInv, LogTypeOK, OneLed
<1>2. ~Fault
  BY DEF Fault
<1>3. Serves(leader, e, result)
  BY <1>1, <1>2 DEF Put, Refuses, Breaks, Hangs
<1>4. Acceptors(leader) = Node \ {leader}
  BY <1>1 DEF Acceptors
<1>5. /\ Append1(leader, e, Node \ {leader}) /\ late' = late
      /\ result = IF Cardinality(Node \ {leader}) + 1 >= Majority THEN "200" ELSE "503"
  BY <1>2, <1>3, <1>4 DEF Serves
<1>6. Cardinality(Node \ {leader}) + 1 = Cardinality(Node)
  <2>1. IsFiniteSet(Node)
    BY DriverAssumption
  <2>2. /\ Cardinality(Node \ {leader}) = Cardinality(Node) - 1 /\ Cardinality(Node) \in Nat
    BY <1>1, <2>1, FS_RemoveElement, FS_CardinalityType
  <2> QED
    BY <2>2
<1>7. result = "200"
  BY <1>1, <1>5, <1>6
<1>8. /\ UNCHANGED <<up, leads, led>>
      /\ log' = [p \in Node |-> Append(log[p], e)]
      /\ term' = [p \in Node |-> IF p \in Node \ {leader} THEN term[leader] ELSE term[p]]
  BY <1>1, <1>5 DEF Append1
<1>9. \A p \in Node : term'[p] <= term'[leader]
  <2>1. term[leader] \in Nat
    BY <1>1 DEF DriverInv, LogInv, LogTypeOK
  <2> QED
    BY <1>1, <1>8, <2>1
<1> QED
  BY <1>5, <1>7, <1>8, <1>9

\* Only Asks adds an answer, and a leader that is asked has led.
LEMMA LeaderLedStep ==
  ASSUME DriverInv, DriverInv', LeaderLed, [DriverNext]_driverVars
  PROVE  LeaderLed'
<1>1. led \subseteq led'
  BY DEF DriverNext, EnvStep, DriverStep, driverVars, Sampling, Elect, StepsDown,
         Returns, Leaves, LateEntry, LatePut, Append1, Asks, CountNodes, FindsLeader,
         Greets, FindsNone, Converges, ChooseNodes, Verdict, FetchKey, Concludes,
         BuildOracle, LoadBusiness, LoadEnds, NextReview, SendReview, SkipReview, Put,
         Serves, Refuses, Breaks, Hangs
<1>2. \A i \in DOMAIN answers' : answers'[i].leads => answers'[i].node \in led'
  <2>1. CASE Asks
    <3> DEFINE n == NodeOrder[Len(answers) + 1]
    <3>1. PICK a : /\ answers' = Append(answers, a)
                   /\ \/ a = [node |-> n, live |-> TRUE, leads |-> n \in leads, lsn |-> Len(log[n])]
                      \/ a = [node |-> n, live |-> FALSE, leads |-> FALSE, lsn |-> 0]
      BY <2>1 DEF Asks
    <3> HIDE DEF n
    <3>2. a.leads => a.node \in led
      <4>1. leads \subseteq led
        BY DEF DriverInv, LogInv, LeadersWrite
      <4>2. CASE a = [node |-> n, live |-> TRUE, leads |-> n \in leads, lsn |-> Len(log[n])]
        <5>1. a.leads = (n \in leads) /\ a.node = n
          BY <4>2
        <5> QED
          BY <4>1, <5>1
      <4>3. CASE a = [node |-> n, live |-> FALSE, leads |-> FALSE, lsn |-> 0]
        BY <4>3
      <4> QED
        BY <3>1, <4>2, <4>3
    <3>3. answers \in Seq(Answers) /\ Len(answers) \in Nat /\ DOMAIN answers = 1 .. Len(answers)
      BY DEF DriverInv, PollInv
    <3>4. /\ DOMAIN answers' = 1 .. Len(answers) + 1
          /\ answers'[Len(answers) + 1] = a
          /\ \A i \in 1 .. Len(answers) : answers'[i] = answers[i]
      BY <3>1, <3>3
    <3> QED
      BY <1>1, <3>2, <3>3, <3>4 DEF LeaderLed
  <2>2. CASE answers' = answers
    BY <1>1, <2>2 DEF LeaderLed
  <2>3. CASE answers' = << >>
    BY <2>3
  <2>4. Asks \/ answers' = answers \/ answers' = << >>
    BY DEF DriverNext, EnvStep, DriverStep, driverVars, Sampling, Elect, StepsDown,
           Returns, Leaves, LateEntry, LatePut, CountNodes, FindsLeader, Greets,
           FindsNone, Converges, ChooseNodes, Verdict, FetchKey, Concludes,
           BuildOracle, LoadBusiness, LoadEnds, NextReview, SendReview, SkipReview
  <2> QED
    BY <2>1, <2>2, <2>3, <2>4
<1>3. pc' \in Working => leader' \in led'
  <2>1. CASE FindsLeader
    <3>1. leader' = answers[Len(answers)].node /\ answers[Len(answers)].leads
          /\ answers # << >>
      BY <2>1 DEF FindsLeader, LeaderFound
    <3>2. Len(answers) \in DOMAIN answers
      <4>1. answers \in Seq(Answers)
        BY DEF DriverInv, PollInv
      <4> QED
        BY <3>1, <4>1
    <3> QED
      BY <1>1, <3>1, <3>2 DEF LeaderLed
  <2>2. CASE leader' = leader /\ (pc' \in Working => pc \in Working)
    BY <1>1, <2>2 DEF LeaderLed
  <2>3. FindsLeader \/ (leader' = leader /\ (pc' \in Working => pc \in Working))
    <3>1. CASE EnvStep \/ UNCHANGED driverVars \/ Sampling
      BY <3>1 DEF EnvStep, driverVars, Elect, StepsDown, Returns, Leaves, LateEntry,
                  LatePut, Sampling
    <3>2. CASE Asks \/ CountNodes \/ Greets \/ FindsNone \/ BuildOracle
      BY <3>2 DEF Asks, CountNodes, Greets, FindsNone, BuildOracle, Concludes, Working,
                  Streaming
    <3>3. CASE LoadBusiness \/ LoadEnds \/ NextReview \/ SendReview \/ SkipReview
      BY <3>3 DEF LoadBusiness, LoadEnds, NextReview, SendReview, SkipReview, Working,
                  Streaming
    <3>4. CASE \/ Converges \/ ChooseNodes \/ Verdict
               \/ \E n \in Node, k \in Business : FetchKey(n, k)
      BY <3>4 DEF Converges, ChooseNodes, Verdict, FetchKey, Concludes, Working, Streaming
    <3> QED
      BY <3>1, <3>2, <3>3, <3>4 DEF DriverNext, DriverStep
  <2> QED
    BY <2>1, <2>2, <2>3
<1> QED
  BY <1>2, <1>3 DEF LeaderLed

\* Failures are only counted up.
LEMMA CalmBefore ==
  ASSUME DriverInv, [DriverNext]_driverVars, faults' = 0
  PROVE  faults = 0 /\ ~Fault
<1>1. faults \in Nat
  BY DriverAssumption DEF DriverInv, PollInv
<1>2. faults' = faults \/ faults' = faults + 1
  BY DEF DriverNext, EnvStep, DriverStep, driverVars, Sampling, Elect, StepsDown,
         Returns, Leaves, LateEntry, LatePut, CountNodes, FindsLeader, Greets,
         FindsNone, Converges, ChooseNodes, Verdict, FetchKey, Concludes, Asks,
         BuildOracle, LoadBusiness, LoadEnds, NextReview, SendReview, SkipReview,
         Fault, NoFault, Put, Serves, Refuses, Breaks, Hangs
<1> QED
  BY <1>1, <1>2 DEF Fault

LEMMA CalmNodesStep ==
  ASSUME DriverInv, LeaderLed, CalmNodes, [DriverNext]_driverVars
  PROVE  CalmNodes'
<1> SUFFICES ASSUME faults' = 0
             PROVE  /\ up' = Node /\ late' = {} /\ leads' = led' /\ OneLed'
                    /\ led' # {} => Majority <= Cardinality(Node)
                    /\ \A l \in led', n \in Node :
                         log'[n] = log'[l] /\ term'[n] <= term'[l]
  BY DEF CalmNodes
<1>1. faults = 0 /\ ~Fault
  BY CalmBefore
<1>2. /\ up = Node /\ late = {} /\ leads = led /\ OneLed
      /\ led # {} => Majority <= Cardinality(Node)
      /\ \A l \in led, n \in Node : log[n] = log[l] /\ term[n] <= term[l]
  BY <1>1 DEF CalmNodes
<1>3. LogTypeOK /\ LeadersWrite
  BY DEF DriverInv, LogInv
<1>4. CASE UNCHANGED nodeVars /\ late' = late
  BY <1>2, <1>4 DEF OneLed
<1>5. ASSUME NEW n \in Node, Elect(n)
      PROVE  /\ up' = Node /\ late' = {} /\ leads' = led' /\ OneLed'
             /\ led' # {} => Majority <= Cardinality(Node)
             /\ \A l \in led', p \in Node : log'[p] = log'[l] /\ term'[p] <= term'[l]
  <2>1. led = {} /\ leads = {} /\ UNCHANGED <<up, log, late>>
    BY <1>1, <1>2, <1>5 DEF Elect
  <2>2. \A p, q \in Node : log[p] = log[q] /\ Len(log[p]) = 0
    <3>1. \A p \in Node : log[p] \in Seq(Entries) /\ Len(log[p]) = 0
      BY <1>3, <2>1 DEF LogTypeOK, LeadersWrite
    <3>2. \A p \in Node : log[p] = << >>
      BY <3>1, EmptySeq
    <3> QED
      BY <3>1, <3>2
  <2>3. {p \in up : Len(log[p]) <= Len(log[n])} = Node
    BY <1>2, <2>2
  <2>4. PICK t \in 1 .. MaxTerm :
          term' = [p \in Node |-> IF p \in {q \in up : Len(log[q]) <= Len(log[n])}
                                  THEN t ELSE term[p]]
    BY <1>5 DEF Elect
  <2>5. \A p \in Node : term'[p] = t
    BY <2>3, <2>4
  <2>6. led' = {n} /\ leads' = {n} /\ Majority <= Cardinality(Node)
    <3>1. Majority \in Nat /\ Cardinality(Node) \in Nat
      BY DriverAssumption, FS_CardinalityType
    <3> QED
      BY <1>5, <2>1, <2>3, <3>1 DEF Elect
  <2>7. t \in Nat
    BY DriverAssumption
  <2> QED
    BY <1>2, <2>1, <2>2, <2>5, <2>6, <2>7 DEF OneLed
<1>6. CASE EnvStep
  <2>1. ASSUME NEW n \in Node, StepsDown(n) PROVE FALSE
    <3>1. n \in led
      BY <1>2, <2>1 DEF StepsDown
    <3>2. PICK p \in up : term[p] > term[n]
      BY <2>1 DEF StepsDown
    <3>3. p \in Node /\ term[p] \in Nat /\ term[n] \in Nat /\ term[p] <= term[n]
      BY <1>2, <1>3, <3>1, <3>2, <2>1 DEF LogTypeOK
    <3> QED
      BY <3>2, <3>3
  <2>2. ASSUME NEW n \in Node, Returns(n) \/ \E killed \in BOOLEAN : Leaves(n, killed)
        PROVE  FALSE
    BY <1>1, <1>2, <2>2 DEF Returns, Leaves
  <2>3. ASSUME NEW n \in Node, NEW p \in Node, LateEntry(n, p) PROVE FALSE
    BY <1>1, <2>3 DEF LateEntry
  <2> QED
    BY <1>2, <1>5, <1>6, <2>1, <2>2, <2>3 DEF EnvStep
<1>7. CASE LoadBusiness \/ SendReview
  <2>1. PICK e \in Entries, result \in Results : Put(leader, e, result)
    BY <1>7, SentEntry DEF DriverInv
  <2>2. leader \in led
    BY <1>7 DEF LeaderLed, LoadBusiness, SendReview, Working, Streaming
  <2>3. /\ UNCHANGED <<up, leads, led, late>>
        /\ log' = [p \in Node |-> Append(log[p], e)]
        /\ \A p \in Node : term'[p] <= term'[leader]
    BY <1>1, <2>1, <2>2, CalmPut
  <2>4. led = {leader} /\ leader \in Node
    BY <1>2, <1>3, <2>2 DEF OneLed, LogTypeOK
  <2>5. \A n \in Node : log'[n] = log'[leader]
    BY <1>2, <2>2, <2>3, <2>4
  <2> QED
    BY <1>2, <2>3, <2>4, <2>5 DEF OneLed
<1>8. CASE DriverStep /\ ~LoadBusiness /\ ~SendReview
  <2>1. UNCHANGED nodeVars /\ late' = late
    BY <1>8
       DEF DriverStep, Sampling, Asks, CountNodes, FindsLeader, Greets, FindsNone,
           Converges, ChooseNodes, Verdict, FetchKey, Concludes, BuildOracle,
           LoadEnds, NextReview, SkipReview
  <2> QED
    BY <1>4, <2>1
<1>9. CASE UNCHANGED driverVars
  BY <1>4, <1>9 DEF driverVars
<1> QED
  BY <1>6, <1>7, <1>8, <1>9 DEF DriverNext

\* Every node has what was sent, and what it had unless that is of the same key.
LEMMA CalmAppended ==
  ASSUME DriverInv, NEW e \in Entries, log' = [p \in Node |-> Append(log[p], e)],
         NEW l \in Node
  PROVE  /\ DOMAIN log[l] = 1 .. Len(log[l]) /\ Len(log[l]) \in Nat
         /\ Len(log'[l]) = Len(log[l]) + 1
         /\ DOMAIN log'[l] = 1 .. Len(log[l]) + 1
         /\ log'[l][Len(log[l]) + 1] = e
         /\ \A i \in DOMAIN log[l] : log'[l][i] = log[l][i]
<1>1. log[l] \in Seq(Entries) /\ log'[l] = Append(log[l], e)
  BY DEF DriverInv, LogInv, LogTypeOK
<1> QED
  BY <1>1

LEMMA HasSent ==
  ASSUME DriverInv, NEW e \in Entries, log' = [p \in Node |-> Append(log[p], e)],
         NEW l \in Node
  PROVE  \E i \in DOMAIN log'[l] :
           /\ log'[l][i] = e
           /\ \A j \in i + 1 .. Len(log'[l]) : log'[l][j].key # e.key
<1>1. /\ DOMAIN log[l] = 1 .. Len(log[l]) /\ Len(log[l]) \in Nat
      /\ Len(log'[l]) = Len(log[l]) + 1
      /\ DOMAIN log'[l] = 1 .. Len(log[l]) + 1
      /\ log'[l][Len(log[l]) + 1] = e
  BY CalmAppended
<1>2. Len(log[l]) + 1 \in DOMAIN log'[l]
  BY <1>1
<1>3. \A j \in Len(log[l]) + 1 + 1 .. Len(log'[l]) : log'[l][j].key # e.key
  BY <1>1
<1> QED
  BY <1>1, <1>2, <1>3

LEMMA HasStill ==
  ASSUME DriverInv, NEW e \in Entries, log' = [p \in Node |-> Append(log[p], e)],
         NEW l \in Node, NEW k, NEW v, Has(l, k, v), e.key = k => e = Entry(k, v)
  PROVE  \E i \in DOMAIN log'[l] :
           /\ log'[l][i] = Entry(k, v)
           /\ \A j \in i + 1 .. Len(log'[l]) : log'[l][j].key # k
<1>1. /\ DOMAIN log[l] = 1 .. Len(log[l]) /\ Len(log[l]) \in Nat
      /\ Len(log'[l]) = Len(log[l]) + 1
      /\ DOMAIN log'[l] = 1 .. Len(log[l]) + 1
      /\ log'[l][Len(log[l]) + 1] = e
      /\ \A i \in DOMAIN log[l] : log'[l][i] = log[l][i]
  BY CalmAppended
<1> QED
  BY <1>1, HasAppended

LEMMA CalmLoad ==
  ASSUME DriverInv, LeaderLed, CalmNodes, CalmStores, LoadBusiness, faults' = 0, faults = 0
  PROVE  CalmStores'
<1> DEFINE e == Entry(businesses[pos + 1], Unreviewed)
<1>1. PICK result \in Results : Put(leader, e, result)
  BY DEF LoadBusiness
<1>2. /\ UNCHANGED <<pc, businesses>> /\ pc = "load" /\ pos' = pos + 1 /\ pos \in Nat
      /\ pos < Len(businesses)
  BY DEF LoadBusiness, DriverInv, DriverAccount, PlaceInv
<1>3. e \in Entries /\ e.key = businesses[pos + 1] /\ e.value = Unreviewed
  <2>1. businesses[pos + 1] \in Business
    <3>1. businesses \in Seq(Business)
      BY DEF DriverInv, DriverAccount, SampleInv
    <3>2. pos + 1 \in 1 .. Len(businesses)
      BY <1>2, <3>1
    <3> QED
      BY <3>1, <3>2
  <2> QED
    BY <2>1, NoLines DEF Entry, Entries
<1> HIDE DEF e
<1>4. leader \in led
  BY <1>2 DEF LeaderLed, Working
<1>5. led' = led /\ log' = [p \in Node |-> Append(log[p], e)]
  BY <1>1, <1>3, <1>4, CalmPut
<1>6. ASSUME NEW l \in led, NEW i \in 1 .. pos + 1
      PROVE  Has(l, businesses[i], Unreviewed)'
  <2>1. l \in Node
    BY DEF DriverInv, LogInv, LogTypeOK
  <2>2. PICK k : k = businesses[i]
    OBVIOUS
  <2>3. \E j \in DOMAIN log'[l] :
          /\ log'[l][j] = Entry(k, Unreviewed)
          /\ \A m \in j + 1 .. Len(log'[l]) : log'[l][m].key # k
    <3>1. CASE i = pos + 1
      <4>1. e = Entry(k, Unreviewed) /\ e.key = k
        BY <1>3, <2>2, <3>1 DEF e
      <4> QED
        BY <1>3, <1>5, <2>1, <4>1, HasSent
    <3>2. CASE i # pos + 1
      <4>1. Has(l, k, Unreviewed)
        <5>1. i \in 1 .. pos
          BY <1>2, <3>2
        <5> QED
          BY <1>2, <2>2, <5>1 DEF CalmStores
      <4>2. e.key = k => e = Entry(k, Unreviewed)
        BY DEF e, Entry
      <4> QED
        BY <1>3, <1>5, <2>1, <4>1, <4>2, HasStill, SMTT(60)
    <3> QED
      BY <3>1, <3>2
  <2> QED
    BY <1>2, <2>2, <2>3 DEF Has, Entry, Unreviewed
<1> QED
  BY <1>2, <1>5, <1>6 DEF CalmStores, Streaming

LEMMA CalmSend ==
  ASSUME DriverInv, LeaderLed, CalmNodes, CalmStores, SendReview, faults' = 0, faults = 0
  PROVE  CalmStores'
<1> DEFINE c == reviews[pos].business
           e == Entry(c, Sent(c))
<1>1. PICK result \in Results :
        /\ Put(leader, e, result)
        /\ pc' = CASE result = "200" -> "next"
                   [] result \in {"409", "none"} -> "return"
                   [] OTHER -> "send"
  BY DEF SendReview
<1>2. UNCHANGED <<businesses, pos, reviews, state>> /\ pc = "send"
  BY DEF SendReview
<1>3. e \in Entries /\ e.key = c /\ e.value = state[c]
  <2>1. c \in Business
    <3>1. reviews \in Seq(Reviews) /\ pos \in Nat /\ pos >= 1 /\ pos <= Len(reviews)
      BY <1>2 DEF DriverInv, DriverAccount, SampleInv, PlaceInv, Streaming
    <3>2. reviews[pos] \in Reviews
      BY <3>1
    <3> QED
      BY <3>2 DEF Reviews
  <2> QED
    BY <2>1 DEF Entry, Entries, Sent, DriverInv, DriverAccount, AccountTypeOK
<1> HIDE DEF e, c
<1>4. leader \in led
  BY <1>2 DEF LeaderLed, Working, Streaming
<1>5. result = "200" /\ led' = led /\ log' = [p \in Node |-> Append(log[p], e)]
  BY <1>1, <1>3, <1>4, CalmPut
<1>6. pc' = "next"
  BY <1>1, <1>5
<1>7. ASSUME NEW l \in led, NEW b \in Ids
      PROVE  Has(l, b, state[b])'
  <2>1. l \in Node
    BY DEF DriverInv, LogInv, LogTypeOK
  <2>2. PICK v : v = state[b]
    OBVIOUS
  <2>3. PICK d \in Entries : d = e
    BY <1>3
  <2>4. \E j \in DOMAIN log'[l] :
          /\ log'[l][j] = Entry(b, v)
          /\ \A m \in j + 1 .. Len(log'[l]) : log'[l][m].key # b
    <3>1. CASE b = c
      <4>1. d = Entry(b, v) /\ d.key = b
        BY <1>3, <2>2, <2>3, <3>1 DEF e, Entry, Sent
      <4> QED
        BY <1>5, <2>1, <2>3, <4>1, HasSent
    <3>2. CASE b # c
      <4>1. Has(l, b, v)
        BY <1>2, <2>2, <3>2 DEF CalmStores, Streaming, c
      <4>2. d.key # b
        BY <1>3, <2>3, <3>2
      <4> QED
        BY <1>5, <2>1, <2>3, <4>1, <4>2, HasStill
    <3> QED
      BY <3>1, <3>2
  <2> QED
    BY <1>2, <2>2, <2>4 DEF Has, Entry
<1>8. Ids' = Ids
  BY <1>2 DEF Ids
<1> QED
  BY <1>5, <1>6, <1>7, <1>8 DEF CalmStores

\* The other steps of the driver.
LEMMA CalmReads ==
  ASSUME DriverInv, CalmStores, faults = 0, LoadEnds \/ NextReview
  PROVE  CalmStores'
<1>1. UNCHANGED <<businesses, reviews, log, led>> /\ Ids' = Ids
  BY DEF LoadEnds, NextReview, Ids
<1>2. CASE LoadEnds
  <2>1. /\ pc = "load" /\ pos = Len(businesses) /\ pc' = "next" /\ state' = state
    BY <1>2 DEF LoadEnds
  <2>2. ASSUME NEW b \in Ids PROVE state[b] = Unreviewed /\ \E i \in 1 .. pos : businesses[i] = b
    <3>1. businesses \in Seq(Business) /\ b \in Business
      BY DEF DriverInv, DriverAccount, SampleInv, Ids
    <3>2. \E i \in 1 .. pos : businesses[i] = b
      BY <2>1, <3>1 DEF Ids
    <3>3. Streamed = 0
      BY <2>1 DEF Streamed, Streaming
    <3> QED
      BY <3>1, <3>2, <3>3, NoLines DEF DriverInv, DriverAccount, AccountInv
  <2>3. ASSUME NEW l \in led, NEW b \in Ids PROVE Has(l, b, state[b])'
    <3>1. Has(l, b, state[b])
      BY <2>1, <2>2 DEF CalmStores
    <3> QED
      BY <1>1, <2>1, <3>1 DEF Has, Entry
  <2> QED
    BY <1>1, <2>1, <2>3 DEF CalmStores
<1>3. CASE NextReview
  <2>1. pc = "next" /\ tries' = 0
    BY <1>3 DEF NextReview
  <2>2. \A l \in led, b \in Ids : Has(l, b, state[b])
    BY <2>1 DEF CalmStores, Streaming
  <2>3. CASE pos < Len(reviews)
    <3>1. pos' = pos + 1 /\ state' = AddReview(state, pos + 1)
          /\ pc' = IF reviews[pos + 1].business \in Ids THEN "send" ELSE "next"
      BY <1>3, <2>3 DEF NextReview
    <3>2. pos + 1 \in DOMAIN reviews
      <4>1. reviews \in Seq(Reviews) /\ pos \in Nat
        BY DEF DriverInv, DriverAccount, SampleInv, PlaceInv
      <4> QED
        BY <2>3, <4>1
    <3>3. reviews[pos + 1].business \in Ids /\ pc' = "send"
      BY <3>1, <3>2 DEF DriverInv, DriverAccount, SampleInv
    <3>4. ASSUME NEW b \in Ids, b # reviews[pos + 1].business PROVE state'[b] = state[b]
      BY <3>1, <3>4 DEF AddReview, DriverInv, DriverAccount, AccountTypeOK
    <3>5. ASSUME NEW l \in led, NEW b \in Ids, b # reviews'[pos'].business
          PROVE  Has(l, b, state[b])'
      <4>1. state'[b] = state[b] /\ Has(l, b, state[b])
        BY <1>1, <2>2, <3>1, <3>4, <3>5
      <4> QED
        BY <1>1, <4>1 DEF Has, Entry
    <3> QED
      BY <1>1, <2>1, <3>3, <3>5 DEF CalmStores
  <2>4. CASE ~(pos < Len(reviews))
    <3>1. pc' = "converge" /\ state' = state
      BY <1>3, <2>4 DEF NextReview
    <3>2. ASSUME NEW l \in led, NEW b \in Ids PROVE Has(l, b, state[b])'
      BY <1>1, <2>2, <3>1 DEF Has, Entry
    <3> QED
      BY <1>1, <3>1, <3>2 DEF CalmStores
  <2> QED
    BY <2>3, <2>4
<1> QED
  BY <1>2, <1>3

LEMMA CalmStoresKept ==
  ASSUME CalmStores, faults = 0, UNCHANGED <<businesses, reviews, log, led, state, pos>>,
         \/ pc' = pc /\ tries' = tries
         \/ {pc, pc'} \subseteq Streaming \ {"send", "return"}
         \/ pc' \notin Streaming \cup {"load"}
  PROVE  CalmStores'
<1>1. Ids' = Ids
  BY DEF Ids
<1>2. \A l, k, v : Has(l, k, v) => Has(l, k, v)'
  BY DEF Has, Entry
<1>3. CASE pc' = pc /\ tries' = tries
  BY <1>1, <1>3 DEF CalmStores, Has, Entry, Unreviewed
<1>4. CASE {pc, pc'} \subseteq Streaming \ {"send", "return"}
  BY <1>1, <1>4 DEF CalmStores, Has, Entry, Streaming
<1>5. CASE pc' \notin Streaming \cup {"load"}
  BY <1>5 DEF CalmStores, Streaming
<1> QED
  BY <1>3, <1>4, <1>5

LEMMA CalmStoresStep ==
  ASSUME DriverInv, LeaderLed, CalmNodes, CalmStores, [DriverNext]_driverVars
  PROVE  CalmStores'
<1>1. CASE faults' # 0
  BY <1>1 DEF CalmStores
<1>2. CASE faults' = 0
  <2>1. faults = 0 /\ ~Fault
    BY <1>2, CalmBefore
  <2>2. CASE EnvStep
    <3>1. UNCHANGED envVars
      BY <2>2 DEF EnvStep, Elect, StepsDown, Returns, Leaves, LateEntry, LatePut
    <3>2. CASE log' = log /\ led' = led
      BY <2>1, <3>1, <3>2, CalmStoresKept
    <3>3. ASSUME NEW n \in Node, Elect(n) PROVE CalmStores'
      <4>1. led = {}
        BY <2>1, <3>3 DEF Elect
      <4>2. pc' \notin Streaming \cup {"load"}
        BY <3>1, <4>1 DEF LeaderLed, Working
      <4> QED
        BY <4>2 DEF CalmStores, Streaming
    <3>4. ASSUME NEW n \in Node, NEW p \in Node, LateEntry(n, p) PROVE FALSE
      BY <2>1, <3>4 DEF LateEntry
    <3>5. late = {}
      BY <2>1 DEF CalmNodes
    <3> QED
      BY <2>2, <3>2, <3>3, <3>4, <3>5 DEF EnvStep, StepsDown, Returns, Leaves
  <2>3. CASE LoadBusiness
    BY <1>2, <2>1, <2>3, CalmLoad
  <2>4. CASE SendReview
    BY <1>2, <2>1, <2>4, CalmSend
  <2>5. CASE LoadEnds \/ NextReview
    BY <2>1, <2>5, CalmReads
  <2>6. CASE SkipReview
    <3>1. tries = 0
      BY <2>1, <2>6 DEF SkipReview, CalmStores
    <3>2. MayRetry
      BY <3>1, DriverAssumption DEF MayRetry
    <3> QED
      BY <2>6, <3>2 DEF SkipReview
  <2>7. CASE UNCHANGED driverVars
    BY <2>1, <2>7, CalmStoresKept DEF driverVars
  <2>8. CASE \/ Asks \/ CountNodes \/ FindsLeader \/ Greets \/ FindsNone
             \/ Converges \/ ChooseNodes \/ Verdict
             \/ \E n \in Node, k \in Business : FetchKey(n, k)
    <3>1. UNCHANGED <<businesses, reviews, log, led, state, pos>>
      BY <2>8 DEF Asks, CountNodes, FindsLeader, Greets, FindsNone, Converges, ChooseNodes,
                  Verdict, FetchKey, Concludes
    <3>2. pc # "return"
      BY <2>1 DEF CalmStores
    <3>3. \/ pc' = pc /\ tries' = tries
          \/ {pc, pc'} \subseteq Streaming \ {"send", "return"}
          \/ pc' \notin Streaming \cup {"load"}
      <4>1. CASE Asks \/ \E n \in Node, k \in Business : FetchKey(n, k)
        BY <4>1 DEF Asks, FetchKey
      <4>2. CASE CountNodes \/ FindsLeader \/ Greets \/ FindsNone
        BY <3>2, <4>2 DEF CountNodes, FindsLeader, Greets, FindsNone, Concludes, Streaming
      <4>3. CASE Converges \/ ChooseNodes \/ Verdict
        BY <4>3 DEF Converges, ChooseNodes, Verdict, Concludes, Streaming
      <4> QED
        BY <2>8, <4>1, <4>2, <4>3
    <3> QED
      BY <2>1, <3>1, <3>3, CalmStoresKept
  <2>9. CASE BuildOracle
    <3>1. CASE pc' = "oracle"
      BY <3>1 DEF CalmStores, Streaming
    <3>2. CASE pc' = "load" /\ pos' = 0
      BY <3>2 DEF CalmStores, Streaming
    <3> QED
      BY <2>9, <3>1, <3>2 DEF BuildOracle
  <2>10. CASE Sampling
    <3>1. pc' = "count"
      BY <2>10 DEF Sampling, SampleStep, DrawBusiness, WriteSample, DriverInv,
                   DriverAccount, PlaceInv
    <3> QED
      BY <3>1 DEF CalmStores, Streaming
  <2> QED
    BY <2>2, <2>3, <2>4, <2>5, <2>6, <2>7, <2>8, <2>9, <2>10 DEF DriverNext, DriverStep
<1> QED
  BY <1>1, <1>2

\* What verify reads is what the oracle expects.
LEMMA CalmVerdictStep ==
  ASSUME DriverInv, LeaderLed, CalmNodes, CalmStores, CalmVerdict, [DriverNext]_driverVars
  PROVE  CalmVerdict'
<1>1. pc' \in {"fetch", "done"} => unread' \subseteq Node \X Ids'
  <2>1. CASE ChooseNodes
    <3>1. unread' = judged' \X Ids /\ Ids' = Ids
      BY <2>1 DEF ChooseNodes, Concludes, Ids
    <3>2. judged' \subseteq Node
      BY VerifyStep DEF DriverInv
    <3> QED
      BY <3>1, <3>2
  <2>2. CASE unread' \subseteq unread /\ businesses' = businesses
             /\ (pc' \in {"fetch", "done"} => pc \in {"fetch", "done"})
    BY <2>2 DEF CalmVerdict, Ids
  <2>3. CASE Sampling
    BY <2>3 DEF Sampling, SampleStep, DrawBusiness, WriteSample, DriverInv, DriverAccount,
                PlaceInv
  <2>4. \/ ChooseNodes \/ Sampling
        \/ /\ unread' \subseteq unread /\ businesses' = businesses
           /\ pc' \in {"fetch", "done"} => pc \in {"fetch", "done"}
    <3>1. CASE EnvStep \/ UNCHANGED driverVars
      BY <3>1 DEF EnvStep, driverVars, Elect, StepsDown, Returns, Leaves, LateEntry, LatePut
    <3>2. CASE DriverStep
      BY <3>2 DEF DriverStep, Asks, CountNodes, FindsLeader, Greets, FindsNone, Converges,
                  Verdict, FetchKey, Concludes, BuildOracle, LoadBusiness, LoadEnds,
                  NextReview, SendReview, SkipReview
    <3> QED
      BY <3>1, <3>2 DEF DriverNext
  <2> QED
    BY <2>1, <2>2, <2>3, <2>4
<1>2. ASSUME faults' = 0 PROVE \A i \in DOMAIN answers' : answers'[i].live
  <2>1. faults = 0 /\ ~Fault /\ up = Node
    BY <1>2, CalmBefore DEF CalmNodes
  <2>2. CASE Asks
    <3> DEFINE n == NodeOrder[Len(answers) + 1]
    <3>1. answers \in Seq(Answers) /\ Len(answers) \in Nat /\ DOMAIN answers = 1 .. Len(answers)
      BY DEF DriverInv, PollInv
    <3>2. n \in Node
      <4>1. Len(answers) # Len(NodeOrder) /\ Len(answers) <= Len(NodeOrder)
        BY <2>2 DEF Asks, AllAnswered, DriverInv, PollInv
      <4>2. Len(answers) + 1 \in 1 .. Len(NodeOrder)
        BY <3>1, <4>1, DriverAssumption
      <4> QED
        BY <4>2, DriverAssumption
    <3>3. answers' = Append(answers, [node |-> n, live |-> TRUE, leads |-> n \in leads,
                                      lsn |-> Len(log[n])])
      BY <2>1, <2>2, <3>2 DEF Asks
    <3> HIDE DEF n
    <3>4. PICK a : answers' = Append(answers, a) /\ a.live
      BY <3>3
    <3>5. /\ DOMAIN answers' = 1 .. Len(answers) + 1
          /\ answers'[Len(answers) + 1] = a
          /\ \A i \in 1 .. Len(answers) : answers'[i] = answers[i]
      BY <3>1, <3>4
    <3> QED
      BY <2>1, <3>1, <3>4, <3>5 DEF CalmVerdict
  <2>3. CASE answers' = answers
    BY <2>1, <2>3 DEF CalmVerdict
  <2>4. CASE answers' = << >>
    BY <2>4
  <2>5. Asks \/ answers' = answers \/ answers' = << >>
    BY DEF DriverNext, EnvStep, DriverStep, driverVars, Sampling, Elect, StepsDown,
           Returns, Leaves, LateEntry, LatePut, CountNodes, FindsLeader, Greets,
           FindsNone, Converges, ChooseNodes, Verdict, FetchKey, Concludes,
           BuildOracle, LoadBusiness, LoadEnds, NextReview, SendReview, SkipReview
  <2> QED
    BY <2>2, <2>3, <2>4, <2>5
<1>3. ASSUME faults' = 0, pc' \in {"fetch", "done"} PROVE passed'
  <2>1. faults = 0 /\ ~Fault /\ up = Node
    BY <1>3, CalmBefore DEF CalmNodes
  <2>2. CASE ChooseNodes
    <3>1. Len(answers) = Len(NodeOrder) /\ passed' = (Answered # {})
      BY <2>2 DEF ChooseNodes, AllAnswered
    <3>2. 1 \in DOMAIN answers
      <4>1. answers \in Seq(Answers) /\ NodeOrder \in Seq(Node) /\ NodeOrder # << >>
        BY DriverAssumption DEF DriverInv, PollInv
      <4>2. Len(NodeOrder) >= 1
        BY <4>1
      <4> QED
        BY <3>1, <4>1, <4>2
    <3>3. 1 \in Answered
      BY <2>1, <3>2 DEF Answered, CalmVerdict
    <3> QED
      BY <3>1, <3>3
  <2>3. ASSUME NEW n \in Node, NEW k \in Business, FetchKey(n, k) PROVE passed'
    <3>1. pc = "fetch" /\ <<n, k>> \in unread /\ passed' = (passed /\ Matches(n, k))
      BY <2>1, <2>3 DEF FetchKey
    <3>2. passed /\ k \in Ids
      BY <2>1, <3>1 DEF CalmVerdict
    <3>3. leader \in led
      BY <3>1 DEF LeaderLed, Working, Streaming
    <3>4. Has(leader, k, state[k]) /\ log[n] = log[leader]
      BY <2>1, <3>1, <3>2, <3>3 DEF CalmStores, CalmNodes, Streaming
    <3>5. state[k] = oracle[k]
      <4>1. Streamed = Len(reviews) /\ OracleLines = Len(reviews)
        BY <3>1 DEF Streamed, OracleLines, Streaming, Starting, DriverInv, DriverAccount,
                    PlaceInv
      <4> QED
        BY <4>1 DEF DriverInv, DriverAccount, AccountInv
    <3>6. Has(n, k, oracle[k])
      BY <3>4, <3>5 DEF Has
    <3> QED
      BY <2>1, <3>1, <3>2, <3>6 DEF Matches
  <2>4. CASE pc \in {"fetch", "done"} /\ passed' = passed
    BY <2>1, <2>4 DEF CalmVerdict
  <2>5. \/ ChooseNodes \/ \E n \in Node, k \in Business : FetchKey(n, k)
        \/ pc \in {"fetch", "done"} /\ passed' = passed
    <3>1. CASE EnvStep \/ UNCHANGED driverVars
      BY <1>3, <3>1
         DEF EnvStep, driverVars, Elect, StepsDown, Returns, Leaves, LateEntry, LatePut
    <3>2. CASE DriverStep
      BY <1>3, <3>2
         DEF DriverStep, Sampling, Asks, CountNodes, FindsLeader, Greets, FindsNone,
             Converges, Verdict, Concludes, BuildOracle, LoadBusiness, LoadEnds,
             NextReview, SendReview, SkipReview
    <3> QED
      BY <3>1, <3>2 DEF DriverNext
  <2> QED
    BY <2>2, <2>3, <2>4, <2>5
<1> QED
  BY <1>1, <1>2, <1>3 DEF CalmVerdict

(* A run in which nothing fails passes: every PUT is confirmed by every    *)
(* node, and verify finds the oracle's values at all of them.              *)
THEOREM CalmRunsPass == DriverSpec => []CalmRunPasses
<1>1. DriverInv /\ DriverInv' /\ CalmInv /\ [DriverNext]_driverVars => CalmInv'
  BY LeaderLedStep, CalmNodesStep, CalmStoresStep, CalmVerdictStep DEF CalmInv
<1>2. CalmInv => CalmRunPasses
  BY DEF CalmInv, CalmVerdict, CalmRunPasses
<1> QED
  BY <1>1, <1>2, CalmInvInit, DriverInvHolds, PTL DEF DriverSpec

-----------------------------------------------------------------------------
(* The driver's way to its end.                                            *)
RankInv ==
  /\ pc = "count" => tries = 0
  /\ pc \in {"seek", "converge"} => tries <= MaxPolls
  /\ IsFiniteSet(unread)

LEMMA RankInvInit == DriverInit => RankInv
BY DriverAssumption, FS_EmptySet DEF DriverInit, RankInv

\* verify reads finitely many keys.
LEMMA UnreadIsFinite ==
  ASSUME SampleInv, NEW S \in SUBSET Node
  PROVE  IsFiniteSet(S \X Ids)
<1>1. IsFiniteSet(Ids)
  <2>1. businesses \in Surjection(DOMAIN businesses, Ids)
    <3>1. businesses \in Seq(Business) /\ DOMAIN businesses = 1 .. Len(businesses)
      BY DEF SampleInv
    <3>2. businesses \in [DOMAIN businesses -> Ids]
      BY <3>1 DEF Ids
    <3> QED
      BY <3>2 DEF Surjection, Ids
  <2>2. IsFiniteSet(DOMAIN businesses)
    <3>1. businesses \in Seq(Business)
      BY DEF SampleInv
    <3>2. DOMAIN businesses = 1 .. Len(businesses) /\ Len(businesses) \in Nat
      BY <3>1
    <3> QED
      BY <3>2, FS_Interval
  <2> QED
    BY <2>1, <2>2, FS_Surjection
<1>2. IsFiniteSet(S)
  BY DriverAssumption, FS_Subset
<1> QED
  BY <1>1, <1>2, FS_Product

LEMMA RankInvStep ==
  ASSUME DriverInv, RankInv, [DriverNext]_driverVars
  PROVE  RankInv'
<1>1. CASE EnvStep \/ UNCHANGED driverVars
  BY <1>1 DEF EnvStep, driverVars, Elect, StepsDown, Returns, Leaves, LateEntry,
              LatePut, RankInv
<1>2. CASE FindsNone \/ Converges
  <2>1. tries \in Nat /\ MaxPolls \in Nat
    BY DriverAssumption DEF DriverInv, PollInv
  <2> QED
    BY <1>2, <2>1 DEF FindsNone, Converges, Concludes, RankInv
<1>3. CASE ChooseNodes
  <2>1. judged' \in SUBSET Node /\ SampleInv
    BY <1>3, VerifyStep DEF DriverInv, DriverAccount, DriverNext, DriverStep
  <2>2. IsFiniteSet(unread')
    BY <1>3, <2>1, UnreadIsFinite DEF ChooseNodes
  <2> QED
    BY <1>3, <2>2 DEF ChooseNodes, Concludes, RankInv
<1>4. ASSUME NEW n \in Node, NEW k \in Business, FetchKey(n, k) PROVE RankInv'
  <2>1. IsFiniteSet(unread')
    BY <1>4, FS_RemoveElement DEF FetchKey, RankInv
  <2> QED
    BY <1>4, <2>1 DEF FetchKey, RankInv
<1>5. CASE NextReview
  BY <1>5, DriverAssumption DEF NextReview, RankInv
<1>6. CASE CountNodes
  BY <1>6, DriverAssumption DEF CountNodes, Concludes, RankInv
<1>7. CASE \/ Sampling \/ Asks \/ FindsLeader \/ Greets \/ BuildOracle
           \/ LoadBusiness \/ LoadEnds \/ SendReview \/ SkipReview \/ Verdict
  BY <1>7
     DEF Sampling, Asks, FindsLeader, Greets, BuildOracle, LoadBusiness, LoadEnds,
         SendReview, SkipReview, Verdict, Concludes, RankInv
<1> QED
  BY <1>1, <1>2, <1>3, <1>4, <1>5, <1>6, <1>7 DEF DriverNext, DriverStep

\* One of the four numbers falls, and those before it stay.
LEMMA LowerCases ==
  ASSUME NEW a, NEW b, NEW c, NEW d, NEW u, NEW v, NEW w, NEW x,
         \/ a < u
         \/ a = u /\ b < v
         \/ a = u /\ b = v /\ c < w
         \/ a = u /\ b = v /\ c = w /\ d < x
  PROVE  Lower(<<a, b, c, d>>, <<u, v, w, x>>)
<1>1. CASE a < u
  BY <1>1 DEF Lower
<1>2. CASE a = u /\ b < v
  <2>1. 2 \in 1 .. 4 /\ \A j \in 1 .. 2 - 1 : j = 1
    OBVIOUS
  <2> QED
    BY <1>2, <2>1 DEF Lower
<1>3. CASE a = u /\ b = v /\ c < w
  <2>1. 3 \in 1 .. 4 /\ \A j \in 1 .. 3 - 1 : j = 1 \/ j = 2
    OBVIOUS
  <2> QED
    BY <1>3, <2>1 DEF Lower
<1>4. CASE a = u /\ b = v /\ c = w /\ d < x
  <2>1. 4 \in 1 .. 4 /\ \A j \in 1 .. 4 - 1 : j = 1 \/ j = 2 \/ j = 3
    OBVIOUS
  <2> QED
    BY <1>4, <2>1 DEF Lower
<1> QED
  BY <1>1, <1>2, <1>3, <1>4

\* What the numbers are made of.
LEMMA DistanceTypes ==
  ASSUME DriverInv, RankInv
  PROVE  /\ Len(RawBusinesses) - read \in Nat
         /\ Stage[pc] \in Nat /\ LinesLeft \in Nat
         /\ TriesLeft \in Nat /\ CallsLeft \in Nat
         /\ pc \in {"send", "return"} => TriesLeft >= 1
         /\ pc \in {"count", "seek", "return", "converge", "health"} =>
              CallsLeft >= 1
         /\ pc = "fetch" => Cardinality(unread) \in Nat
         /\ pos \in Nat /\ tries \in Nat
         /\ MaxPolls \in Nat /\ MaxRetries \in Nat
         /\ Len(answers) \in Nat /\ Len(NodeOrder) \in Nat
         /\ Len(reviews) \in Nat /\ Len(businesses) \in Nat
         /\ Len(answers) <= Len(NodeOrder)
<1>1. /\ pc \in Streaming \cup Starting \cup {"oracle", "load"}
      /\ pos \in Nat /\ tries \in Nat
      /\ MaxPolls \in Nat /\ MaxRetries \in Nat
      /\ pc \in {"send", "return"} => tries <= MaxRetries + 1
      /\ pc \in {"seek", "converge"} => tries <= MaxPolls
  BY DriverAssumption DEF DriverInv, DriverAccount, PlaceInv, PollInv, RankInv
<1>2. Len(RawBusinesses) - read \in Nat
  <2>1. Len(RawBusinesses) \in Nat /\ read \in 0 .. Len(RawBusinesses)
    BY SampleAssumption DEF DriverInv, DriverAccount, SampleInv
  <2> QED
    BY <2>1
<1>3. /\ Len(reviews) \in Nat /\ Len(businesses) \in Nat
      /\ Len(answers) \in Nat /\ Len(NodeOrder) \in Nat
      /\ Len(answers) <= Len(NodeOrder)
  <2>1. /\ reviews \in Seq(Reviews) /\ businesses \in Seq(Business)
        /\ answers \in Seq(Answers) /\ NodeOrder \in Seq(Node)
        /\ Len(answers) <= Len(NodeOrder)
    BY DriverAssumption DEF DriverInv, DriverAccount, SampleInv, PollInv
  <2> QED
    BY <2>1
<1>4. IF pc = "load" THEN pos <= Len(businesses) ELSE pos <= Len(reviews)
  BY <1>1, <1>3 DEF DriverInv, DriverAccount, PlaceInv, Streaming, Starting
<1>5. LinesLeft \in Nat
  BY <1>1, <1>3, <1>4 DEF LinesLeft
<1>6. Stage[pc] \in Nat
  BY <1>1 DEF Stage, Streaming, Starting
<1>7. TriesLeft \in Nat /\ (pc \in {"send", "return"} => TriesLeft >= 1)
  BY <1>1 DEF TriesLeft
<1>8. Cardinality(unread) \in Nat
  BY FS_CardinalityType DEF RankInv
<1>9. /\ CallsLeft \in Nat
      /\ pc \in {"count", "seek", "return", "converge", "health"} => CallsLeft >= 1
  BY <1>3, <1>8 DEF CallsLeft
<1> QED
  BY <1>1, <1>2, <1>3, <1>5, <1>6, <1>7, <1>8, <1>9

\* The polls of the nodes, in preflight, after a failed PUT, in
\* wait_convergence and in verify.
LEMMA PollsAdvance ==
  ASSUME DriverInv, RankInv, sampled,
         Asks \/ CountNodes \/ FindsLeader \/ FindsNone \/ Converges \/ ChooseNodes
  PROVE  Lower(Distance', Distance)
<1>1. /\ Stage[pc] \in Nat /\ LinesLeft \in Nat /\ TriesLeft \in Nat
      /\ CallsLeft \in Nat
      /\ pc \in {"send", "return"} => TriesLeft >= 1
      /\ pc \in {"count", "seek", "return", "converge", "health"} =>
           CallsLeft >= 1
      /\ pos \in Nat /\ tries \in Nat
      /\ MaxPolls \in Nat /\ MaxRetries \in Nat
      /\ Len(answers) \in Nat /\ Len(NodeOrder) \in Nat
      /\ Len(reviews) \in Nat /\ Len(businesses) \in Nat
      /\ Len(answers) <= Len(NodeOrder)
  BY DistanceTypes
<1>2. /\ sampled' = sampled /\ reviews' = reviews /\ businesses' = businesses
      /\ pos' = pos
  BY DEF Asks, CountNodes, FindsLeader, FindsNone, Converges, ChooseNodes,
         Concludes
<1>3. /\ Distance = <<Stage[pc], LinesLeft, TriesLeft, CallsLeft>>
      /\ Distance' = <<Stage[pc'], LinesLeft', TriesLeft', CallsLeft'>>
  BY <1>2 DEF Distance
<1>4. CASE Asks
  <2>1. /\ pc' = pc /\ tries' = tries /\ Len(answers') = Len(answers) + 1
        /\ pc \in {"count", "seek", "return", "converge", "health"}
    <3>1. answers \in Seq(Answers)
      BY DEF DriverInv, PollInv
    <3>2. \E a : answers' = Append(answers, a)
      BY <1>4 DEF Asks
    <3>3. Len(answers') = Len(answers) + 1
      BY <3>1, <3>2
    <3> QED
      BY <1>4, <3>3 DEF Asks
  <2>2. LinesLeft' = LinesLeft /\ TriesLeft' = TriesLeft
    BY <1>2, <2>1 DEF LinesLeft, TriesLeft
  <2>3. CallsLeft' < CallsLeft
    <3>1. /\ CallsLeft = Len(NodeOrder) - Len(answers) + 1
          /\ CallsLeft' = Len(NodeOrder) - Len(answers') + 1
      BY <2>1 DEF CallsLeft
    <3> QED
      BY <1>1, <2>1, <3>1
  <2> QED
    BY <1>3, <2>1, <2>2, <2>3, LowerCases
<1>5. CASE \/ CountNodes \/ ChooseNodes
           \/ Converges /\ pc' = "health"
           \/ FindsNone /\ pc' = "aborted"
           \/ FindsLeader /\ pc' = "greet"
  <2>1. Stage[pc'] < Stage[pc]
    <3>1. CASE CountNodes
      BY <3>1 DEF CountNodes, Concludes, Stage
    <3>2. CASE Converges /\ pc' = "health"
      BY <3>2 DEF Converges, Stage
    <3>3. CASE ChooseNodes
      BY <3>3 DEF ChooseNodes, Concludes, Stage
    <3>4. CASE FindsNone /\ pc' = "aborted"
      BY <3>4 DEF FindsNone, Stage
    <3>5. CASE FindsLeader /\ pc' = "greet"
      BY <3>5 DEF FindsLeader, Concludes, Stage
    <3> QED
      BY <1>5, <3>1, <3>2, <3>3, <3>4, <3>5
  <2> QED
    BY <1>3, <2>1, LowerCases
<1>6. CASE (FindsLeader \/ FindsNone) /\ pc = "return" /\ pc' = "send"
  <2>1. tries' = tries
    BY <1>6 DEF FindsLeader, FindsNone
  <2>2. LinesLeft' = LinesLeft /\ TriesLeft' = TriesLeft /\ CallsLeft' = 0
    BY <1>2, <1>6, <2>1 DEF LinesLeft, TriesLeft, CallsLeft
  <2>3. Stage[pc'] = Stage[pc]
    BY <1>6 DEF Stage
  <2>4. CallsLeft' < CallsLeft
    BY <1>1, <1>6, <2>2
  <2> QED
    BY <1>3, <2>2, <2>3, <2>4, LowerCases
<1>7. CASE /\ \/ FindsNone /\ pc = "seek"
              \/ Converges
           /\ pc' = pc
  <2>1. tries' = tries + 1 /\ tries < MaxPolls /\ pc \in {"seek", "converge"}
    <3>1. CASE FindsNone /\ pc = "seek"
      BY <1>7, <3>1 DEF FindsNone, Concludes
    <3>2. CASE Converges
      BY <1>7, <3>2 DEF Converges, Concludes
    <3> QED
      BY <1>7, <3>1, <3>2
  <2>2. LinesLeft' = LinesLeft
    BY <1>2, <1>7 DEF LinesLeft
  <2>3. TriesLeft' < TriesLeft
    <3>1. TriesLeft = MaxPolls - tries /\ TriesLeft' = MaxPolls - tries'
      BY <1>7, <2>1 DEF TriesLeft
    <3> QED
      BY <1>1, <2>1, <3>1
  <2> QED
    BY <1>3, <1>7, <2>2, <2>3, LowerCases
<1>8. /\ FindsLeader => \/ pc' = "greet"
                        \/ pc = "return" /\ pc' = "send"
      /\ FindsNone => \/ pc' = "aborted"
                      \/ pc = "return" /\ pc' = "send"
                      \/ pc = "seek" /\ pc' = pc
      /\ Converges => pc' = "health" \/ pc' = pc
  BY DEF FindsLeader, FindsNone, Converges, Concludes
<1> QED
  BY <1>4, <1>5, <1>6, <1>7, <1>8

\* The lines of the files, and the attempts at a PUT.
LEMMA LinesAdvance ==
  ASSUME DriverInv, RankInv, sampled,
         \/ Greets \/ BuildOracle \/ LoadBusiness \/ LoadEnds
         \/ NextReview \/ SendReview \/ SkipReview
  PROVE  Lower(Distance', Distance)
<1>1. /\ Stage[pc] \in Nat /\ LinesLeft \in Nat /\ TriesLeft \in Nat
      /\ CallsLeft \in Nat
      /\ pc \in {"send", "return"} => TriesLeft >= 1
      /\ pos \in Nat /\ tries \in Nat
      /\ MaxPolls \in Nat /\ MaxRetries \in Nat
      /\ Len(answers) \in Nat /\ Len(NodeOrder) \in Nat
      /\ Len(reviews) \in Nat /\ Len(businesses) \in Nat
  BY DistanceTypes
<1>2. sampled' = sampled /\ reviews' = reviews /\ businesses' = businesses
  BY DEF Greets, BuildOracle, LoadBusiness, LoadEnds, NextReview, SendReview,
         SkipReview
<1>3. /\ Distance = <<Stage[pc], LinesLeft, TriesLeft, CallsLeft>>
      /\ Distance' = <<Stage[pc'], LinesLeft', TriesLeft', CallsLeft'>>
  BY <1>2 DEF Distance
<1>4. CASE Stage[pc'] < Stage[pc]
  BY <1>3, <1>4, LowerCases
<1>5. ASSUME Stage[pc'] = Stage[pc], pos' = pos + 1,
             pc' = "load" <=> pc = "load"
      PROVE  Lower(Distance', Distance)
  <2>1. LinesLeft' < LinesLeft
    BY <1>1, <1>2, <1>5 DEF LinesLeft
  <2> QED
    BY <1>3, <1>5, <2>1, LowerCases
<1>6. ASSUME pc = "send", pc' \in {"next", "send", "return"}, pos' = pos,
             TriesLeft' < TriesLeft
      PROVE  Lower(Distance', Distance)
  <2>1. LinesLeft' = LinesLeft /\ Stage[pc'] = Stage[pc]
    BY <1>2, <1>6 DEF LinesLeft, Stage
  <2> QED
    BY <1>3, <1>6, <2>1, LowerCases
<1>7. CASE Greets
  <2>1. Stage[pc'] < Stage[pc]
    BY <1>7 DEF Greets, Stage
  <2> QED
    BY <1>4, <2>1
<1>8. CASE BuildOracle
  <2>1. CASE pos < Len(reviews)
    BY <1>5, <1>8, <2>1 DEF BuildOracle
  <2>2. CASE ~(pos < Len(reviews))
    <3>1. Stage[pc'] < Stage[pc]
      BY <1>8, <2>2 DEF BuildOracle, Stage
    <3> QED
      BY <1>4, <3>1
  <2> QED
    BY <2>1, <2>2
<1>9. CASE LoadBusiness
  BY <1>5, <1>9 DEF LoadBusiness
<1>10. CASE LoadEnds
  <2>1. Stage[pc'] < Stage[pc]
    BY <1>10 DEF LoadEnds, Stage
  <2> QED
    BY <1>4, <2>1
<1>11. CASE NextReview
  <2>1. CASE pos < Len(reviews)
    <3>1. pc = "next" /\ pc' \in {"send", "next"} /\ pos' = pos + 1
      BY <1>11, <2>1 DEF NextReview
    <3>2. Stage[pc'] = Stage[pc]
      BY <3>1 DEF Stage
    <3> QED
      BY <1>5, <3>1, <3>2
  <2>2. CASE ~(pos < Len(reviews))
    <3>1. Stage[pc'] < Stage[pc]
      BY <1>11, <2>2 DEF NextReview, Stage
    <3> QED
      BY <1>4, <3>1
  <2> QED
    BY <2>1, <2>2
<1>12. CASE SendReview
  <2>1. /\ pc = "send" /\ pos' = pos /\ tries <= MaxRetries
        /\ \/ pc' = "next" /\ tries' = tries
           \/ pc' \in {"return", "send"} /\ tries' = tries + 1
    BY <1>12 DEF SendReview, MayRetry, Counts
  <2>2. TriesLeft' < TriesLeft
    <3>1. TriesLeft = MaxRetries + 2 - tries
      BY <2>1 DEF TriesLeft
    <3>2. CASE pc' = "next"
      <4>1. TriesLeft' = 0
        BY <3>2 DEF TriesLeft
      <4> QED
        BY <1>1, <2>1, <3>1, <4>1
    <3>3. CASE pc' \in {"return", "send"} /\ tries' = tries + 1
      <4>1. TriesLeft' = MaxRetries + 2 - tries'
        BY <3>3 DEF TriesLeft
      <4> QED
        BY <1>1, <3>1, <3>3, <4>1
    <3> QED
      BY <2>1, <3>2, <3>3
  <2> QED
    BY <1>6, <2>1, <2>2
<1>13. CASE SkipReview
  <2>1. pc = "send" /\ pc' = "next" /\ pos' = pos
    BY <1>13 DEF SkipReview
  <2>2. TriesLeft' < TriesLeft
    <3>1. TriesLeft' = 0 /\ TriesLeft >= 1
      BY <1>1, <2>1 DEF TriesLeft
    <3> QED
      BY <1>1, <3>1
  <2> QED
    BY <1>6, <2>1, <2>2
<1> QED
  BY <1>7, <1>8, <1>9, <1>10, <1>11, <1>12, <1>13

\* The sampling, and what verify reads.
LEMMA SamplingAdvances ==
  ASSUME DriverInv, RankInv, Sampling
  PROVE  Lower(Distance', Distance)
<1>1. Len(RawBusinesses) \in Nat /\ read \in Nat /\ ~sampled /\ pc = "count"
  BY SampleAssumption
     DEF Sampling, SampleStep, DrawBusiness, WriteSample, DriverInv,
         DriverAccount, SampleInv, PlaceInv
<1>2. Distance = <<10, Len(RawBusinesses) - read, 0, 0>>
  BY <1>1 DEF Distance
<1>3. CASE DrawBusiness
  <2>1. /\ Distance' = <<10, Len(RawBusinesses) - (read + 1), 0, 0>>
        /\ Len(RawBusinesses) - (read + 1) < Len(RawBusinesses) - read
    BY <1>1, <1>3 DEF DrawBusiness, Distance
  <2> QED
    BY <1>2, <2>1, LowerCases
<1>4. CASE WriteSample
  <2>1. Distance' = <<9, LinesLeft', TriesLeft', CallsLeft'>>
    BY <1>1, <1>4 DEF Sampling, WriteSample, Distance, Stage
  <2> QED
    BY <1>2, <2>1, LowerCases
<1> QED
  BY <1>3, <1>4 DEF Sampling, SampleStep

LEMMA VerifyAdvances ==
  ASSUME DriverInv, RankInv, sampled,
         Verdict \/ \E n \in Node, k \in Business : FetchKey(n, k)
  PROVE  Lower(Distance', Distance)
<1>1. CASE Verdict
  <2>1. Distance = <<1, LinesLeft, TriesLeft, CallsLeft>>
    BY <1>1 DEF Verdict, Distance, Stage
  <2>2. Distance' = <<0, LinesLeft', TriesLeft', CallsLeft'>>
    BY <1>1 DEF Verdict, Distance, Stage
  <2> QED
    BY <2>1, <2>2, LowerCases
<1>2. ASSUME NEW n \in Node, NEW k \in Business, FetchKey(n, k)
      PROVE  Lower(Distance', Distance)
  <2>1. /\ <<n, k>> \in unread /\ unread' = unread \ {<<n, k>>}
        /\ pc = "fetch" /\ pc' = "fetch"
        /\ UNCHANGED <<sampled, reviews, businesses, pos, tries>>
    BY <1>2 DEF FetchKey
  <2>2. /\ Cardinality(unread') = Cardinality(unread) - 1
        /\ Cardinality(unread) \in Nat
    BY <2>1, FS_RemoveElement, FS_CardinalityType DEF RankInv
  <2>3. CallsLeft' < CallsLeft
    BY <2>1, <2>2 DEF CallsLeft
  <2>4. LinesLeft' = LinesLeft /\ TriesLeft' = TriesLeft
    BY <2>1 DEF LinesLeft, TriesLeft
  <2>5. /\ Distance = <<Stage[pc], LinesLeft, TriesLeft, CallsLeft>>
        /\ Distance' = <<Stage[pc], LinesLeft', TriesLeft', CallsLeft'>>
    BY <2>1 DEF Distance
  <2> QED
    BY <2>3, <2>4, <2>5, LowerCases
<1> QED
  BY <1>1, <1>2

(* Every step of the driver takes it nearer to its end, by a measure that  *)
(* cannot fall for ever, and nothing at the nodes sets it back.            *)
THEOREM EveryStepCounts == DriverSpec => DriverAdvances
<1>1. DriverInit => RankInv
  BY RankInvInit
<1>2. DriverInv /\ RankInv /\ [DriverNext]_driverVars => RankInv'
  BY RankInvStep
<1>3. DriverInv /\ RankInv /\ [DriverNext]_driverVars =>
        [/\ Distance \in Nat \X Nat \X Nat \X Nat
         /\ DriverStep => Lower(Distance', Distance)
         /\ EnvStep => Distance' = Distance]_driverVars
  <2> SUFFICES ASSUME DriverInv, RankInv, [DriverNext]_driverVars
               PROVE  /\ Distance \in Nat \X Nat \X Nat \X Nat
                      /\ DriverStep => Lower(Distance', Distance)
                      /\ EnvStep => Distance' = Distance
    OBVIOUS
  <2>1. Distance \in Nat \X Nat \X Nat \X Nat
    BY DistanceTypes DEF Distance
  <2>2. ASSUME DriverStep PROVE Lower(Distance', Distance)
    BY <2>2, PollsAdvance, LinesAdvance, SamplingAdvances, VerifyAdvances
       DEF DriverStep
  <2>3. ASSUME EnvStep PROVE Distance' = Distance
    <3>1. UNCHANGED envVars
      BY <2>3 DEF EnvStep, Elect, StepsDown, Returns, Leaves, LateEntry, LatePut
    <3> QED
      BY <3>1 DEF Distance, LinesLeft, TriesLeft, CallsLeft
  <2> QED
    BY <2>1, <2>2, <2>3
<1> QED
  BY <1>1, <1>2, <1>3, DriverInvHolds, PTL DEF DriverSpec, DriverAdvances
=============================================================================
