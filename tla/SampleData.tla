----------------------------- MODULE SampleData -----------------------------
(***************************************************************************)
(* scripts/sample_data.py: one pass over the raw businesses fills a        *)
(* reservoir (Algorithm R), one pass over the raw reviews keeps those of   *)
(* the sampled businesses, in the order of their dates and no more than    *)
(* asked for.  That every sample is equally likely is left out: a draw may *)
(* fall anywhere.                                                          *)
(***************************************************************************)
EXTENDS Integers, Sequences, FiniteSets

CONSTANTS
  Business,       \* the ids in the raw files
  RawBusinesses,  \* yelp_academic_dataset_business.json
  RawReviews,     \* yelp_academic_dataset_review.json
  SampleSize,     \* --businesses
  MaxReviews      \* --reviews

Reviews == [business : Business, date : Nat]

ASSUME SampleAssumption ==
  /\ RawBusinesses \in Seq(Business)
  /\ \A i, j \in DOMAIN RawBusinesses :
       RawBusinesses[i] = RawBusinesses[j] => i = j
  /\ RawReviews \in Seq(Reviews)
  /\ SampleSize \in Nat /\ MaxReviews \in Nat

VARIABLES
  read,        \* raw businesses read so far
  businesses,  \* the reservoir, then data/sample/businesses.jsonl
  reviews,     \* data/sample/reviews.jsonl
  sampled      \* are both files written

sampleVars == <<read, businesses, reviews, sampled>>

SampleInit ==
  read = 0 /\ businesses = << >> /\ reviews = << >> /\ sampled = FALSE

-----------------------------------------------------------------------------
FilledOneLate == read > SampleSize
Filled == read >= SampleSize

\* A record fills the reservoir, or replaces a random earlier one, or none.
DrawBusiness ==
  /\ ~sampled /\ read < Len(RawBusinesses)
  /\ read' = read + 1
  /\ LET record == RawBusinesses[read + 1] IN
       IF Filled
       THEN \/ \E j \in DOMAIN businesses :
                 businesses' = [businesses EXCEPT ![j] = record]
            \/ UNCHANGED businesses
       ELSE businesses' = Append(businesses, record)
  /\ UNCHANGED <<reviews, sampled>>

Ids == {businesses[i] : i \in DOMAIN businesses}
Matched == {i \in DOMAIN RawReviews : RawReviews[i].business \in Ids}

\* matched.sort(key=date), which keeps the file's order within a date.
Before(i, j) ==
  \/ RawReviews[i].date < RawReviews[j].date
  \/ RawReviews[i].date = RawReviews[j].date /\ i < j

\* The first reviews in that order, at most MaxReviews: p[i] is where the
\* i-th stands in the raw file.
Chronological(p) ==
  /\ \A i, j \in DOMAIN p : i < j => Before(p[i], p[j])
  /\ \A m \in Matched :
       (\A i \in DOMAIN p : p[i] # m) =>
         Len(p) = MaxReviews /\ \A i \in DOMAIN p : Before(p[i], m)

WriteSample ==
  /\ ~sampled /\ read = Len(RawBusinesses)
  /\ \E k \in 0 .. MaxReviews : \E p \in [1 .. k -> Matched] :
       /\ Chronological(p)
       /\ reviews' = [i \in 1 .. k |-> RawReviews[p[i]]]
  /\ sampled' = TRUE
  /\ UNCHANGED <<read, businesses>>

SampleStep == DrawBusiness \/ WriteSample

-----------------------------------------------------------------------------
(* sample_data.py:2 "a self-consistent subset": as many different          *)
(* businesses as asked for, or all there are; as many of their reviews as  *)
(* asked for, or all; none that is later than one left out.                *)
SampleIsConsistent ==
  sampled =>
    /\ Cardinality(Ids) = Len(businesses)
    /\ Len(businesses) = IF SampleSize < Len(RawBusinesses)
                         THEN SampleSize ELSE Len(RawBusinesses)
    /\ Len(reviews) = IF MaxReviews < Cardinality(Matched)
                      THEN MaxReviews ELSE Cardinality(Matched)
    /\ \A i \in DOMAIN reviews : reviews[i].business \in Ids
    /\ \A i \in DOMAIN reviews, m \in Matched :
         RawReviews[m].date < reviews[i].date =>
           \E j \in DOMAIN reviews : j < i /\ reviews[j] = RawReviews[m]
=============================================================================
