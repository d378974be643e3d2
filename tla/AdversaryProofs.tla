--------------------------- MODULE AdversaryProofs ---------------------------
(***************************************************************************)
(* Theorems about Adversary.tla, for any number of nodes: the agent leaves *)
(* one node running, and never touches a cluster with fewer than two.      *)
(***************************************************************************)
EXTENDS Adversary, FiniteSetTheorems, FunctionTheorems, TLAPS

USE DEF nodeVars, agentVars

\* Between the poll of a node and the end of the round only the agent itself
\* could have taken the node away, and it has not acted yet.
SeenNodesAnswer == pc \in {"poll", "decide"} => Reachable \subseteq Answering

DecidedSafely == pc = "decide" => Cardinality(Reachable) >= SafeCount

AdversaryInv ==
  TypeOK /\ SeenNodesAnswer /\ DecidedSafely /\ SomeNodeAnswers

-----------------------------------------------------------------------------
(* The nodes of the configuration are finitely many, and there is one.     *)
LEMMA NodesFinite == IsFiniteSet(Node) /\ Node # {}
<1>1. /\ Len(NodeOrder) \in Nat /\ Len(NodeOrder) >= 2
      /\ DOMAIN NodeOrder = 1 .. Len(NodeOrder)
      /\ NodeOrder \in [1 .. Len(NodeOrder) -> Node]
  BY OrderAssumption
<1>2. NodeOrder \in Surjection(1 .. Len(NodeOrder), Node)
  BY <1>1 DEF Surjection, Node
<1>3. IsFiniteSet(1 .. Len(NodeOrder))
  BY <1>1, FS_Interval
<1>4. NodeOrder[1] \in Node
  BY <1>1
<1> QED
  BY <1>2, <1>3, <1>4, FS_Surjection

(* Two nodes seen in a round cannot both be the target.                    *)
LEMMA OneIsNotTheTarget ==
  ASSUME NEW S \in SUBSET Node, Cardinality(S) >= 2, NEW t
  PROVE  \E n \in S : n # t
<1> SUFFICES ASSUME S \subseteq {t} PROVE FALSE
  OBVIOUS
<1>1. IsFiniteSet({t}) /\ Cardinality({t}) = 1
  BY FS_Singleton
<1>2. Cardinality(S) <= 1 /\ Cardinality(S) \in Nat
  BY <1>1, FS_Subset, FS_CardinalityType
<1> QED
  BY <1>2

(* A fault takes at most its target away.                                  *)
LEMMA EffectTakesOneNode ==
  ASSUME TypeOK, NEW a, NEW t \in Node, Effect(a, t)
  PROVE  /\ Answering \ {t} \subseteq Answering'
         /\ dead' \subseteq Node /\ paused' \subseteq Node
         /\ cut' \subseteq Node /\ slow' \subseteq Node
         /\ leaders' \subseteq Node
BY DEF TypeOK, Effect, Kill, RestartNode, Pause, Resume, Partition, Heal,
       SetDelay, Answering

(* A decision without the null target has one of the nodes.                *)
LEMMA TargetsAreNodes ==
  ASSUME NEW answer \in Answers, ParseDecision(answer).target # NoNode
  PROVE  ParseDecision(answer).target \in Node
BY DEF ParseDecision, Answers, NoAction

LEMMA AdversaryInvInit == Init => AdversaryInv
<1> SUFFICES ASSUME Init PROVE AdversaryInv
  OBVIOUS
<1>1. Len(NodeOrder) \in Nat
  BY OrderAssumption
<1>2. TypeOK
  <2>1. 1 \in 1 .. Len(NodeOrder) + 1
    BY <1>1
  <2>2. NothingSeen \in [Node -> {"leader", "follower", "unreachable"}]
    BY DEF NothingSeen
  <2> QED
    BY <2>1, <2>2 DEF Init, TypeOK
<1>3. Reachable = {}
  BY DEF Init, Reachable, NothingSeen
<1> QED
  BY <1>2, <1>3, NodesFinite
  DEF Init, AdversaryInv, SeenNodesAnswer, DecidedSafely, SomeNodeAnswers,
      Answering

-----------------------------------------------------------------------------
(* The agent acts only after a check that two nodes of the round still     *)
(* pass; whatever it then does, one of them goes on answering.             *)
LEMMA FaultLeavesANode ==
  ASSUME AdversaryInv, pc = "decide", NEW a, NEW t \in Node, Effect(a, t)
  PROVE  Answering' # {}
<1>1. Reachable \in SUBSET Node /\ Cardinality(Reachable) >= 2
  BY DEF AdversaryInv, DecidedSafely, SafeCount, Reachable
<1>2. PICK n \in Reachable : n # t
  BY <1>1, OneIsNotTheTarget
<1>3. n \in Answering
  BY <1>2 DEF AdversaryInv, SeenNodesAnswer
<1> QED
  BY <1>2, <1>3, EffectTakesOneNode DEF AdversaryInv

LEMMA AdversaryInvStep == AdversaryInv /\ [Next]_vars => AdversaryInv'
<1> SUFFICES ASSUME AdversaryInv, [Next]_vars PROVE AdversaryInv'
  OBVIOUS
<1>0. /\ Len(NodeOrder) \in Nat
      /\ DOMAIN NodeOrder = 1 .. Len(NodeOrder)
  BY OrderAssumption
<1> USE DEF AdversaryInv
<1>1. ASSUME NEW n \in Node, BecomesLeader(n) \/ StepsDown(n)
      PROVE  AdversaryInv'
  BY <1>1 DEF BecomesLeader, StepsDown, TypeOK, SeenNodesAnswer,
     DecidedSafely, SomeNodeAnswers, Reachable, Answering
<1>2. CASE PollNode
  <2>1. NodeOrder[next] \in Node
    BY <1>2 DEF PollNode, Node
  <2>2. TypeOK'
    BY <1>2, <1>0, <2>1 DEF PollNode, TypeOK
  <2>3. SeenNodesAnswer'
    BY <1>2, <2>1
    DEF PollNode, TypeOK, SeenNodesAnswer, Reachable, Answering
  <2> QED
    BY <1>2, <2>2, <2>3
    DEF PollNode, DecidedSafely, SomeNodeAnswers, Answering
<1>3. CASE Check
  BY <1>3 DEF Check, TypeOK, SeenNodesAnswer, DecidedSafely, SomeNodeAnswers,
     Reachable, Answering, SafeToInject
<1>4. CASE NextRound
  BY <1>4, <1>0 DEF NextRound, RoundStart, NothingSeen, TypeOK,
     SeenNodesAnswer, DecidedSafely, SomeNodeAnswers, Reachable, Answering
<1>5. CASE IntervalPasses \/ DecideNothing
  BY <1>5 DEF IntervalPasses, DecideNothing, TypeOK, SeenNodesAnswer,
     DecidedSafely, SomeNodeAnswers, Reachable, Answering
<1>6. ASSUME NEW answer \in Answers, Inject(answer)
      PROVE  AdversaryInv'
  <2>1. /\ ParseDecision(answer).target \in Node
        /\ Effect(ParseDecision(answer).action, ParseDecision(answer).target)
        /\ pc = "decide" /\ pc' = "wait" /\ recent' = TRUE
        /\ UNCHANGED <<next, snapshots>>
    BY <1>6, TargetsAreNodes DEF Inject
  <2>2. Answering' # {}
    BY <2>1, FaultLeavesANode
  <2>3. TypeOK'
    BY <2>1, EffectTakesOneNode DEF TypeOK
  <2> QED
    BY <2>1, <2>2, <2>3
    DEF SeenNodesAnswer, DecidedSafely, SomeNodeAnswers
<1>7. ASSUME NEW answer \in Answers, InjectFails(answer)
      PROVE  AdversaryInv'
  BY <1>7 DEF InjectFails, TypeOK, SeenNodesAnswer, DecidedSafely,
     SomeNodeAnswers, Answering
<1>8. ASSUME NEW answer \in Answers, AgentDies(answer)
      PROVE  AdversaryInv'
  <2>1. /\ pc = "decide" /\ pc' = "stopped"
        /\ UNCHANGED <<next, snapshots, recent>>
        /\ \/ UNCHANGED nodeVars
           \/ /\ ParseDecision(answer).target \in Node
              /\ Effect(ParseDecision(answer).action,
                        ParseDecision(answer).target)
    BY <1>8, TargetsAreNodes DEF AgentDies
  <2>2. Answering' # {}
    BY <2>1, FaultLeavesANode DEF SomeNodeAnswers, Answering
  <2>3. TypeOK'
    BY <2>1, EffectTakesOneNode DEF TypeOK
  <2> QED
    BY <2>1, <2>2, <2>3
    DEF SeenNodesAnswer, DecidedSafely, SomeNodeAnswers
<1>9. CASE UNCHANGED vars
  BY <1>9 DEF vars, TypeOK, SeenNodesAnswer, DecidedSafely, SomeNodeAnswers,
     Reachable, Answering
<1> QED
  BY <1>1, <1>2, <1>3, <1>4, <1>5, <1>6, <1>7, <1>8, <1>9 DEF Next

(* The inductive invariant of the agent and the nodes it sees.             *)
THEOREM AdversaryInvariant == Spec => []AdversaryInv
<1>1. Init => AdversaryInv
  BY AdversaryInvInit
<1>2. AdversaryInv /\ [Next]_vars => AdversaryInv'
  BY AdversaryInvStep
<1> QED
  BY <1>1, <1>2, PTL DEF Spec

(* Type correctness.                                                       *)
THEOREM AdversaryTypeCorrect == Spec => []TypeOK
<1>1. AdversaryInv => TypeOK
  BY DEF AdversaryInv
<1> QED
  BY <1>1, AdversaryInvariant, PTL

(* One node always answers: the last one is never taken away.              *)
THEOREM LastNodeIsSafe == Spec => []SomeNodeAnswers
<1>1. AdversaryInv => SomeNodeAnswers
  BY DEF AdversaryInv
<1> QED
  BY <1>1, AdversaryInvariant, PTL

(* Where fewer than two nodes answer, the agent changes nothing any more,  *)
(* and so the damage stays.                                                *)
THEOREM DamageStays == Spec => DamageIsFinal
<1>1. AdversaryInv /\ [Next]_vars =>
        [Cardinality(Answering) < SafeCount =>
           UNCHANGED <<dead, paused, cut, slow>>]_vars
  <2> SUFFICES ASSUME AdversaryInv, Next,
                      Cardinality(Answering) < SafeCount
               PROVE  UNCHANGED <<dead, paused, cut, slow>>
    OBVIOUS
  <2>1. pc # "decide"
    <3> SUFFICES ASSUME pc = "decide" PROVE FALSE
      OBVIOUS
    <3>1. Reachable \subseteq Answering /\ Cardinality(Reachable) >= SafeCount
      BY DEF AdversaryInv, SeenNodesAnswer, DecidedSafely
    <3>2. IsFiniteSet(Answering)
      BY NodesFinite, FS_Subset DEF Answering
    <3>3. /\ Cardinality(Reachable) <= Cardinality(Answering)
          /\ Cardinality(Reachable) \in Nat
          /\ Cardinality(Answering) \in Nat
      BY <3>1, <3>2, FS_Subset, FS_CardinalityType
    <3> QED
      BY <3>1, <3>3 DEF SafeCount
  <2> QED
    BY <2>1 DEF Next, BecomesLeader, StepsDown, PollNode, Check, NextRound,
       IntervalPasses, DecideNothing, Inject, InjectFails, AgentDies
<1> QED
  BY <1>1, AdversaryInvariant, PTL DEF Spec, DamageIsFinal
=============================================================================
