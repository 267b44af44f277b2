----------------------- MODULE EvaluationGatesProofs ------------------------
(***************************************************************************)
(* The verdict of EvaluationGates follows the gates, for every number of   *)
(* gates and metrics and every set of values.  The invariant adds where a  *)
(* decision comes from: some gate the iterator has passed.                 *)
(***************************************************************************)
EXTENDS EvaluationGates, WellFoundedInduction, TLAPS

USE GatesAssumption

\* Every decision is that of a gate already evaluated.
DecisionsComeFromGates == \A n \in DOMAIN decisions :
    \E i \in 1..(next - 1) : gates[i].metric = n /\ (decisions[n] <=> Met(gates[i]))

\* What finish_run read when it decided.
VerdictReadsAllDecisions ==
    /\ status # "Running" => next = Len(gates) + 1
    /\ status = "Failed" => \E n \in DOMAIN decisions : ~decisions[n]
    /\ status = "Succeeded" => \A n \in DOMAIN decisions : decisions[n]

IInv == TypeOK /\ DecisionsComeFromGates /\ VerdictReadsAllDecisions

-----------------------------------------------------------------------------

\* A set of positions that is not empty has a first one: find() returns it.
LEMMA FirstExists ==
    ASSUME NEW T, T \subseteq Nat, T # {}
    PROVE  \E i \in T : \A j \in T : i <= j
<1> DEFINE Less == {ss \in Nat \X Nat : ss[1] < ss[2]}
<1>1. IsWellFoundedOn(Less, Nat)
  BY NatLessThanWellFounded, Zenon DEF OpToRel
<1>2. PICK x \in T : \A y \in T : <<y, x>> \notin Less
  BY <1>1, WFMin, Zenon
<1>3. \A y \in T : ~(y < x)
  BY <1>2
<1> QED BY <1>3

\* evaluate() computes what the gate asks.
LEMMA EvaluateIsMet ==
    ASSUME NEW gate \in EvaluationGate, metrics \in Seq(Metric)
    PROVE  Evaluate(gate) <=> Met(gate)
<1> DEFINE N == Named(gate.metric)
<1>1. N \subseteq Nat /\ \A i \in N : i \in DOMAIN metrics /\ metrics[i] \in Metric
  BY DEF Named
<1>2. CASE N = {}
  <2>1. ~Evaluate(gate)
    BY <1>2 DEF Evaluate
  <2>2. ~Met(gate)
    BY <1>2 DEF Met, Named
  <2> QED BY <2>1, <2>2
<1>3. CASE N # {}
  <2> DEFINE o == Observed(gate.metric)
  <2>1. o \in N /\ \A j \in N : o <= j
    <3>1. \E i \in N : \A j \in N : i <= j
      BY <1>1, <1>3, FirstExists
    <3> QED BY <3>1 DEF Observed
  <2>2. \A i \in N : (\A j \in N : i <= j) => i = o
    BY <1>1, <2>1
  <2>3. Met(gate) <=> Holds(metrics[o].value, gate)
    <3>1. Met(gate) <=>
            /\ metrics[o].value # NaN /\ gate.threshold # NaN
            /\ IF gate.direction = "AtLeast" THEN metrics[o].value >= gate.threshold
                                             ELSE metrics[o].value <= gate.threshold
      BY <2>1, <2>2, <1>1 DEF Met, Named
    <3>2. gate.direction \in {"AtLeast", "AtMost"}
      BY DEF EvaluationGate
    <3> QED BY <3>1, <3>2 DEF Holds
  <2> QED BY <2>3, <1>3 DEF Evaluate
<1> QED BY <1>2, <1>3

\* Whether a gate is met depends on the metrics only.
LEMMA MetUnchanged ==
    ASSUME UNCHANGED <<gates, metrics, next, decisions>>, DecisionsComeFromGates
    PROVE  DecisionsComeFromGates'
<1>1. gates' = gates /\ metrics' = metrics /\ next' = next /\ decisions' = decisions
  OBVIOUS
<1>2. \A i : Met(gates[i])' <=> Met(gates[i])
  BY <1>1 DEF Met
<1> QED BY <1>1, <1>2 DEF DecisionsComeFromGates

LEMMA EvaluateType == \A gate : Evaluate(gate) \in BOOLEAN
BY DEF Evaluate, Holds

-----------------------------------------------------------------------------

LEMMA InitIInv == Init => IInv
<1> SUFFICES ASSUME Init PROVE IInv
  OBVIOUS
<1>1. gates \in Seq(EvaluationGate) /\ metrics \in Seq(Metric)
  BY DEF Init
<1>2. 1..(next - 1) = {} /\ DOMAIN decisions = {}
  BY DEF Init
<1>3. decisions \in [{gates[i].metric : i \in 1..(next - 1)} -> BOOLEAN]
  BY <1>2 DEF Init
<1> QED BY <1>1, <1>2, <1>3 DEF Init, IInv, TypeOK, DecisionsComeFromGates, VerdictReadsAllDecisions

LEMMA EvaluateNextIInv ==
    ASSUME IInv, EvaluateNext
    PROVE  IInv'
<1> USE DEF IInv
<1> DEFINE g == gates[next]
           Before == {gates[i].metric : i \in 1..(next - 1)}
<1>1. next \in 1..Len(gates) /\ g \in EvaluationGate /\ status = "Running"
  BY DEF EvaluateNext, TypeOK, VerdictReadsAllDecisions
<1>2. next' = next + 1 /\ gates' = gates /\ metrics' = metrics /\ status' = status
  BY DEF EvaluateNext
<1>3. /\ DOMAIN decisions' = DOMAIN decisions \union {g.metric}
      /\ decisions'[g.metric] \in BOOLEAN
      /\ decisions'[g.metric] <=> Met(g)
      /\ \A n \in DOMAIN decisions : n # g.metric => decisions'[n] = decisions[n]
      /\ decisions' = [n \in DOMAIN decisions' |-> decisions'[n]]
  <2>1. /\ DOMAIN decisions' = DOMAIN decisions \union {g.metric}
        /\ decisions'[g.metric] = Evaluate(g)
        /\ \A n \in DOMAIN decisions : n # g.metric => decisions'[n] = decisions[n]
        /\ decisions' = [n \in DOMAIN decisions' |-> decisions'[n]]
    BY Zenon DEF EvaluateNext
  <2>2. Evaluate(g) <=> Met(g)
    BY <1>1, EvaluateIsMet DEF TypeOK
  <2>3. Evaluate(g) \in BOOLEAN
    BY EvaluateType
  <2> QED BY <2>1, <2>2, <2>3
<1>4. 1..(next' - 1) = (1..(next - 1)) \union {next}
  BY <1>1, <1>2
<1>5. TypeOK'
  <2>1. DOMAIN decisions = Before /\ \A n \in Before : decisions[n] \in BOOLEAN
    BY DEF TypeOK
  <2>2. {gates'[i].metric : i \in 1..(next' - 1)} = Before \union {g.metric}
    BY <1>2, <1>4
  <2>3. \A n \in DOMAIN decisions' : decisions'[n] \in BOOLEAN
    BY <2>1, <1>3
  <2>4. decisions' \in [{gates'[i].metric : i \in 1..(next' - 1)} -> BOOLEAN]
    BY <2>1, <2>2, <2>3, <1>3
  <2>5. next' \in 1..(Len(gates') + 1)
    BY <1>1, <1>2 DEF TypeOK
  <2> QED BY <2>4, <2>5, <1>2 DEF TypeOK
<1>6. DecisionsComeFromGates'
  <2> SUFFICES ASSUME NEW n \in DOMAIN decisions'
               PROVE  \E i \in 1..(next' - 1) : gates[i].metric = n
                          /\ (decisions'[n] <=> Met(gates[i]))
    BY <1>2 DEF DecisionsComeFromGates, Met
  <2>1. CASE n = g.metric
    BY <2>1, <1>3, <1>4
  <2>2. CASE n # g.metric
    BY <2>2, <1>3, <1>4 DEF DecisionsComeFromGates
  <2> QED BY <2>1, <2>2
<1>7. VerdictReadsAllDecisions'
  BY <1>1, <1>2 DEF VerdictReadsAllDecisions
<1> QED BY <1>5, <1>6, <1>7

LEMMA FinishRunIInv ==
    ASSUME IInv, FinishRun
    PROVE  IInv'
<1> USE DEF IInv
<1>1. /\ UNCHANGED <<gates, metrics, next, decisions>>
      /\ next = Len(gates) + 1
      /\ status' = IF \A n \in DOMAIN decisions : decisions[n] THEN "Succeeded" ELSE "Failed"
  BY DEF FinishRun, TypeOK
<1>2. TypeOK' /\ VerdictReadsAllDecisions'
  BY <1>1 DEF TypeOK, VerdictReadsAllDecisions
<1>3. DecisionsComeFromGates'
  BY <1>1, MetUnchanged
<1> QED BY <1>2, <1>3

LEMMA NextIInv == IInv /\ [Next]_vars => IInv'
<1> SUFFICES ASSUME IInv, [Next]_vars PROVE IInv'
  OBVIOUS
<1>1. CASE EvaluateNext
  BY <1>1, EvaluateNextIInv
<1>2. CASE FinishRun
  BY <1>2, FinishRunIInv
<1>3. CASE UNCHANGED vars
  <2>1. TypeOK' /\ VerdictReadsAllDecisions'
    BY <1>3 DEF vars, IInv, TypeOK, VerdictReadsAllDecisions
  <2> QED BY <2>1, <1>3, MetUnchanged DEF vars, IInv
<1> QED BY <1>1, <1>2, <1>3 DEF Next

\* A decision that fails is a gate that is not met; where every gate has a metric
\* of its own, its decision is the one in the map.
LEMMA VerdictFromIInv == IInv => VerdictFollowsGates
<1> SUFFICES ASSUME IInv PROVE VerdictFollowsGates
  OBVIOUS
<1> USE DEF IInv
<1>1. ASSUME status = "Failed" PROVE \E i \in DOMAIN gates : ~Met(gates[i])
  <2>1. PICK n \in DOMAIN decisions : ~decisions[n]
    BY <1>1 DEF VerdictReadsAllDecisions
  <2>2. PICK i \in 1..(next - 1) : gates[i].metric = n /\ (decisions[n] <=> Met(gates[i]))
    BY <2>1 DEF DecisionsComeFromGates
  <2>3. i \in DOMAIN gates
    BY <2>2 DEF TypeOK
  <2> QED BY <2>1, <2>2, <2>3
<1>2. ASSUME status = "Succeeded", OneGatePerMetric, NEW i \in DOMAIN gates
      PROVE  Met(gates[i])
  <2>1. i \in 1..(next - 1)
    BY <1>2 DEF VerdictReadsAllDecisions, TypeOK
  <2>2. gates[i].metric \in DOMAIN decisions
    BY <2>1 DEF TypeOK
  <2>3. PICK j \in 1..(next - 1) :
            gates[j].metric = gates[i].metric /\ (decisions[gates[i].metric] <=> Met(gates[j]))
    BY <2>2 DEF DecisionsComeFromGates
  <2>4. j = i
    <3>1. j \in DOMAIN gates
      BY <2>3 DEF TypeOK
    <3> QED BY <3>1, <2>3, <1>2 DEF OneGatePerMetric
  <2> QED BY <1>2, <2>2, <2>3, <2>4 DEF VerdictReadsAllDecisions
<1> QED BY <1>1, <1>2 DEF VerdictFollowsGates

THEOREM Invariant == Spec => []IInv
BY InitIInv, NextIInv, PTL DEF Spec

\* The map of decisions has one entry per metric name of the gates evaluated.
THEOREM TypeCorrect == Spec => []TypeOK
<1>1. IInv => TypeOK
  BY DEF IInv
<1> QED BY <1>1, Invariant, PTL

\* evaluate_gates and finish_run: the verdict follows the gates, whatever the
\* number of gates and metrics and the numbers in them.
THEOREM VerdictCorrect == Spec => []VerdictFollowsGates
BY VerdictFromIInv, Invariant, PTL
=============================================================================
