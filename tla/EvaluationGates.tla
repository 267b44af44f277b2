-------------------------- MODULE EvaluationGates ---------------------------
(***************************************************************************)
(* evaluate_gates and the verdict finish_run draws from it once every step *)
(* of the run has succeeded.  The decisions are collected in a map keyed   *)
(* by metric name; metric values and thresholds are f64, NaN included.     *)
(***************************************************************************)
EXTENDS Integers, Sequences, FiniteSets

CONSTANTS
    Names,          \* metric names
    Values,         \* the numbers a metric or a threshold takes
    NaN,            \* the f64 that no comparison holds of
    MaxGates,       \* bound: gates of the manifest
    MaxMetrics      \* bound: metrics the worker passes

ASSUME GatesAssumption ==
    /\ Values \subseteq Int /\ NaN \notin Values
    /\ MaxGates \in Nat /\ MaxMetrics \in Nat

Metric == [name : Names, value : Values \union {NaN}]
EvaluationGate == [metric : Names, threshold : Values \union {NaN},
                   direction : {"AtLeast", "AtMost"}]

VARIABLES
    gates,          \* manifest.evaluation_gates
    metrics,        \* the argument of finish_run
    next,           \* the gate the iterator yields next
    decisions,      \* the map of GateDecision::passed by metric name
    status          \* of the run

vars == <<gates, metrics, next, decisions, status>>

Named(name) == {i \in DOMAIN metrics : metrics[i].name = name}

\* Mutant: the last metric of that name.
ObservedLast(name) == CHOOSE i \in Named(name) : \A j \in Named(name) : j <= i

\* find(): the first metric of that name.
Observed(name) == CHOOSE i \in Named(name) : \A j \in Named(name) : i <= j

Holds(value, gate) ==
    /\ NaN \notin {value, gate.threshold}
    /\ \/ gate.direction = "AtLeast" /\ value >= gate.threshold
       \/ gate.direction = "AtMost" /\ value <= gate.threshold

\* EvaluationGate::evaluate.
Evaluate(gate) ==
    /\ Named(gate.metric) # {}
    /\ Holds(metrics[Observed(gate.metric)].value, gate)

Init ==
    /\ gates \in UNION {[1..n -> EvaluationGate] : n \in 0..MaxGates}
    /\ metrics \in UNION {[1..n -> Metric] : n \in 0..MaxMetrics}
    /\ next = 1
    /\ decisions = [n \in {} |-> FALSE]
    /\ status = "Running"

\* Mutant: only the decisions that passed are collected.
EvaluateNextPassed ==
    /\ next <= Len(gates)
    /\ decisions' = IF ~Evaluate(gates[next]) THEN decisions
                    ELSE [n \in DOMAIN decisions \union {gates[next].metric} |-> TRUE]
    /\ next' = next + 1
    /\ UNCHANGED <<gates, metrics, status>>

\* collect() inserts one entry after another: a later one replaces an earlier.
EvaluateNext ==
    /\ next <= Len(gates)
    /\ decisions' = [n \in DOMAIN decisions \union {gates[next].metric} |->
           IF n = gates[next].metric THEN Evaluate(gates[next]) ELSE decisions[n]]
    /\ next' = next + 1
    /\ UNCHANGED <<gates, metrics, status>>

\* finish_run on a run whose steps have all succeeded.
FinishRun ==
    /\ next > Len(gates) /\ status = "Running"
    /\ status' = IF \A n \in DOMAIN decisions : decisions[n] THEN "Succeeded" ELSE "Failed"
    /\ UNCHANGED <<gates, metrics, next, decisions>>

Next == EvaluateNext \/ FinishRun

Spec == Init /\ [][Next]_vars

-----------------------------------------------------------------------------
(* Properties *)

TypeOK ==
    /\ gates \in Seq(EvaluationGate) /\ metrics \in Seq(Metric)
    /\ next \in 1..(Len(gates) + 1)
    /\ decisions \in [{gates[i].metric : i \in 1..(next - 1)} -> BOOLEAN]
    /\ status \in {"Running", "Succeeded", "Failed"}

\* What a gate asks of the metrics: the first one of its name is a number on
\* the right side of a threshold that is a number.
Met(gate) == \E i \in DOMAIN metrics :
    /\ metrics[i].name = gate.metric
    /\ \A j \in DOMAIN metrics : metrics[j].name = gate.metric => i <= j
    /\ metrics[i].value # NaN /\ gate.threshold # NaN
    /\ IF gate.direction = "AtLeast" THEN metrics[i].value >= gate.threshold
                                     ELSE metrics[i].value <= gate.threshold

OneGatePerMetric == \A i, j \in DOMAIN gates : gates[i].metric = gates[j].metric => i = j

\* A run fails at its gates only where some gate is not met, and with one gate
\* per metric it succeeds only where all are: a missing, repeated or NaN metric
\* (tests/runtime.rs, "without missing metric passes") promotes no run.  Of two
\* gates on one metric only the last one decides.
VerdictFollowsGates ==
    /\ status = "Failed" => \E i \in DOMAIN gates : ~Met(gates[i])
    /\ status = "Succeeded" /\ OneGatePerMetric => \A i \in DOMAIN gates : Met(gates[i])
=============================================================================
