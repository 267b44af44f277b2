-------------------------- MODULE WorkflowValidate --------------------------
(***************************************************************************)
(* WorkflowSpec::validate: Kahn's algorithm over the steps of a workflow.  *)
(* The fields of WorkflowSpec and StepSpec are public and deserialized, so *)
(* a step id may be listed twice and a dependency may be repeated: add_step *)
(* refuses the one, nothing refuses the other.  In-degrees are usize; the  *)
(* subtraction wraps in a release build and panics where the build checks  *)
(* for overflow.                                                           *)
(***************************************************************************)
EXTENDS Integers, FiniteSets, SequencesExt

CONSTANTS
    Ids,                \* step ids, numbers in the order of StepId
    MaxSteps,           \* bound: steps of a workflow
    MaxDeps,            \* bound: entries of depends_on
    UsizeLimit          \* 2^64, small here

ASSUME ValidateAssumption ==
    /\ Ids \subseteq Nat
    /\ MaxSteps \in Nat /\ MaxDeps \in Nat
    /\ UsizeLimit \in Nat /\ UsizeLimit > MaxSteps * MaxDeps

Lists(S, n) == UNION {[1..k -> S] : k \in 0..n}
StepSpec == [id : Ids, dependsOn : Lists(Ids, MaxDeps)]

VARIABLES
    checked,    \* whether the build panics on overflow
    steps,      \* the workflow's steps
    indegree,   \* the map of that name, over the ids that are steps
    ready,      \* the queue of that name
    visited,
    children,   \* what the for loop still has to go through
    result,     \* "Checking", "Visiting", then "Ok", the WorkflowError or "Panicked"
    order       \* history: the ids taken off the queue

vars == <<checked, steps, indegree, ready, visited, children, result, order>>

Listed == {steps[i].id : i \in DOMAIN steps}

\* An entry of some step's depends_on: the step's position and the entry's.
Mentions == {m \in (DOMAIN steps) \X (1..MaxDeps) : m[2] \in DOMAIN steps[m[1]].dependsOn}
Child(m) == steps[m[1]].id
Dependency(m) == steps[m[1]].dependsOn[m[2]]

\* dependents[id] has one entry per mention of id, in the order of the steps.
Dependents(id) == {m \in Mentions : Dependency(m) = id}
Before(m, n) == m[1] < n[1] \/ (m[1] = n[1] /\ m[2] < n[2])
IsNextChild(m) == m \in children /\ \A n \in children \ {m} : Before(m, n)

\* collect() into a map: of two steps with one id the last is kept.
LastWith(id) == CHOOSE i \in DOMAIN steps :
    steps[i].id = id /\ \A j \in DOMAIN steps : steps[j].id = id => j <= i

\* The ids of S in the order of a BTreeMap.
InOrder(S) ==
    {q \in [1..Cardinality(S) -> S] : \A i, j \in DOMAIN q : i < j => q[i] < q[j]}

Init ==
    /\ checked \in BOOLEAN
    /\ steps \in Lists(StepSpec, MaxSteps)
    /\ indegree = <<>>
    /\ ready = <<>>
    /\ visited = 0
    /\ children = {}
    /\ result = "Checking"
    /\ order = <<>>

\* Mutant: the degree counts distinct dependencies, the loop below does not.
DegreeDistinct(id) == Cardinality(ToSet(steps[LastWith(id)].dependsOn))

Degree(id) == Len(steps[LastWith(id)].dependsOn)

\* Some dependency is an id that no step has.
MentionsUnknown == \E m \in Mentions : Dependency(m) \notin Listed

Refuse ==
    /\ result = "Checking" /\ (steps = <<>> \/ MentionsUnknown)
    /\ result' = IF steps = <<>> THEN "Empty" ELSE "UnknownDependency"
    /\ UNCHANGED <<checked, steps, indegree, ready, visited, children, order>>

\* The maps and the queue are built.
Prepare ==
    /\ result = "Checking" /\ steps # <<>> /\ ~MentionsUnknown
    /\ indegree' = [id \in Listed |-> Degree(id)]
    /\ ready' \in InOrder({id \in Listed : Degree(id) = 0})
    /\ result' = "Visiting"
    /\ UNCHANGED <<checked, steps, visited, children, order>>

\* pop_front; the for loop over the dependents of the id is entered.
Visit ==
    /\ result = "Visiting" /\ children = {} /\ ready # <<>>
    /\ visited' = visited + 1
    /\ children' = Dependents(Head(ready))
    /\ order' = Append(order, Head(ready))
    /\ ready' = Tail(ready)
    /\ UNCHANGED <<checked, steps, indegree, result>>

\* Mutant: degrees are signed and run past zero.
MinusSigned(degree) == degree - 1

Minus(degree) == (degree - 1) % UsizeLimit

\* Mutant: a child with one dependency left is queued.
FreedEarly(degree) == degree <= 1

Freed(degree) == degree = 0

Overflows(m) == checked /\ indegree[Child(m)] = 0

\* One round of the for loop; every child is a step and has an in-degree.
Decrement(m) ==
    /\ result = "Visiting" /\ IsNextChild(m) /\ ~Overflows(m)
    /\ indegree' = [indegree EXCEPT ![Child(m)] = Minus(@)]
    /\ ready' = IF Freed(indegree'[Child(m)]) THEN Append(ready, Child(m)) ELSE ready
    /\ children' = children \ {m}
    /\ UNCHANGED <<checked, steps, visited, result, order>>

Panic(m) ==
    /\ result = "Visiting" /\ IsNextChild(m) /\ Overflows(m)
    /\ result' = "Panicked"
    /\ UNCHANGED <<checked, steps, indegree, ready, visited, children, order>>

\* Mutant: the ids are counted, not the steps.
VisitedAllIds == visited = Cardinality(Listed)

VisitedAll == visited = Len(steps)

Return ==
    /\ result = "Visiting" /\ children = {} /\ ready = <<>>
    /\ result' = IF VisitedAll THEN "Ok" ELSE "DependencyCycle"
    /\ UNCHANGED <<checked, steps, indegree, ready, visited, children, order>>

Next == Refuse \/ Prepare \/ Visit \/ Return \/ \E m \in children : Decrement(m) \/ Panic(m)

Spec == Init /\ [][Next]_vars

-----------------------------------------------------------------------------
(* Properties *)

Results == {"Checking", "Visiting", "Ok", "Empty", "UnknownDependency",
            "DependencyCycle", "Panicked"}

\* In-degrees stay machine words, the queue holds steps.
TypeOK ==
    /\ checked \in BOOLEAN
    /\ \A i \in DOMAIN steps : steps[i].id \in Ids /\ steps[i].dependsOn \in Seq(Ids)
    /\ indegree = <<>> \/ indegree \in [Listed -> 0..(UsizeLimit - 1)]
    /\ ready \in Seq(Listed) /\ order \in Seq(Listed)
    /\ visited \in 0..MaxSteps
    /\ children \subseteq Mentions
    /\ result \in Results

DependsOn(a, b) == \E m \in Mentions : Child(m) = a /\ Dependency(m) = b

\* A set of steps each of which waits for another of the set.
Cyclic == \E C \in (SUBSET Listed) \ {{}} : \A a \in C : \E b \in C : DependsOn(a, b)

Distinct == Cardinality(Listed) = Len(steps)

\* "Workflow definitions are validated as DAGs": exactly the non-empty workflows
\* of distinct steps whose dependencies are steps and have no cycle pass, with
\* every repetition of ids and dependencies that deserialization lets in.
AcceptsDags ==
    result \notin {"Checking", "Visiting", "Panicked"} =>
        (result = "Ok" <=> steps # <<>> /\ Distinct /\ ~MentionsUnknown /\ ~Cyclic)

\* Only a workflow that lists a step twice can make the subtraction overflow.
PanicsNeedDuplicates == result = "Panicked" => ~Distinct

\* No id is queued twice, so the loop ends after one round per id although the
\* degree of a step that is listed twice may wrap and come down to zero again.
VisitsEachIdOnce == visited + Len(ready) <= Cardinality(Listed)
=============================================================================
