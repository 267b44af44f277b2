----------------------- MODULE WorkflowValidateProofs -----------------------
(***************************************************************************)
(* WorkflowSpec::validate for every list of steps: whatever ids and        *)
(* dependencies deserialization lets in, the loop goes over each id once,  *)
(* and what it answers is whether the workflow is a dag of distinct steps. *)
(***************************************************************************)
EXTENDS WorkflowValidate, FiniteSetTheorems, WellFoundedInduction, SequenceTheorems, TLAPS

-----------------------------------------------------------------------------
(* Numbers and queues *)

\* A non-empty set of numbers has a least one.
LEMMA LeastExists ==
    ASSUME NEW T, T \subseteq Nat, T # {}
    PROVE  \E n \in T : \A m \in T : n <= m
<1> DEFINE Less == {p \in Nat \X Nat : p[1] < p[2]}
<1>1. IsWellFoundedOn(Less, Nat)
  BY NatLessThanWellFounded, Zenon DEF OpToRel
<1>2. PICK n \in T : \A m \in T : <<m, n>> \notin Less
  BY <1>1, WFMin, Zenon
<1>3. \A m \in T : ~(m < n)
  BY <1>2
<1> QED
  BY <1>3

\* A non-empty set of numbers up to n has a greatest one.
LEMMA GreatestExists ==
    ASSUME NEW n \in Nat, NEW T, T \subseteq 1..n, T # {}
    PROVE  \E k \in T : \A m \in T : m <= k
<1> DEFINE U == {u \in 0..n : n - u \in T}
<1>1. U \subseteq Nat /\ U # {}
  <2>1. PICK m \in T : TRUE
    OBVIOUS
  <2>2. \E u \in 0..n : n - u = m
    <3>1. n - m \in 0..n /\ n - (n - m) = m
      BY <2>1
    <3> QED
      BY <3>1, Zenon
  <2>3. PICK u \in 0..n : n - u = m
    BY <2>2
  <2>4. n - u \in T
    BY <2>1, <2>3, Zenon
  <2>5. u \in U
    BY <2>3, <2>4, Zenon
  <2> QED
    BY <2>5
<1> HIDE DEF U
<1>2. PICK u \in U : \A v \in U : u <= v
  BY <1>1, LeastExists
<1>3. u \in 0..n /\ n - u \in T
  BY DEF U
<1>4. ASSUME NEW m \in T PROVE m <= n - u
  <2>1. m \in Nat /\ n - m \in 0..n /\ n - (n - m) = m
    OBVIOUS
  <2>2. u <= n - m
    BY <1>2, <2>1 DEF U
  <2> QED
    BY <1>3, <2>1, <2>2
<1> QED
  BY <1>3, <1>4

\* Multiplication is monotonic.
LEMMA ProductsGrow ==
    ASSUME NEW a \in Nat, NEW b \in Nat, NEW d \in Nat, a <= b
    PROVE  a * d \in Nat /\ b * d \in Nat /\ a * d <= b * d
<1>1. a * d \in Nat /\ b * d \in Nat /\ (b - a) * d \in Nat
  OBVIOUS
<1>2. b * d = a * d + (b - a) * d
  OBVIOUS
<1> QED
  BY <1>1, <1>2

\* The ids of a queue to which one is appended.
LEMMA AppendedSet ==
    ASSUME NEW S, NEW q \in Seq(S), NEW e \in S
    PROVE  /\ ToSet(Append(q, e)) = ToSet(q) \cup {e}
           /\ IsInjective(q) /\ e \notin ToSet(q) => IsInjective(Append(q, e))
<1>1. /\ DOMAIN q = 1..Len(q) /\ Len(q) \in Nat
      /\ DOMAIN Append(q, e) = 1..(Len(q) + 1)
      /\ \A i \in 1..Len(q) : Append(q, e)[i] = q[i]
      /\ Append(q, e)[Len(q) + 1] = e
  OBVIOUS
<1> DEFINE r == Append(q, e)
<1> HIDE DEF r
<1>2. ToSet(r) = ToSet(q) \cup {e}
  BY <1>1 DEF ToSet, r
<1>3. ASSUME IsInjective(q), e \notin ToSet(q) PROVE IsInjective(r)
  BY <1>1, <1>3 DEF IsInjective, ToSet, r
<1> QED
  BY <1>2, <1>3 DEF r

\* The ids of a queue whose first is taken off.
LEMMA TailSet ==
    ASSUME NEW S, NEW q \in Seq(S), q # <<>>, IsInjective(q)
    PROVE  /\ Head(q) \in ToSet(q) /\ Tail(q) \in Seq(S)
           /\ ToSet(Tail(q)) = ToSet(q) \ {Head(q)} /\ IsInjective(Tail(q))
<1>1. /\ DOMAIN q = 1..Len(q) /\ Len(q) \in Nat \ {0}
      /\ Tail(q) \in Seq(S) /\ DOMAIN Tail(q) = 1..(Len(q) - 1)
      /\ \A i \in 1..(Len(q) - 1) : Tail(q)[i] = q[i + 1]
      /\ Head(q) = q[1] /\ 1 \in 1..Len(q)
  OBVIOUS
<1> DEFINE r == Tail(q)
           h == Head(q)
<1> HIDE DEF r, h
<1>2. h \in ToSet(q)
  BY <1>1 DEF ToSet, h
<1>3. IsInjective(r)
  <2> SUFFICES ASSUME NEW a \in DOMAIN r, NEW b \in DOMAIN r, r[a] = r[b] PROVE a = b
    BY DEF IsInjective
  <2>1. a + 1 \in 1..Len(q) /\ b + 1 \in 1..Len(q) /\ q[a + 1] = q[b + 1]
    BY <1>1 DEF r
  <2>2. a + 1 = b + 1
    BY <1>1, <2>1 DEF IsInjective
  <2> QED
    BY <1>1, <2>2 DEF r
<1>4. ToSet(r) \subseteq ToSet(q) \ {h}
  <2> SUFFICES ASSUME NEW a \in DOMAIN r PROVE r[a] \in ToSet(q) /\ r[a] # h
    BY DEF ToSet
  <2>1. a + 1 \in 1..Len(q) /\ r[a] = q[a + 1] /\ a + 1 # 1
    BY <1>1 DEF r
  <2> QED
    BY <1>1, <2>1 DEF ToSet, IsInjective, h
<1>5. ToSet(q) \ {h} \subseteq ToSet(r)
  <2> SUFFICES ASSUME NEW a \in DOMAIN q, q[a] # h PROVE q[a] \in ToSet(r)
    BY DEF ToSet
  <2>1. a - 1 \in 1..(Len(q) - 1) /\ (a - 1) + 1 = a
    BY <1>1 DEF h
  <2>2. a - 1 \in DOMAIN r /\ r[a - 1] = q[a]
    BY <1>1, <2>1 DEF r
  <2> QED
    BY <2>2 DEF ToSet
<1> QED
  BY <1>1, <1>2, <1>3, <1>4, <1>5 DEF r, h

\* A queue without repetition is as long as the set of its ids is large.
LEMMA CountOfQueue ==
    ASSUME NEW S, NEW q \in Seq(S), IsInjective(q)
    PROVE  ToSet(q) \subseteq S /\ IsFiniteSet(ToSet(q)) /\ Cardinality(ToSet(q)) = Len(q)
<1>1. DOMAIN q = 1..Len(q) /\ Len(q) \in Nat /\ q \in [1..Len(q) -> S]
  OBVIOUS
<1>2. q \in [1..Len(q) -> ToSet(q)] /\ ToSet(q) \subseteq S
  BY <1>1 DEF ToSet
<1>3. q \in Bijection(1..Len(q), ToSet(q))
  BY <1>1, <1>2 DEF Bijection, Injection, Surjection, ToSet
<1>4. ExistsBijection(1..Len(q), ToSet(q))
  BY <1>3 DEF ExistsBijection
<1>5. IsFiniteSet(1..Len(q)) /\ Cardinality(1..Len(q)) = Len(q)
  BY <1>1, FS_Interval
<1>6. IsFiniteSet(ToSet(q)) /\ Cardinality(ToSet(q)) = Cardinality(1..Len(q))
  BY <1>4, <1>5, FS_Bijection
<1> QED
  BY <1>2, <1>5, <1>6

\* The first queue: the ids of a finite set of numbers, each once.
LEMMA InOrderLists ==
    ASSUME NEW S, S \subseteq Nat, IsFiniteSet(S), NEW q \in InOrder(S)
    PROVE  q \in Seq(S) /\ IsInjective(q) /\ ToSet(q) = S
<1>1. Cardinality(S) \in Nat
  BY FS_CardinalityType
<1>2. q \in [1..Cardinality(S) -> S] /\ \A i, j \in DOMAIN q : i < j => q[i] < q[j]
  BY DEF InOrder
<1>3. q \in Seq(S) /\ Len(q) = Cardinality(S) /\ DOMAIN q = 1..Cardinality(S)
  BY <1>1, <1>2
<1>4. IsInjective(q)
  <2> SUFFICES ASSUME NEW a \in DOMAIN q, NEW b \in DOMAIN q, q[a] = q[b] PROVE a = b
    BY DEF IsInjective
  <2>1. a \in Nat /\ b \in Nat /\ q[a] \in Nat
    <3>1. a \in 1..Cardinality(S) /\ b \in 1..Cardinality(S)
      BY <1>3
    <3>2. q[a] \in S
      BY <1>2, <3>1
    <3>3. \A s \in S : s \in Nat
      OBVIOUS
    <3>4. \A i \in 1..Cardinality(S) : i \in Nat
      BY <1>1
    <3> QED
      BY <3>1, <3>2, <3>3, <3>4, Zenon
  <2>2. ~(a < b) /\ ~(b < a)
    BY <1>2, <2>1
  <2> QED
    BY <2>1, <2>2
<1>5. ToSet(q) \subseteq S /\ Cardinality(ToSet(q)) = Cardinality(S)
  BY <1>3, <1>4, CountOfQueue
<1>6. ToSet(q) = S
  BY <1>5, FS_Subset
<1> QED
  BY <1>3, <1>4, <1>6

-----------------------------------------------------------------------------
(* The workflow, its ids and its mentions *)

\* The workflow is the one the call was made with.
StepsType == steps \in Lists(StepSpec, MaxSteps)

Into(id) == {m \in Mentions : Child(m) = id}

\* What a list of steps and its entries are.
LEMMA StepsShape ==
    ASSUME StepsType
    PROVE  /\ Len(steps) \in 0..MaxSteps /\ DOMAIN steps = 1..Len(steps)
           /\ steps = <<>> <=> Len(steps) = 0
           /\ \A i \in DOMAIN steps :
                 /\ steps[i].id \in Ids /\ steps[i].dependsOn \in Seq(Ids)
                 /\ Len(steps[i].dependsOn) \in 0..MaxDeps
                 /\ DOMAIN steps[i].dependsOn = 1..Len(steps[i].dependsOn)
<1>1. ASSUME NEW S, NEW n \in Nat, NEW q \in Lists(S, n)
      PROVE  q \in Seq(S) /\ Len(q) \in 0..n /\ DOMAIN q = 1..Len(q)
             /\ \A i \in DOMAIN q : q[i] \in S
  <2>1. PICK k \in 0..n : q \in [1..k -> S]
    BY DEF Lists
  <2> QED
    BY <2>1
<1>2. /\ steps \in Seq(StepSpec) /\ Len(steps) \in 0..MaxSteps /\ DOMAIN steps = 1..Len(steps)
      /\ \A i \in DOMAIN steps : steps[i] \in StepSpec
  BY <1>1, ValidateAssumption DEF StepsType
<1>3. ASSUME NEW i \in DOMAIN steps
      PROVE  steps[i].id \in Ids /\ steps[i].dependsOn \in Lists(Ids, MaxDeps)
  BY <1>2 DEF StepSpec
<1>4. ASSUME NEW i \in DOMAIN steps
      PROVE  /\ steps[i].dependsOn \in Seq(Ids) /\ Len(steps[i].dependsOn) \in 0..MaxDeps
             /\ DOMAIN steps[i].dependsOn = 1..Len(steps[i].dependsOn)
  <2> DEFINE q == steps[i].dependsOn
  <2>1. q \in Lists(Ids, MaxDeps)
    BY <1>3
  <2> HIDE DEF q
  <2>2. q \in Seq(Ids) /\ Len(q) \in 0..MaxDeps /\ DOMAIN q = 1..Len(q)
    BY <1>1, <2>1, ValidateAssumption
  <2> QED
    BY <2>2 DEF q
<1>5. steps = <<>> <=> Len(steps) = 0
  BY <1>2
<1> QED
  BY <1>2, <1>3, <1>4, <1>5

\* The ids are at most as many as the steps; as many only if no id is listed twice.
LEMMA ListedFacts ==
    ASSUME StepsType
    PROVE  /\ Listed \subseteq Nat /\ IsFiniteSet(Listed)
           /\ Cardinality(Listed) \in Nat /\ Cardinality(Listed) <= Len(steps)
           /\ Distinct => \A i, j \in DOMAIN steps : steps[i].id = steps[j].id => i = j
<1> DEFINE n == Len(steps)
           f == [i \in 1..n |-> steps[i].id]
<1>1. n \in Nat /\ DOMAIN steps = 1..n /\ \A i \in 1..n : steps[i].id \in Ids
  BY StepsShape
<1>2. Listed \subseteq Nat
  BY <1>1, ValidateAssumption DEF Listed
<1>3. f \in Surjection(1..n, Listed)
  BY <1>1 DEF Surjection, Listed
<1>4. IsFiniteSet(1..n) /\ Cardinality(1..n) = n
  <2> HIDE DEF n
  <2> QED
    BY <1>1, FS_Interval
<1> HIDE DEF f, n
<1>5. /\ IsFiniteSet(Listed) /\ Cardinality(Listed) <= n
      /\ Cardinality(Listed) = n => f \in Injection(1..n, Listed)
  BY <1>3, <1>4, FS_Surjection
<1>6. f \in Injection(1..n, Listed) =>
        \A i, j \in DOMAIN steps : steps[i].id = steps[j].id => i = j
  BY <1>1 DEF Injection, IsInjective, f
<1> QED
  BY <1>2, <1>5, <1>6, FS_CardinalityType DEF Distinct, n

\* Every mention is of a step and an entry; they are too few for a degree to wrap round.
LEMMA MentionsFacts ==
    ASSUME StepsType
    PROVE  /\ IsFiniteSet(Mentions) /\ Cardinality(Mentions) < UsizeLimit
           /\ \A m \in Mentions : Child(m) \in Listed /\ Dependency(m) \in Ids
<1> DEFINE n == Len(steps)
           P == (1..n) \X (1..MaxDeps)
<1>1. n \in 0..MaxSteps /\ MaxDeps \in Nat /\ MaxSteps \in Nat /\ DOMAIN steps = 1..n
  BY StepsShape, ValidateAssumption
<1> HIDE DEF n
<1>2. /\ IsFiniteSet(1..n) /\ Cardinality(1..n) = n
      /\ IsFiniteSet(1..MaxDeps) /\ Cardinality(1..MaxDeps) = MaxDeps
  BY <1>1, FS_Interval
<1>3. IsFiniteSet(P) /\ Cardinality(P) = n * MaxDeps
  <2>1. IsFiniteSet(P) /\ Cardinality(P) = Cardinality(1..n) * Cardinality(1..MaxDeps)
    BY <1>2, FS_Product, Zenon
  <2> QED
    BY <1>2, <2>1, Zenon
<1>4. Mentions \in SUBSET P
  BY <1>1 DEF Mentions
<1> HIDE DEF P
<1>5. IsFiniteSet(Mentions) /\ Cardinality(Mentions) <= n * MaxDeps
  BY <1>3, <1>4, FS_Subset
<1>6. n * MaxDeps <= MaxSteps * MaxDeps /\ n * MaxDeps \in Nat /\ MaxSteps * MaxDeps \in Nat
  BY <1>1, ProductsGrow
<1>7. Cardinality(Mentions) \in Nat
  BY <1>5, FS_CardinalityType
<1>8. Cardinality(Mentions) < UsizeLimit
  BY <1>5, <1>6, <1>7, ValidateAssumption
<1>9. ASSUME NEW m \in Mentions PROVE Child(m) \in Listed /\ Dependency(m) \in Ids
  <2>1. m[1] \in DOMAIN steps /\ m[2] \in DOMAIN steps[m[1]].dependsOn
    BY DEF Mentions
  <2>2. steps[m[1]].dependsOn \in Seq(Ids)
    BY <2>1, StepsShape
  <2>3. steps[m[1]].dependsOn[m[2]] \in Ids
    <3> DEFINE q == steps[m[1]].dependsOn
               k == m[2]
    <3>1. q \in Seq(Ids) /\ k \in DOMAIN q
      BY <2>1, <2>2
    <3> HIDE DEF q, k
    <3>2. q[k] \in Ids
      BY <3>1
    <3> QED
      BY <3>2 DEF q, k
  <2> QED
    BY <2>1, <2>3 DEF Child, Dependency, Listed
<1> QED
  BY <1>5, <1>8, <1>9

\* Some step is the last with an id that is listed.
LEMMA LastWithExists ==
    ASSUME StepsType, NEW id \in Listed
    PROVE  LastWith(id) \in DOMAIN steps /\ steps[LastWith(id)].id = id
<1> DEFINE T == {i \in DOMAIN steps : steps[i].id = id}
<1>1. Len(steps) \in Nat /\ DOMAIN steps = 1..Len(steps)
  BY StepsShape, ValidateAssumption
<1>2. T \subseteq 1..Len(steps) /\ T # {}
  BY <1>1 DEF Listed
<1> HIDE DEF T
<1>3. \E i \in T : \A j \in T : j <= i
  BY <1>1, <1>2, GreatestExists
<1>4. \E i \in DOMAIN steps :
        steps[i].id = id /\ \A j \in DOMAIN steps : steps[j].id = id => j <= i
  BY <1>3 DEF T
<1> QED
  BY <1>4 DEF LastWith

\* A degree is a length of depends_on, far below the limit of usize.
LEMMA DegreeFacts ==
    ASSUME StepsType, NEW id \in Listed
    PROVE  Degree(id) \in Nat /\ Degree(id) < UsizeLimit /\ Degree(id) <= MaxDeps
<1>1. LastWith(id) \in DOMAIN steps
  BY LastWithExists
<1>2. Degree(id) \in 0..MaxDeps /\ Len(steps) \in 0..MaxSteps /\ Len(steps) # 0
  BY <1>1, StepsShape DEF Degree
<1>3. MaxSteps \in Nat \ {0} /\ MaxDeps \in Nat
  BY <1>2, ValidateAssumption
<1>4. 1 * MaxDeps <= MaxSteps * MaxDeps /\ MaxSteps * MaxDeps \in Nat
  BY <1>3, ProductsGrow
<1>5. MaxDeps <= MaxSteps * MaxDeps
  BY <1>3, <1>4
<1> QED
  BY <1>2, <1>3, <1>4, <1>5, ValidateAssumption

\* Without an id listed twice the degree of a step is the number of mentions that
\* will be taken off it.
LEMMA DegreeCounts ==
    ASSUME StepsType, Distinct, NEW id \in Listed
    PROVE  IsFiniteSet(Into(id)) /\ Cardinality(Into(id)) = Degree(id)
<1> DEFINE l == LastWith(id)
           d == Degree(id)
<1>1. l \in DOMAIN steps /\ steps[l].id = id
  BY LastWithExists
<1>2. d \in Nat /\ d <= MaxDeps
  BY DegreeFacts
<1>3. DOMAIN steps[l].dependsOn = 1..d
  BY <1>1, StepsShape DEF Degree
<1>4. \A m \in Mentions : Child(m) = id => m[1] = l
  BY <1>1, ListedFacts DEF Mentions, Child
<1> HIDE DEF l, d
<1>5. Into(id) = {l} \X (1..d)
  <2>1. ASSUME NEW m \in Into(id) PROVE m \in {l} \X (1..d)
    <3>1. m \in (DOMAIN steps) \X (1..MaxDeps) /\ m[2] \in DOMAIN steps[m[1]].dependsOn /\ m[1] = l
      BY <1>4 DEF Into, Mentions
    <3> QED
      BY <1>3, <3>1
  <2>2. ASSUME NEW j \in 1..d PROVE <<l, j>> \in Into(id)
    <3>1. j \in 1..MaxDeps
      BY <1>2, ValidateAssumption
    <3> QED
      BY <1>1, <1>3, <3>1 DEF Into, Mentions, Child
  <2> QED
    BY <2>1, <2>2
<1>6. /\ IsFiniteSet({l}) /\ Cardinality({l}) = 1
      /\ IsFiniteSet(1..d) /\ Cardinality(1..d) = d
  <2>1. IsFiniteSet({l}) /\ Cardinality({l}) = 1
    BY FS_Singleton, Zenon
  <2>2. 1 \in Int /\ d \in Int
    BY <1>2
  <2> QED
    BY <1>2, <2>1, <2>2, FS_Interval
<1>7. IsFiniteSet({l} \X (1..d)) /\ Cardinality({l} \X (1..d)) = 1 * d
  <2>1. /\ IsFiniteSet({l} \X (1..d))
        /\ Cardinality({l} \X (1..d)) = Cardinality({l}) * Cardinality(1..d)
    BY <1>6, FS_Product, Zenon
  <2> QED
    BY <1>6, <2>1, Zenon
<1> QED
  BY <1>2, <1>5, <1>7 DEF d

\* usize subtraction in a build that does not check it.
LEMMA MinusFacts ==
    ASSUME NEW d \in 0..(UsizeLimit - 1)
    PROVE  Minus(d) = IF d = 0 THEN UsizeLimit - 1 ELSE d - 1
<1>1. MaxSteps * MaxDeps \in Nat
  BY ValidateAssumption
<1>2. UsizeLimit \in Nat \ {0}
  BY <1>1, ValidateAssumption
<1> QED
  BY <1>2 DEF Minus

-----------------------------------------------------------------------------
(* The inductive invariant of Kahn's loop *)

\* The maps and the queue have been built.
Prepared == result \in {"Visiting", "Ok", "DependencyCycle", "Panicked"}

\* The mentions by an id that have been taken off its degree.
UsedInto(id) ==
    {m \in Mentions : Child(m) = id /\ Dependency(m) \in ToSet(order) /\ m \notin children}
Used(id) == Cardinality(UsedInto(id))

\* An in-degree is the degree less what was taken off it, once round at most.
DegreesAreRight ==
    Prepared =>
        /\ steps # <<>> /\ ~MentionsUnknown
        /\ indegree \in [Listed -> 0..(UsizeLimit - 1)]
        /\ \A id \in Listed :
              indegree[id] = IF Used(id) <= Degree(id) THEN Degree(id) - Used(id)
                             ELSE UsizeLimit + Degree(id) - Used(id)

\* The ids taken off the queue and the ids in it are those whose degree has been
\* used up, each of them once.
QueueIsRight ==
    /\ IsInjective(order) /\ IsInjective(ready)
    /\ ToSet(order) \cap ToSet(ready) = {}
    /\ Prepared => \A id \in Listed :
          id \in ToSet(order) \cup ToSet(ready) <=> Used(id) >= Degree(id)

\* The for loop goes over the mentions of the last id taken off; a result says why
\* the call returned.
LoopIsRight ==
    /\ visited = Len(order)
    /\ ~Prepared => indegree = <<>> /\ ready = <<>> /\ order = <<>> /\ children = {}
    /\ \A m \in children : order # <<>> /\ Dependency(m) = order[Len(order)]
    /\ result = "Empty" => steps = <<>>
    /\ result = "UnknownDependency" => MentionsUnknown
    /\ result \in {"Ok", "DependencyCycle"} =>
          children = {} /\ ready = <<>> /\ (result = "Ok" <=> VisitedAll)

\* If no id is listed twice, an id comes after every id it depends on.
OrderIsSorted ==
    Distinct => \A k \in DOMAIN order : \A m \in Mentions :
        Child(m) = order[k] => \E j \in 1..(k - 1) : order[j] = Dependency(m)

IInv ==
    /\ StepsType /\ TypeOK
    /\ DegreesAreRight /\ QueueIsRight /\ LoopIsRight /\ OrderIsSorted
    /\ PanicsNeedDuplicates

\* What was taken off a degree is a count of mentions.
LEMMA UsedFacts ==
    ASSUME StepsType, NEW id
    PROVE  IsFiniteSet(UsedInto(id)) /\ Used(id) \in Nat /\ Used(id) < UsizeLimit
<1>1. UsedInto(id) \in SUBSET Mentions
  BY DEF UsedInto
<1>2. IsFiniteSet(Mentions) /\ Cardinality(Mentions) < UsizeLimit
  BY MentionsFacts
<1>3. IsFiniteSet(UsedInto(id)) /\ Cardinality(UsedInto(id)) <= Cardinality(Mentions)
  BY <1>1, <1>2, FS_Subset
<1>4. Cardinality(Mentions) \in Nat /\ Cardinality(UsedInto(id)) \in Nat
  BY <1>2, <1>3, FS_CardinalityType
<1> QED
  BY <1>2, <1>3, <1>4, ValidateAssumption DEF Used

\* Without an id listed twice no degree runs past zero, and it is zero only when
\* all the mentions by the id are used.
LEMMA DistinctDegrees ==
    ASSUME StepsType, Distinct, NEW id \in Listed
    PROVE  /\ UsedInto(id) \subseteq Into(id) /\ Used(id) <= Degree(id)
           /\ Used(id) = Degree(id) => UsedInto(id) = Into(id)
<1>1. UsedInto(id) \in SUBSET Into(id)
  BY DEF UsedInto, Into
<1>2. IsFiniteSet(Into(id)) /\ Cardinality(Into(id)) = Degree(id)
  BY DegreeCounts
<1> QED
  BY <1>1, <1>2, FS_Subset DEF Used

\* While the workflow stays as it is, so does what is said of it.
LEMMA SameWorkflow ==
    ASSUME steps' = steps
    PROVE  /\ StepsType' = StepsType /\ Listed' = Listed /\ Mentions' = Mentions
           /\ Distinct' = Distinct /\ MentionsUnknown' = MentionsUnknown
           /\ \A m : Child(m)' = Child(m) /\ Dependency(m)' = Dependency(m)
           /\ \A id : Degree(id)' = Degree(id) /\ Dependents(id)' = Dependents(id)
BY DEF StepsType, Listed, Mentions, Distinct, MentionsUnknown, Child, Dependency, Degree,
       LastWith, Dependents

\* While the loop stays where it is, so does what was taken off the degrees.
LEMMA SameUse ==
    ASSUME UNCHANGED <<steps, order, children>>
    PROVE  \A id : UsedInto(id)' = UsedInto(id) /\ Used(id)' = Used(id)
BY SameWorkflow DEF UsedInto, Used

\* Before the first step nothing has been built.
LEMMA InitInv == ASSUME Init PROVE IInv
<1>1. /\ StepsType /\ ~Prepared /\ result = "Checking" /\ order = <<>> /\ ready = <<>>
      /\ children = {} /\ indegree = <<>> /\ visited = 0
  BY DEF Init, StepsType, Prepared
<1>2. TypeOK
  <2>1. \A i \in DOMAIN steps : steps[i].id \in Ids /\ steps[i].dependsOn \in Seq(Ids)
    BY <1>1, StepsShape
  <2> QED
    BY <1>1, <2>1, ValidateAssumption DEF Init, TypeOK, Results
<1>3. DOMAIN order = {} /\ DOMAIN ready = {} /\ Len(order) = 0
  BY <1>1
<1>4. DegreesAreRight /\ QueueIsRight /\ LoopIsRight /\ OrderIsSorted /\ PanicsNeedDuplicates
  BY <1>1, <1>3 DEF DegreesAreRight, QueueIsRight, LoopIsRight, OrderIsSorted,
     PanicsNeedDuplicates, IsInjective, ToSet
<1> QED
  BY <1>1, <1>2, <1>4 DEF IInv

\* A step that leaves the loop alone and ends the call, or leaves everything alone.
LEMMA LoopUnchanged ==
    ASSUME IInv, UNCHANGED <<checked, steps, indegree, ready, visited, children, order>>,
           result' \in Results, Prepared' = Prepared
    PROVE  /\ StepsType' /\ TypeOK' /\ DegreesAreRight' /\ QueueIsRight' /\ OrderIsSorted'
           /\ visited' = Len(order')
           /\ ~Prepared' => indegree' = <<>> /\ ready' = <<>> /\ order' = <<>> /\ children' = {}
           /\ \A m \in children' : order' # <<>> /\ Dependency(m)' = order'[Len(order')]
<1> USE SameWorkflow, SameUse DEF IInv
<1>1. StepsType'
  OBVIOUS
<1>2. TypeOK'
  BY DEF TypeOK
<1>3. DegreesAreRight'
  BY DEF DegreesAreRight
<1>4. QueueIsRight'
  BY DEF QueueIsRight
<1>5. OrderIsSorted'
  BY DEF OrderIsSorted
<1> QED
  BY <1>1, <1>2, <1>3, <1>4, <1>5 DEF LoopIsRight

\* Refuse: the answer says what is wrong with the workflow.
LEMMA RefuseInv == ASSUME IInv, Refuse PROVE IInv'
<1>1. /\ UNCHANGED <<checked, steps, indegree, ready, visited, children, order>>
      /\ result' \in {"Empty", "UnknownDependency"}
      /\ result' = "Empty" => steps = <<>>
      /\ result' = "UnknownDependency" => MentionsUnknown
  BY DEF Refuse
<1>2. Prepared' = Prepared /\ result' \in Results
  BY <1>1 DEF Refuse, Prepared, Results
<1>3. LoopIsRight'
  BY <1>1, <1>2, LoopUnchanged, SameWorkflow DEF LoopIsRight
<1>4. PanicsNeedDuplicates'
  BY <1>1 DEF PanicsNeedDuplicates
<1> QED
  BY <1>1, <1>2, <1>3, <1>4, LoopUnchanged DEF IInv

\* Panic: a mention that has not been used keeps the degree above zero.
LEMMA PanicInv == ASSUME IInv, NEW m \in children, Panic(m) PROVE IInv'
<1>1. /\ UNCHANGED <<checked, steps, indegree, ready, visited, children, order>>
      /\ result = "Visiting" /\ result' = "Panicked" /\ indegree[Child(m)] = 0
  BY DEF Panic, Overflows
<1>2. Prepared' = Prepared /\ result' \in Results /\ Prepared
  BY <1>1 DEF Prepared, Results
<1>3. LoopIsRight'
  BY <1>1, <1>2, LoopUnchanged DEF LoopIsRight
<1>4. PanicsNeedDuplicates'
  <2> SUFFICES ASSUME Distinct PROVE FALSE
    BY <1>1, SameWorkflow DEF PanicsNeedDuplicates
  <2> DEFINE c == Child(m)
  <2>1. StepsType /\ m \in Mentions
    BY DEF IInv, TypeOK
  <2>2. c \in Listed /\ m \in Into(c) /\ m \notin UsedInto(c)
    BY <2>1, MentionsFacts DEF Into, UsedInto
  <2> HIDE DEF c
  <2>3. Used(c) <= Degree(c) /\ Used(c) # Degree(c)
    BY <2>1, <2>2, DistinctDegrees
  <2>4. Used(c) \in Nat /\ Degree(c) \in Nat
    BY <2>1, <2>2, UsedFacts, DegreeFacts
  <2>5. indegree[c] = Degree(c) - Used(c)
    BY <1>2, <2>2, <2>3 DEF IInv, DegreesAreRight
  <2> QED
    BY <1>1, <2>3, <2>4, <2>5 DEF c
<1> QED
  BY <1>1, <1>2, <1>3, <1>4, LoopUnchanged DEF IInv

\* Return: the call ends with an empty queue and a finished for loop.
LEMMA ReturnInv == ASSUME IInv, Return PROVE IInv'
<1>1. /\ UNCHANGED <<checked, steps, indegree, ready, visited, children, order>>
      /\ result = "Visiting" /\ children = {} /\ ready = <<>>
      /\ result' = IF VisitedAll THEN "Ok" ELSE "DependencyCycle"
  BY DEF Return
<1>2. Prepared' = Prepared /\ result' \in Results
  BY <1>1 DEF Prepared, Results
<1>3. VisitedAll' = VisitedAll
  BY <1>1 DEF VisitedAll
<1>4. LoopIsRight'
  <2>1. result' \in {"Ok", "DependencyCycle"} /\ (result' = "Ok" <=> VisitedAll')
    BY <1>1, <1>3
  <2> QED
    BY <1>1, <1>2, <2>1, LoopUnchanged DEF LoopIsRight
<1>5. PanicsNeedDuplicates'
  BY <1>1 DEF PanicsNeedDuplicates
<1> QED
  BY <1>1, <1>2, <1>4, <1>5, LoopUnchanged DEF IInv

\* Prepare: nothing has been used, the ids without dependencies are queued.
LEMMA PrepareInv == ASSUME IInv, Prepare PROVE IInv'
<1>1. /\ UNCHANGED <<checked, steps, visited, children, order>>
      /\ result = "Checking" /\ result' = "Visiting" /\ steps # <<>> /\ ~MentionsUnknown
      /\ indegree' = [id \in Listed |-> Degree(id)]
      /\ ready' \in InOrder({id \in Listed : Degree(id) = 0})
  BY DEF Prepare
<1>2. StepsType /\ order = <<>> /\ children = {} /\ visited = 0
  BY <1>1 DEF IInv, LoopIsRight, Prepared
<1>3. Listed \subseteq Nat /\ IsFiniteSet(Listed)
  BY <1>2, ListedFacts
<1> DEFINE Free == {id \in Listed : Degree(id) = 0}
<1>4. Free \subseteq Listed /\ Free \subseteq Nat /\ IsFiniteSet(Free)
  BY <1>3, FS_Subset
<1>5. ready' \in Seq(Free) /\ IsInjective(ready') /\ ToSet(ready') = Free
  <2>1. ready' \in InOrder(Free)
    BY <1>1
  <2> HIDE DEF Free
  <2> QED
    BY <1>4, <2>1, InOrderLists
<1>6. ready' \in Seq(Listed)
  <2> HIDE DEF Free
  <2>1. Len(ready') \in Nat /\ ready' \in [1..Len(ready') -> Free]
    BY <1>5
  <2>2. ready' \in [1..Len(ready') -> Listed]
    BY <1>4, <2>1
  <2> QED
    BY <2>1, <2>2
<1>7. \A id \in Listed : Degree(id) \in Nat /\ Degree(id) < UsizeLimit
  BY <1>2, DegreeFacts
<1>8. indegree' \in [Listed -> 0..(UsizeLimit - 1)]
  BY <1>1, <1>7, ValidateAssumption
<1>9. order' = <<>> /\ children' = {} /\ ToSet(order') = {} /\ DOMAIN order' = {} /\ Len(order') = 0
  BY <1>1, <1>2 DEF ToSet
<1>10. \A id : UsedInto(id)' = {} /\ Used(id)' = 0
  <2>1. \A id : UsedInto(id)' = {}
    BY <1>9 DEF UsedInto
  <2> QED
    BY <2>1, FS_EmptySet DEF Used
<1>11. Prepared'
  BY <1>1 DEF Prepared
<1>12. StepsType' /\ TypeOK'
  BY <1>1, <1>2, <1>6, <1>8, <1>9, SameWorkflow DEF IInv, TypeOK, Results
<1>13. DegreesAreRight'
  BY <1>1, <1>7, <1>8, <1>10, SameWorkflow DEF DegreesAreRight
<1>14. QueueIsRight'
  <2>1. IsInjective(order')
    BY <1>9 DEF IsInjective
  <2>2. \A id \in Listed : id \in Free <=> 0 >= Degree(id)
    BY <1>7
  <2> HIDE DEF Free
  <2> QED
    BY <1>1, <1>5, <1>9, <1>10, <2>1, <2>2, SameWorkflow DEF QueueIsRight
<1>15. LoopIsRight'
  BY <1>1, <1>2, <1>9, <1>11 DEF LoopIsRight
<1>16. OrderIsSorted' /\ PanicsNeedDuplicates'
  BY <1>1, <1>9 DEF OrderIsSorted, PanicsNeedDuplicates
<1> QED
  BY <1>12, <1>13, <1>14, <1>15, <1>16 DEF IInv

\* Visit: the mentions of the id taken off are the loop's, and none of them is used yet.
LEMMA VisitInv == ASSUME IInv, Visit PROVE IInv'
<1> DEFINE h == Head(ready)
<1>1. /\ UNCHANGED <<checked, steps, indegree, result>>
      /\ result = "Visiting" /\ children = {} /\ ready # <<>>
      /\ visited' = visited + 1 /\ children' = Dependents(h)
      /\ order' = Append(order, h) /\ ready' = Tail(ready)
  BY DEF Visit
<1>2. /\ StepsType /\ ready \in Seq(Listed) /\ order \in Seq(Listed) /\ Prepared /\ Prepared'
      /\ IsInjective(order) /\ IsInjective(ready) /\ ToSet(order) \cap ToSet(ready) = {}
  BY <1>1 DEF IInv, TypeOK, QueueIsRight, Prepared
<1>3. /\ h \in ToSet(ready) /\ ready' \in Seq(Listed) /\ IsInjective(ready')
      /\ ToSet(ready') = ToSet(ready) \ {h}
  BY <1>1, <1>2, TailSet
<1>4. h \in Listed /\ h \notin ToSet(order)
  BY <1>2, <1>3, CountOfQueue
<1> HIDE DEF h
<1>5. order' \in Seq(Listed) /\ ToSet(order') = ToSet(order) \cup {h} /\ IsInjective(order')
  BY <1>1, <1>2, <1>4, AppendedSet
<1>6. /\ Len(order) \in Nat /\ DOMAIN order = 1..Len(order)
      /\ Len(order') = Len(order) + 1 /\ DOMAIN order' = 1..(Len(order) + 1)
      /\ \A i \in 1..Len(order) : order'[i] = order[i]
      /\ order'[Len(order) + 1] = h
  BY <1>1, <1>2, <1>4
<1>7. \A id : UsedInto(id)' = UsedInto(id) /\ Used(id)' = Used(id)
  <2>1. \A m \in Mentions : Dependency(m) \in ToSet(order') /\ m \notin children'
                            <=> Dependency(m) \in ToSet(order) /\ m \notin children
    BY <1>1, <1>4, <1>5 DEF Dependents
  <2>2. \A id : UsedInto(id)' = UsedInto(id)
    BY <1>1, <2>1, SameWorkflow DEF UsedInto
  <2> QED
    BY <2>2 DEF Used
<1>8. visited' = Len(order') /\ visited' \in 0..MaxSteps
  <2>1. visited = Len(order)
    BY DEF IInv, LoopIsRight
  <2>2. ToSet(order') \in SUBSET Listed /\ Cardinality(ToSet(order')) = Len(order')
    BY <1>5, CountOfQueue
  <2>3. /\ IsFiniteSet(Listed) /\ Cardinality(Listed) \in Nat
        /\ Cardinality(Listed) <= Len(steps) /\ Len(steps) \in 0..MaxSteps
    BY <1>2, ListedFacts, StepsShape
  <2>4. Len(order') <= Cardinality(Listed)
    BY <2>2, <2>3, FS_Subset
  <2> QED
    BY <1>1, <1>6, <2>1, <2>3, <2>4, ValidateAssumption
<1>9. children' \subseteq Mentions /\ \A m \in children' : Dependency(m) = h
  BY <1>1 DEF Dependents
<1>10. StepsType' /\ TypeOK'
  BY <1>1, <1>2, <1>3, <1>5, <1>8, <1>9, SameWorkflow DEF IInv, TypeOK
<1>11. DegreesAreRight'
  BY <1>1, <1>2, <1>7, SameWorkflow DEF IInv, DegreesAreRight
<1>12. QueueIsRight'
  <2>1. ToSet(order') \cup ToSet(ready') = ToSet(order) \cup ToSet(ready)
    BY <1>3, <1>5
  <2>2. ToSet(order') \cap ToSet(ready') = {}
    BY <1>2, <1>3, <1>5
  <2>3. \A id \in Listed : id \in ToSet(order') \cup ToSet(ready') <=> Used(id) >= Degree(id)
    BY <1>2, <2>1 DEF IInv, QueueIsRight
  <2> QED
    BY <1>1, <1>3, <1>5, <1>7, <2>2, <2>3, SameWorkflow DEF QueueIsRight
<1>13. LoopIsRight'
  <2>1. order' # <<>> /\ \A m \in children' : Dependency(m)' = order'[Len(order')]
    BY <1>1, <1>6, <1>9, SameWorkflow
  <2> QED
    BY <1>1, <1>2, <1>8, <2>1 DEF LoopIsRight
<1>14. OrderIsSorted'
  <2> SUFFICES ASSUME Distinct, NEW k \in DOMAIN order', NEW m \in Mentions, Child(m) = order'[k]
               PROVE  \E j \in 1..(k - 1) : order'[j] = Dependency(m)
    BY <1>1, SameWorkflow DEF OrderIsSorted
  <2>1. CASE k \in 1..Len(order)
    <3>1. \E j \in 1..(k - 1) : order[j] = Dependency(m)
      BY <1>6, <2>1 DEF IInv, OrderIsSorted
    <3>2. \A j \in 1..(k - 1) : j \in 1..Len(order)
      BY <1>6, <2>1
    <3> QED
      BY <1>6, <3>1, <3>2
  <2>2. CASE k = Len(order) + 1
    <3>1. Child(m) = h /\ m \in Into(h)
      BY <1>6, <2>2 DEF Into
    <3>2. Used(h) >= Degree(h)
      BY <1>2, <1>3, <1>4 DEF IInv, QueueIsRight
    <3>3. Used(h) <= Degree(h) /\ Used(h) \in Nat /\ Degree(h) \in Nat
      BY <1>2, <1>4, DistinctDegrees, UsedFacts, DegreeFacts
    <3>4. m \in UsedInto(h)
      BY <1>2, <1>4, <3>1, <3>2, <3>3, DistinctDegrees
    <3>5. Dependency(m) \in ToSet(order)
      BY <3>4 DEF UsedInto
    <3>6. PICK j \in 1..Len(order) : order[j] = Dependency(m)
      BY <1>6, <3>5 DEF ToSet
    <3>7. j \in 1..(k - 1)
      BY <1>6, <2>2, <3>6
    <3> QED
      BY <1>6, <3>6, <3>7
  <2> QED
    BY <1>6, <2>1, <2>2
<1>15. PanicsNeedDuplicates'
  BY <1>1 DEF PanicsNeedDuplicates
<1> QED
  BY <1>10, <1>11, <1>12, <1>13, <1>14, <1>15 DEF IInv

\* Decrement: one more mention is used; the child is queued when that was the last its
\* degree counts, and not again should the degree have run past zero.
LEMMA DecrementInv == ASSUME IInv, NEW m \in children, Decrement(m) PROVE IInv'
<1> DEFINE c == Child(m)
<1>1. /\ UNCHANGED <<checked, steps, visited, result, order>>
      /\ result = "Visiting" /\ children' = children \ {m}
      /\ indegree' = [indegree EXCEPT ![c] = Minus(indegree[c])]
      /\ ready' = IF indegree'[c] = 0 THEN Append(ready, c) ELSE ready
  BY DEF Decrement, Freed
<1>2. /\ StepsType /\ ready \in Seq(Listed) /\ order \in Seq(Listed) /\ Prepared /\ Prepared'
      /\ IsInjective(order) /\ IsInjective(ready) /\ ToSet(order) \cap ToSet(ready) = {}
      /\ indegree \in [Listed -> 0..(UsizeLimit - 1)] /\ children \subseteq Mentions
  BY <1>1 DEF IInv, TypeOK, QueueIsRight, DegreesAreRight, Prepared
<1>3. m \in Mentions /\ c \in Listed
  BY <1>2, MentionsFacts
<1>4. order # <<>> /\ Dependency(m) \in ToSet(order) /\ m \notin UsedInto(c)
  <2>1. order # <<>> /\ Dependency(m) = order[Len(order)]
    BY DEF IInv, LoopIsRight
  <2>2. Len(order) \in DOMAIN order
    BY <1>2, <2>1
  <2> QED
    BY <2>1, <2>2 DEF ToSet, UsedInto
<1>5. \A id : UsedInto(id)' = IF id = c THEN UsedInto(id) \cup {m} ELSE UsedInto(id)
  BY <1>1, <1>3, <1>4, SameWorkflow DEF UsedInto
<1>6. ASSUME NEW id \in Listed
      PROVE  /\ Used(id)' = IF id = c THEN Used(id) + 1 ELSE Used(id)
             /\ id = c => Used(id) + 1 < UsizeLimit
  <2>1. IsFiniteSet(UsedInto(id)) /\ Used(id) \in Nat /\ Used(id) < UsizeLimit
    BY <1>2, UsedFacts
  <2>2. CASE id = c
    <3>1. UsedInto(id)' = UsedInto(id) \cup {m} /\ m \notin UsedInto(id)
      BY <1>5, <2>2 DEF UsedInto
    <3>2. Cardinality(UsedInto(id) \cup {m}) = Cardinality(UsedInto(id)) + 1
      BY <2>1, <3>1, FS_AddElement
    <3>3. Used(id)' = Used(id) + 1
      BY <3>1, <3>2 DEF Used
    <3>4. UsedInto(id) \cup {m} \in SUBSET Mentions
      BY <1>3 DEF UsedInto
    <3>5. /\ IsFiniteSet(Mentions) /\ Cardinality(Mentions) \in Nat
          /\ Cardinality(Mentions) < UsizeLimit
      BY <1>2, MentionsFacts, FS_CardinalityType
    <3>6. Cardinality(UsedInto(id) \cup {m}) <= Cardinality(Mentions)
      BY <3>4, <3>5, FS_Subset
    <3>7. Used(id) + 1 < UsizeLimit
      BY <2>1, <3>2, <3>5, <3>6, ValidateAssumption DEF Used
    <3> QED
      BY <2>2, <3>3, <3>7
  <2>3. CASE id # c
    BY <1>5, <2>1, <2>3 DEF Used
  <2> QED
    BY <2>2, <2>3
<1> DEFINE u == Used(c)
           d == Degree(c)
<1>7. u \in Nat /\ d \in Nat /\ d < UsizeLimit /\ u + 1 < UsizeLimit
  <2>1. u + 1 < UsizeLimit
    BY <1>3, <1>6
  <2> QED
    BY <1>2, <1>3, <2>1, UsedFacts, DegreeFacts
<1>8. \A id \in Listed : Used(id) \in Nat /\ Degree(id) \in Nat
  BY <1>2, UsedFacts, DegreeFacts
<1>9. indegree[c] = IF u <= d THEN d - u ELSE UsizeLimit + d - u
  BY <1>2, <1>3 DEF IInv, DegreesAreRight
<1>10. Minus(indegree[c]) = IF indegree[c] = 0 THEN UsizeLimit - 1 ELSE indegree[c] - 1
  BY <1>2, <1>3, MinusFacts
<1>11. Minus(indegree[c]) = IF u + 1 <= d THEN d - (u + 1) ELSE UsizeLimit + d - (u + 1)
  <2> HIDE DEF u, d, c
  <2> QED
    BY <1>7, <1>9, <1>10, ValidateAssumption
<1>12. /\ indegree' \in [Listed -> 0..(UsizeLimit - 1)]
       /\ indegree'[c] = Minus(indegree[c])
       /\ \A id \in Listed : id # c => indegree'[id] = indegree[id]
  <2>1. Minus(indegree[c]) \in 0..(UsizeLimit - 1)
    <3> HIDE DEF u, d, c
    <3> QED
      BY <1>7, <1>11, ValidateAssumption
  <2> QED
    BY <1>1, <1>2, <1>3, <2>1
<1>13. indegree'[c] = 0 <=> u + 1 = d
  <2> HIDE DEF u, d, c
  <2> QED
    BY <1>7, <1>11, <1>12, ValidateAssumption
<1>14. \A id \in Listed : id \in ToSet(order) \cup ToSet(ready) <=> Used(id) >= Degree(id)
  BY <1>2 DEF IInv, QueueIsRight
<1>15. u + 1 = d => c \notin ToSet(order) /\ c \notin ToSet(ready)
  BY <1>3, <1>7, <1>14
<1> HIDE DEF c
<1>16. /\ ready' \in Seq(Listed) /\ IsInjective(ready')
       /\ ToSet(ready') = IF u + 1 = d THEN ToSet(ready) \cup {c} ELSE ToSet(ready)
  <2>1. CASE u + 1 = d
    <3>1. ready' = Append(ready, c)
      BY <1>1, <1>13, <2>1 DEF c
    <3>2. c \in Listed /\ c \notin ToSet(ready)
      BY <1>3, <1>15, <2>1 DEF c
    <3>3. Append(ready, c) \in Seq(Listed)
      BY <1>2, <3>2
    <3> HIDE DEF u, d
    <3> QED
      BY <1>2, <2>1, <3>1, <3>2, <3>3, AppendedSet
  <2>2. CASE u + 1 # d
    <3>1. ready' = ready
      BY <1>1, <1>13, <2>2 DEF c
    <3> HIDE DEF u, d
    <3> QED
      BY <1>2, <2>2, <3>1
  <2> QED
    BY <2>1, <2>2
<1>17. children' \subseteq Mentions /\ children' \subseteq children
  BY <1>1, <1>2
<1>18. StepsType' /\ TypeOK'
  BY <1>1, <1>2, <1>12, <1>16, <1>17, SameWorkflow DEF IInv, TypeOK
<1>19. DegreesAreRight'
  <2>1. ASSUME NEW id \in Listed
        PROVE  indegree'[id] = IF Used(id)' <= Degree(id) THEN Degree(id) - Used(id)'
                               ELSE UsizeLimit + Degree(id) - Used(id)'
    <3>1. Used(id)' = IF id = c THEN Used(id) + 1 ELSE Used(id)
      BY <1>6
    <3>2. CASE id = c
      BY <1>7, <1>11, <1>12, <3>1, <3>2
    <3>3. CASE id # c
      BY <1>2, <1>12, <3>1, <3>3 DEF IInv, DegreesAreRight
    <3> QED
      BY <3>2, <3>3
  <2>2. steps # <<>> /\ ~MentionsUnknown
    BY <1>2 DEF IInv, DegreesAreRight
  <2> QED
    BY <1>1, <1>12, <2>1, <2>2, SameWorkflow DEF DegreesAreRight
<1>20. QueueIsRight'
  <2>1. ToSet(order) \cap ToSet(ready') = {}
    BY <1>2, <1>15, <1>16
  <2>2. ASSUME NEW id \in Listed
        PROVE  id \in ToSet(order) \cup ToSet(ready') <=> Used(id)' >= Degree(id)
    <3>1. Used(id)' = IF id = c THEN Used(id) + 1 ELSE Used(id)
      BY <1>6
    <3>2. CASE id = c
      BY <1>8, <1>14, <1>16, <3>1, <3>2
    <3>3. CASE id # c
      <4>1. id \in ToSet(ready') <=> id \in ToSet(ready)
        BY <1>16, <3>3
      <4> QED
        BY <1>14, <3>1, <3>3, <4>1
    <3> QED
      BY <3>2, <3>3
  <2> QED
    BY <1>1, <1>2, <1>16, <2>1, <2>2, SameWorkflow DEF QueueIsRight
<1>21. LoopIsRight'
  BY <1>1, <1>2, <1>4, <1>17, SameWorkflow DEF IInv, LoopIsRight
<1>22. OrderIsSorted' /\ PanicsNeedDuplicates'
  BY <1>1, SameWorkflow DEF IInv, OrderIsSorted, PanicsNeedDuplicates
<1> QED
  BY <1>18, <1>19, <1>20, <1>21, <1>22 DEF IInv

\* A stuttering step.
LEMMA StutterInv == ASSUME IInv, UNCHANGED vars PROVE IInv'
<1>1. /\ UNCHANGED <<checked, steps, indegree, ready, visited, children, order>>
      /\ result' = result
  BY DEF vars
<1>2. Prepared' = Prepared /\ result' \in Results
  BY <1>1 DEF Prepared, IInv, TypeOK
<1>3. LoopIsRight'
  BY <1>1, <1>2, SameWorkflow DEF IInv, LoopIsRight, VisitedAll
<1>4. PanicsNeedDuplicates'
  BY <1>1, SameWorkflow DEF IInv, PanicsNeedDuplicates
<1> QED
  BY <1>1, <1>2, <1>3, <1>4, LoopUnchanged DEF IInv

\* The inductive invariant holds in every state.
THEOREM ValidateInvariant == Spec => []IInv
<1>1. Init => IInv
  BY InitInv
<1>2. IInv /\ [Next]_vars => IInv'
  <2> SUFFICES ASSUME IInv, [Next]_vars PROVE IInv'
    OBVIOUS
  <2>1. CASE Refuse
    BY <2>1, RefuseInv
  <2>2. CASE Prepare
    BY <2>2, PrepareInv
  <2>3. CASE Visit
    BY <2>3, VisitInv
  <2>4. CASE Return
    BY <2>4, ReturnInv
  <2>5. ASSUME NEW m \in children, Decrement(m) PROVE IInv'
    BY <2>5, DecrementInv
  <2>6. ASSUME NEW m \in children, Panic(m) PROVE IInv'
    BY <2>6, PanicInv
  <2>7. CASE UNCHANGED vars
    BY <2>7, StutterInv
  <2> QED
    BY <2>1, <2>2, <2>3, <2>4, <2>5, <2>6, <2>7 DEF Next
<1> QED
  BY <1>1, <1>2, PTL DEF Spec

-----------------------------------------------------------------------------
(* What the call answers *)

\* In-degrees stay machine words, the queue and the order hold steps.
THEOREM TypeCorrect == Spec => []TypeOK
<1>1. IInv => TypeOK
  BY DEF IInv
<1> QED
  BY <1>1, ValidateInvariant, PTL

\* Only a workflow that lists a step twice can make the subtraction overflow.
THEOREM PanicsAreJustified == Spec => []PanicsNeedDuplicates
<1>1. IInv => PanicsNeedDuplicates
  BY DEF IInv
<1> QED
  BY <1>1, ValidateInvariant, PTL

\* The ids taken off the queue and those in it are steps, counted once each.
LEMMA QueueCounts ==
    ASSUME IInv
    PROVE  /\ ToSet(order) \subseteq Listed /\ Cardinality(ToSet(order)) = Len(order)
           /\ visited + Len(ready) <= Cardinality(Listed)
<1>1. /\ StepsType /\ order \in Seq(Listed) /\ ready \in Seq(Listed)
      /\ IsInjective(order) /\ IsInjective(ready) /\ ToSet(order) \cap ToSet(ready) = {}
      /\ visited = Len(order)
  BY DEF IInv, TypeOK, QueueIsRight, LoopIsRight
<1>2. /\ ToSet(order) \subseteq Listed /\ IsFiniteSet(ToSet(order))
      /\ Cardinality(ToSet(order)) = Len(order)
      /\ ToSet(ready) \subseteq Listed /\ IsFiniteSet(ToSet(ready))
      /\ Cardinality(ToSet(ready)) = Len(ready)
  BY <1>1, CountOfQueue
<1>3. Cardinality(ToSet(order) \cup ToSet(ready)) =
        Cardinality(ToSet(order)) + Cardinality(ToSet(ready)) - Cardinality({})
  BY <1>1, <1>2, FS_Union
<1>4. ToSet(order) \cup ToSet(ready) \in SUBSET Listed /\ IsFiniteSet(Listed)
  BY <1>1, <1>2, ListedFacts
<1>5. Cardinality(ToSet(order) \cup ToSet(ready)) <= Cardinality(Listed)
  BY <1>4, FS_Subset
<1>6. Len(order) \in Nat /\ Len(ready) \in Nat /\ Cardinality({}) = 0
  BY <1>1, FS_EmptySet
<1> QED
  BY <1>1, <1>2, <1>3, <1>5, <1>6

\* No id is queued twice: the loop ends after at most one round per id, also when the
\* degree of a step that is listed twice wraps round and comes down again.
THEOREM EachIdIsVisitedOnce == Spec => []VisitsEachIdOnce
<1>1. IInv => VisitsEachIdOnce
  BY QueueCounts DEF VisitsEachIdOnce
<1> QED
  BY <1>1, ValidateInvariant, PTL

\* If as many ids were visited as there are steps, every step was, and none is listed twice.
LEMMA AllVisited ==
    ASSUME IInv, VisitedAll
    PROVE  Distinct /\ ToSet(order) = Listed
<1>1. /\ ToSet(order) \in SUBSET Listed /\ Cardinality(ToSet(order)) = Len(order)
      /\ Len(order) = Len(steps)
  BY QueueCounts DEF IInv, LoopIsRight, VisitedAll
<1>2. /\ IsFiniteSet(Listed) /\ Cardinality(Listed) \in Nat
      /\ Cardinality(Listed) <= Len(steps) /\ Len(steps) \in Nat
  BY ListedFacts, StepsShape, ValidateAssumption DEF IInv
<1>3. /\ Cardinality(ToSet(order)) <= Cardinality(Listed)
      /\ Cardinality(Listed) = Cardinality(ToSet(order)) => Listed = ToSet(order)
  BY <1>1, <1>2, FS_Subset
<1>4. Cardinality(Listed) = Len(steps)
  BY <1>1, <1>2, <1>3
<1> QED
  BY <1>1, <1>3, <1>4 DEF Distinct

\* Steps that all come after what they depend on do not wait for each other: of a
\* set of them the first in the order waits for none of the set.
LEMMA SortedHasNoCycle ==
    ASSUME IInv, Distinct, ToSet(order) = Listed
    PROVE  ~Cyclic
<1> SUFFICES ASSUME NEW C \in SUBSET Listed, C # {},
                    \A a \in C : \E b \in C : DependsOn(a, b)
             PROVE  FALSE
  BY DEF Cyclic
<1>1. DOMAIN order = 1..Len(order) /\ Len(order) \in Nat
  BY DEF IInv, TypeOK
<1> DEFINE T == {k \in DOMAIN order : order[k] \in C}
<1>2. T \subseteq Nat /\ T # {}
  BY <1>1 DEF ToSet
<1> HIDE DEF T
<1>3. PICK k \in T : \A j \in T : k <= j
  BY <1>2, LeastExists
<1>4. k \in DOMAIN order /\ order[k] \in C
  BY <1>3 DEF T
<1>5. PICK b \in C : DependsOn(order[k], b)
  BY <1>4
<1>6. PICK m \in Mentions : Child(m) = order[k] /\ Dependency(m) = b
  BY <1>5 DEF DependsOn
<1>7. PICK j \in 1..(k - 1) : order[j] = b
  BY <1>4, <1>6 DEF IInv, OrderIsSorted
<1>8. j \in DOMAIN order /\ j < k
  BY <1>1, <1>4, <1>7
<1>9. j \in T
  BY <1>7, <1>8 DEF T
<1> QED
  BY <1>1, <1>3, <1>4, <1>8, <1>9

\* When the queue runs dry before every step was visited, each step that is left
\* waits for another that is left.
LEMMA LeftOverIsCyclic ==
    ASSUME IInv, Prepared, children = {}, ready = <<>>, Distinct, ~VisitedAll
    PROVE  Cyclic
<1> DEFINE C == Listed \ ToSet(order)
<1>1. StepsType /\ visited = Len(order) /\ ~MentionsUnknown
  BY DEF IInv, LoopIsRight, DegreesAreRight
<1>2. C # {}
  <2> SUFFICES ASSUME Listed \subseteq ToSet(order) PROVE FALSE
    OBVIOUS
  <2>1. ToSet(order) = Listed /\ Cardinality(ToSet(order)) = Len(order)
    BY QueueCounts
  <2> QED
    BY <1>1, <2>1 DEF Distinct, VisitedAll
<1>3. ASSUME NEW a \in C PROVE \E b \in C : DependsOn(a, b)
  <2>1. a \in Listed /\ a \notin ToSet(order) /\ ToSet(ready) = {}
    BY DEF ToSet
  <2>2. ~(Used(a) >= Degree(a))
    BY <2>1 DEF IInv, QueueIsRight
  <2>3. Used(a) \in Nat /\ Degree(a) \in Nat /\ UsedInto(a) \subseteq Into(a)
    BY <1>1, <2>1, UsedFacts, DegreeFacts, DistinctDegrees
  <2>4. UsedInto(a) # Into(a)
    <3>1. Cardinality(Into(a)) = Degree(a)
      BY <1>1, <2>1, DegreeCounts
    <3> QED
      BY <2>2, <2>3, <3>1 DEF Used
  <2>5. PICK m \in Into(a) : m \notin UsedInto(a)
    BY <2>3, <2>4
  <2>6. m \in Mentions /\ Child(m) = a /\ Dependency(m) \notin ToSet(order)
    BY <2>5 DEF UsedInto, Into
  <2>7. Dependency(m) \in Listed
    BY <1>1, <2>6 DEF MentionsUnknown
  <2> QED
    BY <2>6, <2>7 DEF DependsOn
<1>4. C \in SUBSET Listed
  OBVIOUS
<1> HIDE DEF C
<1> QED
  BY <1>2, <1>3, <1>4 DEF Cyclic

\* "Workflow definitions are validated as DAGs" (src/README.md): of all the values the
\* public fields can hold, exactly the non-empty lists of distinct steps whose
\* dependencies are steps and have no cycle are accepted.
THEOREM AcceptsExactlyDags == Spec => []AcceptsDags
<1>1. IInv => AcceptsDags
  <2> SUFFICES ASSUME IInv, result \notin {"Checking", "Visiting", "Panicked"}
               PROVE  result = "Ok" <=> steps # <<>> /\ Distinct /\ ~MentionsUnknown /\ ~Cyclic
    BY DEF AcceptsDags
  <2>1. result \in {"Empty", "UnknownDependency", "Ok", "DependencyCycle"}
    BY DEF IInv, TypeOK, Results
  <2>2. CASE result = "Empty"
    BY <2>2 DEF IInv, LoopIsRight
  <2>3. CASE result = "UnknownDependency"
    BY <2>3 DEF IInv, LoopIsRight
  <2>4. CASE result = "Ok"
    <3>1. VisitedAll /\ steps # <<>> /\ ~MentionsUnknown
      BY <2>4 DEF IInv, LoopIsRight, DegreesAreRight, Prepared
    <3>2. Distinct /\ ~Cyclic
      BY <3>1, AllVisited, SortedHasNoCycle
    <3> QED
      BY <2>4, <3>1, <3>2
  <2>5. CASE result = "DependencyCycle"
    <3>1. Prepared /\ children = {} /\ ready = <<>> /\ ~VisitedAll
      BY <2>5 DEF IInv, LoopIsRight, Prepared
    <3>2. Distinct => Cyclic
      BY <3>1, LeftOverIsCyclic
    <3> QED
      BY <2>5, <3>2
  <2> QED
    BY <2>1, <2>2, <2>3, <2>4, <2>5
<1> QED
  BY <1>1, ValidateInvariant, PTL

\* The steps can be numbered so that each comes after the steps it depends on.
Sortable ==
    \E rank \in [Listed -> 1..Len(steps)] :
        /\ IsInjective(rank)
        /\ \A a, b \in Listed : DependsOn(a, b) => rank[b] < rank[a]

\* An accepted workflow has an order that respects its dependencies: what the
\* in-process executor needs of it (AcyclicAssumption of LocalExecutor).
THEOREM AcceptedWorkflowsAreSortable == Spec => [](result = "Ok" => Sortable)
<1>1. ASSUME IInv, result = "Ok" PROVE Sortable
  <2>1. VisitedAll /\ visited = Len(order)
    BY <1>1 DEF IInv, LoopIsRight
  <2>2. Distinct /\ ToSet(order) = Listed
    BY <1>1, <2>1, AllVisited
  <2>3. /\ DOMAIN order = 1..Len(order) /\ Len(order) \in Nat /\ IsInjective(order)
        /\ Len(order) = Len(steps)
    BY <1>1, <2>1 DEF IInv, TypeOK, QueueIsRight, VisitedAll
  <2> DEFINE rank == [id \in Listed |-> CHOOSE k \in 1..Len(order) : order[k] = id]
  <2>4. ASSUME NEW id \in Listed PROVE rank[id] \in 1..Len(order) /\ order[rank[id]] = id
    <3>1. \E k \in 1..Len(order) : order[k] = id
      BY <2>2, <2>3 DEF ToSet
    <3> QED
      BY <3>1
  <2>5. rank \in [Listed -> 1..Len(steps)]
    BY <2>3, <2>4
  <2>6. DOMAIN rank = Listed
    OBVIOUS
  <2> HIDE DEF rank
  <2>7. IsInjective(rank)
    BY <2>4, <2>6 DEF IsInjective
  <2>8. ASSUME NEW a \in Listed, NEW b \in Listed, DependsOn(a, b) PROVE rank[b] < rank[a]
    <3>1. PICK m \in Mentions : Child(m) = a /\ Dependency(m) = b
      BY <2>8 DEF DependsOn
    <3>2. rank[a] \in DOMAIN order /\ order[rank[a]] = a
      BY <2>3, <2>4
    <3>3. PICK j \in 1..(rank[a] - 1) : order[j] = b
      BY <1>1, <2>2, <3>1, <3>2 DEF IInv, OrderIsSorted
    <3>4. j \in DOMAIN order /\ rank[b] \in DOMAIN order /\ order[rank[b]] = order[j]
      BY <2>3, <2>4, <3>2, <3>3
    <3>5. rank[b] = j
      BY <2>3, <3>4 DEF IsInjective
    <3> QED
      BY <2>3, <3>2, <3>3, <3>5
  <2> QED
    BY <2>5, <2>7, <2>8 DEF Sortable
<1>2. IInv => (result = "Ok" => Sortable)
  BY <1>1
<1> QED
  BY <1>2, ValidateInvariant, PTL

-----------------------------------------------------------------------------
(* The call goes on until it answers *)

\* The ids of a finite set can be put in order: the least first, then the others.
LEMMA InOrderExists ==
    ASSUME NEW S, S \subseteq Nat, IsFiniteSet(S)
    PROVE  InOrder(S) # {}
<1> DEFINE Bad == {n \in Nat : \E T \in SUBSET S : Cardinality(T) = n /\ InOrder(T) = {}}
<1>1. SUFFICES Bad = {}
  <2>1. Cardinality(S) \in Nat /\ S \in SUBSET S
    BY FS_CardinalityType
  <2> QED
    BY <2>1
<1>2. SUFFICES ASSUME Bad # {} PROVE FALSE
  OBVIOUS
<1>3. PICK n \in Bad : \A k \in Bad : n <= k
  <2>1. Bad \subseteq Nat
    OBVIOUS
  <2> HIDE DEF Bad
  <2> QED
    BY <1>2, <2>1, LeastExists
<1>4. PICK T \in SUBSET S : Cardinality(T) = n /\ InOrder(T) = {}
  BY <1>3
<1>5. n \in Nat /\ T \subseteq Nat /\ IsFiniteSet(T)
  BY <1>3, <1>4, FS_Subset
<1>6. T # {}
  <2> SUFFICES ASSUME T = {} PROVE InOrder(T) # {}
    BY <1>4
  <2>1. Cardinality(T) = 0
    BY FS_EmptySet
  <2>2. <<>> \in [1..Cardinality(T) -> T] /\ DOMAIN <<>> = {}
    BY <2>1
  <2> QED
    BY <2>2 DEF InOrder
<1>7. PICK l \in T : \A t \in T : l <= t
  BY <1>5, <1>6, LeastExists
<1> DEFINE U == T \ {l}
<1>8. IsFiniteSet(U) /\ Cardinality(U) = n - 1 /\ n # 0
  <2>1. IsFiniteSet(U) /\ Cardinality(U) = n - 1
    BY <1>4, <1>5, FS_RemoveElement
  <2>2. n # 0
    BY <1>4, <1>5, <1>6, FS_EmptySet
  <2> QED
    BY <2>1, <2>2
<1>9. InOrder(U) # {}
  <2>1. n - 1 \in Nat /\ ~(n <= n - 1) /\ U \in SUBSET S
    BY <1>5, <1>8
  <2>2. n - 1 \notin Bad
    BY <1>3, <2>1
  <2> QED
    BY <1>8, <2>1, <2>2
<1>10. PICK q \in InOrder(U) : TRUE
  BY <1>9
<1>11. /\ q \in [1..(n - 1) -> U]
       /\ \A i, j \in 1..(n - 1) : i < j => q[i] < q[j]
  BY <1>8, <1>10 DEF InOrder
<1> DEFINE r == [i \in 1..n |-> IF i = 1 THEN l ELSE q[i - 1]]
<1>12. \A i \in 1..n : i # 1 => i - 1 \in 1..(n - 1)
  BY <1>5
<1>13. r \in [1..n -> T]
  BY <1>11, <1>12
<1>14. ASSUME NEW i \in 1..n, NEW j \in 1..n, i < j PROVE r[i] < r[j]
  <2>1. j # 1 /\ j - 1 \in 1..(n - 1) /\ r[j] = q[j - 1] /\ q[j - 1] \in U
    BY <1>5, <1>11, <1>12, <1>14
  <2>2. CASE i = 1
    <3>1. r[i] = l /\ l <= r[j] /\ l # r[j] /\ l \in Nat /\ r[j] \in Nat
      BY <1>5, <1>7, <2>1, <2>2
    <3> QED
      BY <3>1
  <2>3. CASE i # 1
    <3>1. i - 1 \in 1..(n - 1) /\ r[i] = q[i - 1] /\ i - 1 < j - 1
      BY <1>5, <1>12, <1>14, <2>3
    <3> QED
      BY <1>11, <2>1, <3>1
  <2> QED
    BY <2>2, <2>3
<1> HIDE DEF r
<1>15. r \in InOrder(T)
  <2>1. DOMAIN r = 1..n
    BY <1>13
  <2> QED
    BY <1>4, <1>13, <1>14, <2>1 DEF InOrder
<1> QED
  BY <1>4, <1>15

\* Of the mentions that are left one is the first: of those in the first step the one
\* with the least index.
LEMMA NextChildExists ==
    ASSUME StepsType, children \subseteq Mentions, children # {}
    PROVE  \E m \in children : IsNextChild(m)
<1>1. \A m \in children : m = <<m[1], m[2]>> /\ m[1] \in Nat /\ m[2] \in Nat
  <2> SUFFICES ASSUME NEW m \in children
               PROVE  m = <<m[1], m[2]>> /\ m[1] \in Nat /\ m[2] \in Nat
    OBVIOUS
  <2>1. m \in (1..Len(steps)) \X (1..MaxDeps) /\ Len(steps) \in Nat /\ MaxDeps \in Nat
    BY StepsShape, ValidateAssumption DEF Mentions
  <2> QED
    BY <2>1
<1> DEFINE I == {m[1] : m \in children}
<1>2. I \subseteq Nat /\ I # {}
  BY <1>1
<1> HIDE DEF I
<1>3. PICK i \in I : \A k \in I : i <= k
  BY <1>2, LeastExists
<1> DEFINE J == {j \in Nat : <<i, j>> \in children}
<1>4. J \subseteq Nat /\ J # {}
  <2>1. PICK m \in children : m[1] = i
    BY <1>3 DEF I
  <2>2. m[2] \in Nat /\ <<i, m[2]>> \in children
    BY <1>1, <2>1
  <2> QED
    BY <2>2
<1> HIDE DEF J
<1>5. PICK j \in J : \A k \in J : j <= k
  BY <1>4, LeastExists
<1>6. <<i, j>> \in children /\ i \in Nat /\ j \in Nat
  BY <1>2, <1>3, <1>5 DEF J
<1>7. ASSUME NEW m \in children, m # <<i, j>> PROVE Before(<<i, j>>, m)
  <2>1. m[1] \in I /\ i <= m[1] /\ m[1] \in Nat /\ m[2] \in Nat
    BY <1>1, <1>3 DEF I
  <2>2. CASE i < m[1]
    BY <2>2 DEF Before
  <2>3. CASE m[1] = i
    <3>1. m = <<i, m[2]>>
      BY <1>1, <2>3
    <3>2. m[2] \in J /\ m[2] # j
      BY <1>7, <2>1, <3>1 DEF J
    <3>3. j <= m[2]
      BY <1>5, <3>2
    <3>4. j < m[2]
      BY <1>6, <2>1, <3>2, <3>3
    <3> QED
      BY <2>3, <3>4 DEF Before
  <2> QED
    BY <1>6, <2>1, <2>2, <2>3
<1> QED
  BY <1>6, <1>7 DEF IsNextChild

\* Where Prepare is due there is a queue to start with, and where the for loop has
\* mentions left there is a next one; with none left, Visit or Return is possible.
GoesOn ==
    /\ result = "Checking" => InOrder({id \in Listed : Degree(id) = 0}) # {}
    /\ result = "Visiting" /\ children # {} => \E m \in children : IsNextChild(m)

\* A call that has not answered is never stuck: with EachIdIsVisitedOnce, every call of
\* validate comes to an answer or panics.
THEOREM CallsGoOn == Spec => []GoesOn
<1>1. ASSUME IInv PROVE GoesOn
  <2>1. StepsType /\ children \subseteq Mentions
    BY <1>1 DEF IInv, TypeOK
  <2> DEFINE Free == {id \in Listed : Degree(id) = 0}
  <2>2. Free \subseteq Nat /\ IsFiniteSet(Free)
    <3>1. Listed \subseteq Nat /\ IsFiniteSet(Listed)
      BY <2>1, ListedFacts
    <3> QED
      BY <3>1, FS_Subset
  <2>3. InOrder(Free) # {}
    <3> HIDE DEF Free
    <3> QED
      BY <2>2, InOrderExists
  <2> QED
    BY <2>1, <2>3, NextChildExists DEF GoesOn
<1>2. IInv => GoesOn
  BY <1>1
<1> QED
  BY <1>2, ValidateInvariant, PTL
=============================================================================
