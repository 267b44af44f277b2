------------------------ MODULE LocalExecutorProofs ------------------------
(***************************************************************************)
(* Proofs for InMemoryExecutor: for every workflow, chunk size, budget and *)
(* retry policy, what the executor stores, emits and returns tells what    *)
(* its steps did, in an order that respects the workflow, and its delays   *)
(* are the policy's at every width of the integers.                        *)
(***************************************************************************)
EXTENDS LocalExecutor, FiniteSetTheorems, WellFoundedInduction, SequenceTheorems, TLAPS

-----------------------------------------------------------------------------
(* Induction on numbers, as a statement about sets *)

\* A non-empty set of numbers has a least one.
LEMMA LeastExists ==
    ASSUME NEW T, T \subseteq Nat, T # {}
    PROVE  \E n \in T : \A m \in T : n <= m
<1> DEFINE Less == {p \in Nat \X Nat : p[1] < p[2]}
<1>1. IsWellFoundedOn(Less, Nat)
  BY NatLessThanWellFounded, Zenon DEF OpToRel
<1>2. PICK n \in T : \A m \in T : <<m, n>> \notin Less
  BY <1>1, WFMin, Zenon
<1>3. \A m \in T : ~(m < n)
  BY <1>2
<1> QED
  BY <1>3

\* Induction up to n, by the least number outside the set.
LEMMA UpTo ==
    ASSUME NEW n \in Nat, NEW S, 0 \in S, \A k \in 0..n : k \in S /\ k < n => k + 1 \in S
    PROVE  \A k \in 0..n : k \in S
<1> DEFINE Bad == {k \in 0..n : k \notin S}
<1>1. SUFFICES ASSUME Bad # {} PROVE FALSE
  OBVIOUS
<1>2. PICK b \in Bad : \A m \in Bad : b <= m
  <2>1. Bad \subseteq Nat
    OBVIOUS
  <2> HIDE DEF Bad
  <2> QED
    BY <1>1, <2>1, LeastExists
<1>3. b \in 0..n /\ b # 0
  OBVIOUS
<1>4. b - 1 \in 0..n /\ b - 1 < n /\ b - 1 \notin Bad
  BY <1>2, <1>3
<1>5. (b - 1) + 1 \in S
  BY <1>4
<1> QED
  BY <1>3, <1>5

-----------------------------------------------------------------------------
(* RetryDelay::for_attempt *)

\* A sequence of numbers defined by its first one and by what follows a number.
LEMMA RecursionExists ==
    ASSUME NEW n \in Nat, NEW h \in [Nat -> Nat], NEW c \in Nat
    PROVE  \E f \in [0..n -> Nat] : f = [k \in 0..n |-> IF k = 0 THEN c ELSE h[f[k - 1]]]
<1> DEFINE S == {m \in Nat : \E f \in [0..m -> Nat] :
                                 \A k \in 0..m : f[k] = IF k = 0 THEN c ELSE h[f[k - 1]]}
<1>1. 0 \in S
  <2> DEFINE f == [k \in 0..0 |-> c]
  <2>1. f \in [0..0 -> Nat] /\ \A k \in 0..0 : f[k] = IF k = 0 THEN c ELSE h[f[k - 1]]
    OBVIOUS
  <2> HIDE DEF f
  <2> QED
    BY <2>1
<1>2. ASSUME NEW m \in 0..n, m \in S PROVE m + 1 \in S
  <2>1. PICK f \in [0..m -> Nat] : \A k \in 0..m : f[k] = IF k = 0 THEN c ELSE h[f[k - 1]]
    BY <1>2
  <2> DEFINE g == [k \in 0..(m + 1) |-> IF k = m + 1 THEN h[f[m]] ELSE f[k]]
  <2>2. g \in [0..(m + 1) -> Nat]
    OBVIOUS
  <2>3. ASSUME NEW k \in 0..(m + 1) PROVE g[k] = IF k = 0 THEN c ELSE h[g[k - 1]]
    <3>1. CASE k = m + 1
      BY <3>1
    <3>2. CASE k # m + 1
      <4>1. k \in 0..m /\ (k # 0 => k - 1 \in 0..m)
        BY <3>2
      <4>2. g[k] = f[k] /\ (k # 0 => g[k - 1] = f[k - 1])
        BY <4>1
      <4> QED
        BY <2>1, <4>1, <4>2
    <3> QED
      BY <3>1, <3>2
  <2> HIDE DEF g
  <2>4. m + 1 \in Nat
    OBVIOUS
  <2> QED
    BY <2>2, <2>3, <2>4
<1> HIDE DEF S
<1>3. n \in S
  <2>1. \A m \in 0..n : m \in S /\ m < n => m + 1 \in S
    BY <1>2
  <2>2. \A m \in 0..n : m \in S
    BY <1>1, <2>1, UpTo
  <2> QED
    BY <2>2
<1>4. PICK f \in [0..n -> Nat] : \A k \in 0..n : f[k] = IF k = 0 THEN c ELSE h[f[k - 1]]
  BY <1>3 DEF S
<1>5. f = [k \in 0..n |-> IF k = 0 THEN c ELSE h[f[k - 1]]]
  BY <1>4
<1> QED
  BY <1>5

\* The least of two numbers.
LEMMA MinOfTwo ==
    ASSUME NEW a \in Nat, NEW b \in Nat
    PROVE  Min({a, b}) = IF a <= b THEN a ELSE b
BY DEF Min

\* x.saturating_pow(n) multiplies step by step and stays within u32.
LEMMA SaturatingPowSteps ==
    ASSUME NEW x \in Nat, NEW n \in Nat
    PROVE  \E f \in [0..n -> Nat] :
               /\ SaturatingPow(x, n) = f[n]
               /\ f[0] = 1
               /\ \A k \in 0..n : k # 0 => f[k] = Min({f[k - 1] * x, U32Max})
<1> USE WidthsAssumption
<1> DEFINE h == [y \in Nat |-> Min({y * x, U32Max})]
           Eq(f) == f = [k \in 0..n |-> IF k = 0 THEN 1 ELSE Min({f[k - 1] * x, U32Max})]
<1>1. \A y \in Nat : y * x \in Nat /\ Min({y * x, U32Max}) \in Nat
  BY MinOfTwo
<1>2. h \in [Nat -> Nat]
  BY <1>1
<1>3. PICK f \in [0..n -> Nat] : f = [k \in 0..n |-> IF k = 0 THEN 1 ELSE h[f[k - 1]]]
  <2> HIDE DEF h
  <2>1. 1 \in Nat
    OBVIOUS
  <2> QED
    BY <1>2, <2>1, RecursionExists, Zenon
<1>4. \A y \in Nat : h[y] = Min({y * x, U32Max})
  OBVIOUS
<1> HIDE DEF h
<1>5. Eq(f)
  <2>1. ASSUME NEW k \in 0..n
        PROVE  (IF k = 0 THEN 1 ELSE h[f[k - 1]])
                   = (IF k = 0 THEN 1 ELSE Min({f[k - 1] * x, U32Max}))
    <3>1. k # 0 => f[k - 1] \in Nat
      OBVIOUS
    <3> QED
      BY <1>4, <3>1
  <2> QED
    BY <1>3, <2>1, Zenon
<1> DEFINE g == CHOOSE g : Eq(g)
<1>6. Eq(g)
  BY <1>5
<1>7. SaturatingPow(x, n) = g[n]
  BY DEF SaturatingPow
<1> HIDE DEF g, h
<1>8. g[0] = 1 /\ \A k \in 0..n : k # 0 => g[k] = Min({g[k - 1] * x, U32Max})
  <2>1. \A k \in 0..n : g[k] = IF k = 0 THEN 1 ELSE Min({g[k - 1] * x, U32Max})
    BY <1>6
  <2>2. 0 \in 0..n
    OBVIOUS
  <2> QED
    BY <2>1, <2>2
<1>9. \A k \in 0..n : g[k] \in Nat
  <2> DEFINE S == {k \in 0..n : g[k] \in Nat}
  <2>1. 0 \in S
    BY <1>8
  <2>2. ASSUME NEW k \in 0..n, k \in S, k < n PROVE k + 1 \in S
    <3>1. k + 1 \in 0..n /\ k + 1 # 0 /\ (k + 1) - 1 = k
      BY <2>2
    <3>2. g[k + 1] = Min({g[k] * x, U32Max})
      BY <1>8, <3>1
    <3> QED
      BY <1>1, <2>2, <3>1, <3>2
  <2> HIDE DEF S
  <2>3. \A k \in 0..n : k \in S
    BY <2>1, <2>2, UpTo
  <2> QED
    BY <2>3 DEF S
<1>10. g \in [0..n -> Nat]
  BY <1>6, <1>9
<1> QED
  BY <1>7, <1>8, <1>10

\* The same power without widths, up to the exponent's limit.
LEMMA ExactFactorSteps ==
    ASSUME NEW p, p.multiplier \in Nat
    PROVE  \E f \in [0..MaxExponent -> Nat] :
               /\ \A a : ExactFactor(p, a) = f[Min({a - 1, MaxExponent})]
               /\ f[0] = 1
               /\ \A k \in 0..MaxExponent : k # 0 => f[k] = f[k - 1] * p.multiplier
<1> USE WidthsAssumption
<1> DEFINE n == MaxExponent
           x == p.multiplier
           h == [y \in Nat |-> y * x]
           Eq(f) == f = [k \in 0..n |-> IF k = 0 THEN 1 ELSE f[k - 1] * x]
<1>1. h \in [Nat -> Nat]
  OBVIOUS
<1>2. \A y \in Nat : h[y] = y * x
  OBVIOUS
<1>3. PICK f \in [0..n -> Nat] : f = [k \in 0..n |-> IF k = 0 THEN 1 ELSE h[f[k - 1]]]
  <2>1. 1 \in Nat /\ n \in Nat
    OBVIOUS
  <2>2. MaxExponent \in Nat
    OBVIOUS
  <2> HIDE DEF h
  <2> QED
    BY <1>1, <2>1, <2>2, RecursionExists, Zenon
<1> HIDE DEF h
<1>4. Eq(f)
  <2>1. ASSUME NEW k \in 0..n
        PROVE  (IF k = 0 THEN 1 ELSE h[f[k - 1]]) = (IF k = 0 THEN 1 ELSE f[k - 1] * x)
    <3>1. k # 0 => f[k - 1] \in Nat
      OBVIOUS
    <3> QED
      BY <1>2, <3>1
  <2> QED
    BY <1>3, <2>1, Zenon
<1> DEFINE g == CHOOSE g : Eq(g)
<1>5. Eq(g)
  BY <1>4
<1>6. \A a : ExactFactor(p, a) = g[Min({a - 1, MaxExponent})]
  BY DEF ExactFactor
<1> HIDE DEF g
<1>7. g[0] = 1 /\ \A k \in 0..n : k # 0 => g[k] = g[k - 1] * x
  <2>1. \A k \in 0..n : g[k] = IF k = 0 THEN 1 ELSE g[k - 1] * x
    BY <1>5
  <2>2. 0 \in 0..n
    OBVIOUS
  <2> QED
    BY <2>1, <2>2
<1>8. \A k \in 0..n : g[k] \in Nat
  <2> DEFINE S == {k \in 0..n : g[k] \in Nat}
  <2>1. 0 \in S
    BY <1>7
  <2>2. ASSUME NEW k \in 0..n, k \in S, k < n PROVE k + 1 \in S
    <3>1. k + 1 \in 0..n /\ k + 1 # 0 /\ (k + 1) - 1 = k
      BY <2>2
    <3>2. g[k + 1] = g[k] * x
      BY <1>7, <3>1
    <3> QED
      BY <2>2, <3>1, <3>2
  <2>3. n \in Nat
    OBVIOUS
  <2> HIDE DEF S
  <2>4. \A k \in 0..n : k \in S
    BY <2>1, <2>2, <2>3, UpTo
  <2> QED
    BY <2>4 DEF S
<1>9. g \in [0..n -> Nat]
  BY <1>5, <1>8
<1> QED
  BY <1>6, <1>7, <1>9

\* What a factor that saturates at u32 says of the exact one.
SaturatedFrom(saturated, exact) ==
    /\ saturated <= exact
    /\ exact <= U32Max => saturated = exact
    /\ exact > U32Max => saturated >= U32Max

\* Multiplication once more keeps the two factors together.
LEMMA OneMoreFactor ==
    ASSUME NEW s \in Nat, NEW e \in Nat, NEW x \in Nat, SaturatedFrom(s, e)
    PROVE  SaturatedFrom(Min({s * x, U32Max}), e * x)
<1> USE WidthsAssumption
<1>1. s * x \in Nat /\ e * x \in Nat
  OBVIOUS
<1>2. s * x <= e * x
  BY DEF SaturatedFrom
<1>3. CASE x = 0
  BY <1>3, MinOfTwo DEF SaturatedFrom
<1>4. CASE x # 0
  <2>1. e <= e * x /\ s <= s * x
    BY <1>4
  <2>2. CASE e <= U32Max
    <3>1. s = e
      BY <2>2 DEF SaturatedFrom
    <3> QED
      BY <1>1, <3>1, MinOfTwo DEF SaturatedFrom
  <2>3. CASE e > U32Max
    <3>1. s >= U32Max
      BY <2>3 DEF SaturatedFrom
    <3> HIDE DEF SaturatedFrom
    <3>2. s * x >= U32Max /\ e * x > U32Max
      BY <1>1, <2>1, <2>3, <3>1
    <3>3. Min({s * x, U32Max}) = U32Max
      BY <1>1, <3>2, MinOfTwo
    <3> QED
      BY <1>1, <3>2, <3>3 DEF SaturatedFrom
  <2> QED
    BY <2>2, <2>3
<1> QED
  BY <1>3, <1>4

\* The factor of for_attempt is the exact one, unless that exceeds u32.
LEMMA FactorIsSaturated ==
    ASSUME NEW p \in RetryPolicies, NEW a \in Nat \ {0}
    PROVE  /\ Factor(p.multiplier, a) \in Nat /\ ExactFactor(p, a) \in Nat
           /\ SaturatedFrom(Factor(p.multiplier, a), ExactFactor(p, a))
<1> USE WidthsAssumption
<1> DEFINE x == p.multiplier
           n == Min({a - 1, MaxExponent})
<1>1. x \in Nat
  BY DEF RetryPolicies
<1>2. n \in 0..MaxExponent
  BY MinOfTwo
<1>3. PICK f \in [0..n -> Nat] :
          /\ SaturatingPow(x, n) = f[n] /\ f[0] = 1
          /\ \A k \in 0..n : k # 0 => f[k] = Min({f[k - 1] * x, U32Max})
  <2>1. n \in Nat
    BY <1>2
  <2> HIDE DEF n, x
  <2> QED
    BY <1>1, <2>1, SaturatingPowSteps, Zenon
<1>4. PICK g \in [0..MaxExponent -> Nat] :
          /\ \A b : ExactFactor(p, b) = g[Min({b - 1, MaxExponent})]
          /\ g[0] = 1
          /\ \A k \in 0..MaxExponent : k # 0 => g[k] = g[k - 1] * x
  BY <1>1, ExactFactorSteps, Zenon
<1>5. Factor(x, a) = f[n] /\ ExactFactor(p, a) = g[n]
  BY <1>3, <1>4 DEF Factor
<1> HIDE DEF n, x
<1> DEFINE S == {k \in 0..n : SaturatedFrom(f[k], g[k])}
<1>6. 0 \in S
  BY <1>2, <1>3, <1>4 DEF SaturatedFrom
<1>7. ASSUME NEW k \in 0..n, k \in S, k < n PROVE k + 1 \in S
  <2>1. k + 1 \in 0..n /\ k + 1 \in 0..MaxExponent /\ k + 1 # 0 /\ (k + 1) - 1 = k
    BY <1>2, <1>7
  <2>2. f[k + 1] = Min({f[k] * x, U32Max}) /\ g[k + 1] = g[k] * x
    BY <1>3, <1>4, <2>1
  <2>3. f[k] \in Nat /\ g[k] \in Nat
    BY <1>2
  <2>4. SaturatedFrom(f[k], g[k])
    BY <1>7
  <2>5. SaturatedFrom(Min({f[k] * x, U32Max}), g[k] * x)
    BY <1>1, <2>3, <2>4, OneMoreFactor
  <2> QED
    BY <2>1, <2>2, <2>5
<1> HIDE DEF S
<1>8. n \in S
  <2>1. \A k \in 0..n : k \in S /\ k < n => k + 1 \in S
    BY <1>7
  <2>2. n \in Nat /\ n \in 0..n
    BY <1>2
  <2> QED
    BY <1>6, <2>1, <2>2, UpTo, Zenon
<1> QED
  BY <1>2, <1>5, <1>8 DEF S, x

\* The delay that a factor makes of a policy.
Capped(p, factor) == Min({p.initial_ms * factor, Cap(p)})

\* A larger factor does not make a shorter delay, and no delay passes the cap.
LEMMA CappedGrows ==
    ASSUME NEW p \in RetryPolicies, NEW f \in Nat, NEW g \in Nat, f <= g
    PROVE  /\ Capped(p, f) \in Nat /\ Capped(p, f) <= Capped(p, g)
           /\ Cap(p) \in 0..U64Max
           /\ p.initial_ms = 0 => Capped(p, f) = 0
<1> DEFINE i == p.initial_ms
<1>1. i \in 0..U64Max /\ p.max_ms \in 0..U64Max
  BY DEF RetryPolicies
<1>2. Cap(p) \in 0..U64Max
  BY <1>1 DEF Cap, Max
<1>3. i \in Nat /\ Cap(p) \in Nat
  BY <1>1, <1>2, WidthsAssumption
<1> HIDE DEF i
<1>4. i * f \in Nat /\ i * g \in Nat /\ i * f <= i * g /\ (i = 0 => i * f = 0)
  BY <1>3
<1>5. /\ Min({i * f, Cap(p)}) = IF i * f <= Cap(p) THEN i * f ELSE Cap(p)
      /\ Min({i * g, Cap(p)}) = IF i * g <= Cap(p) THEN i * g ELSE Cap(p)
  BY <1>3, <1>4, MinOfTwo
<1>6. /\ Min({i * f, Cap(p)}) \in Nat /\ Min({i * f, Cap(p)}) <= Min({i * g, Cap(p)})
      /\ i = 0 => Min({i * f, Cap(p)}) = 0
  BY <1>3, <1>4, <1>5
<1> QED
  BY <1>2, <1>6 DEF Capped, i

\* The width of u64 does not show: the cap is one of its values.
LEMMA DelayIsCapped ==
    ASSUME NEW p \in RetryPolicies, NEW a \in Nat \ {0}
    PROVE  ForAttempt(p, a) = Capped(p, Factor(p.multiplier, a))
<1> DEFINE f == Factor(p.multiplier, a)
           i == p.initial_ms
<1>1. f \in Nat
  BY FactorIsSaturated
<1>2. i \in Nat /\ Cap(p) \in 0..U64Max /\ U64Max \in Nat
  BY <1>1, CappedGrows, WidthsAssumption DEF RetryPolicies
<1>3. i = 0 => Capped(p, f) = 0
  BY <1>1, CappedGrows
<1>4. ForAttempt(p, a) = IF i = 0 THEN 0 ELSE Min({i * f, U64Max, Cap(p)})
  BY DEF ForAttempt, Cap
<1>5. Capped(p, f) = Min({i * f, Cap(p)})
  BY DEF Capped
<1> HIDE DEF f, i
<1>6. i * f \in Nat
  BY <1>1, <1>2
<1> DEFINE x == i * f
           c == Cap(p)
<1>7. x \in Nat /\ c \in Nat /\ c <= U64Max
  BY <1>2, <1>6
<1>8. Min({x, U64Max, c}) = Min({x, c})
  <2> HIDE DEF x, c
  <2>1. Min({x, c}) = IF x <= c THEN x ELSE c
    BY <1>7, MinOfTwo
  <2>2. Min({x, U64Max, c}) = IF x <= c THEN x ELSE c
    BY <1>2, <1>7 DEF Min
  <2> QED
    BY <2>1, <2>2
<1> QED
  BY <1>3, <1>4, <1>5, <1>8 DEF f

\* for_attempt computes the exact delay.
LEMMA DelayIsExact ==
    ASSUME NEW p \in RetryPolicies, NEW a \in Nat \ {0}
    PROVE  ForAttempt(p, a) \in Nat /\ IsExactDelay(p, a, ForAttempt(p, a))
<1> DEFINE f == Factor(p.multiplier, a)
           e == ExactFactor(p, a)
           d == ForAttempt(p, a)
<1>1. f \in Nat /\ e \in Nat /\ SaturatedFrom(f, e)
  BY FactorIsSaturated
<1>2. d = Capped(p, f)
  BY DelayIsCapped
<1>3. /\ IsExactDelay(p, a, d) <=>
             IF e <= U32Max THEN d = Capped(p, e)
             ELSE d <= Capped(p, e) /\ d >= Capped(p, U32Max)
  BY DEF IsExactDelay, Capped
<1> HIDE DEF f, e, d
<1>4. d \in Nat
  BY <1>1, <1>2, CappedGrows
<1>5. CASE e <= U32Max
  BY <1>1, <1>2, <1>3, <1>4, <1>5 DEF SaturatedFrom, d
<1>6. CASE ~(e <= U32Max)
  <2>1. f <= e /\ U32Max <= f /\ U32Max \in Nat
    BY <1>1, <1>6, WidthsAssumption DEF SaturatedFrom
  <2>2. Capped(p, f) <= Capped(p, e) /\ Capped(p, U32Max) <= Capped(p, f)
    BY <1>1, <2>1, CappedGrows
  <2>3. Capped(p, f) \in Nat /\ Capped(p, e) \in Nat /\ Capped(p, U32Max) \in Nat
    BY <1>1, <2>1, CappedGrows
  <2> QED
    BY <1>2, <1>3, <1>4, <1>6, <2>2, <2>3 DEF d
<1> QED
  BY <1>5, <1>6

\* Later attempts of a policy that does not multiply by zero wait as long or longer.
LEMMA DelaysGrow ==
    ASSUME NEW p \in RetryPolicies, p.multiplier > 0,
           NEW a \in Nat \ {0}, NEW b \in Nat \ {0}, a <= b
    PROVE  ForAttempt(p, a) <= ForAttempt(p, b)
<1> USE WidthsAssumption
<1> DEFINE x == p.multiplier
           m == Min({a - 1, MaxExponent})
           n == Min({b - 1, MaxExponent})
<1>1. x \in Nat /\ x >= 1 /\ x <= U32Max
  BY DEF RetryPolicies
<1>2. m \in Nat /\ n \in Nat /\ m <= n
  BY MinOfTwo
<1>3. Factor(x, a) = SaturatingPow(x, m) /\ Factor(x, b) = SaturatingPow(x, n)
  BY DEF Factor
<1> HIDE DEF x, m, n
<1>4. PICK f \in [0..m -> Nat] :
          /\ SaturatingPow(x, m) = f[m] /\ f[0] = 1
          /\ \A k \in 0..m : k # 0 => f[k] = Min({f[k - 1] * x, U32Max})
  BY <1>1, <1>2, SaturatingPowSteps, Zenon
<1>5. PICK g \in [0..n -> Nat] :
          /\ SaturatingPow(x, n) = g[n] /\ g[0] = 1
          /\ \A k \in 0..n : k # 0 => g[k] = Min({g[k - 1] * x, U32Max})
  BY <1>1, <1>2, SaturatingPowSteps, Zenon
<1> DEFINE S == {k \in 0..n : /\ g[k] <= U32Max
                              /\ k <= m => g[k] = f[k]
                              /\ k >= m => g[k] >= f[m]}
<1>6. 0 \in S
  BY <1>1, <1>2, <1>4, <1>5
<1>7. ASSUME NEW k \in 0..n, k \in S, k < n PROVE k + 1 \in S
  <2>1. k + 1 \in 0..n /\ k + 1 # 0 /\ (k + 1) - 1 = k /\ (k + 1 <= m => k + 1 \in 0..m)
    BY <1>2, <1>7
  <2>2. g[k + 1] = Min({g[k] * x, U32Max}) /\ (k + 1 <= m => f[k + 1] = Min({f[k] * x, U32Max}))
    BY <1>4, <1>5, <2>1
  <2>3. g[k] \in Nat /\ g[k] <= U32Max /\ f[m] \in Nat
    BY <1>2, <1>7
  <2>4. g[k] * x \in Nat /\ g[k] * x >= g[k]
    BY <1>1, <2>3
  <2>5. g[k + 1] <= U32Max /\ g[k + 1] >= g[k]
    BY <2>2, <2>3, <2>4, MinOfTwo
  <2>0. k \in Nat /\ (k <= m => g[k] = f[k]) /\ (k >= m => g[k] >= f[m])
    BY <1>7
  <2>8. g[k + 1] \in Nat
    BY <2>1
  <2> HIDE DEF S
  <2>6. k + 1 <= m => g[k + 1] = f[k + 1]
    <3>1. k + 1 <= m => k <= m
      BY <1>2, <2>0
    <3> QED
      BY <2>0, <2>2, <3>1
  <2>7. k + 1 >= m => g[k + 1] >= f[m]
    <3>1. CASE k >= m
      BY <2>0, <2>3, <2>5, <2>8, <3>1
    <3>2. CASE k + 1 = m
      <4>1. k <= m /\ k + 1 <= m
        BY <1>2, <2>0, <3>2
      <4> QED
        BY <1>4, <2>3, <2>6, <2>8, <3>2, <4>1
    <3> QED
      BY <1>2, <2>0, <3>1, <3>2
  <2> QED
    BY <2>1, <2>5, <2>6, <2>7 DEF S
<1> HIDE DEF S
<1>8. n \in S
  <2>1. \A k \in 0..n : k \in S /\ k < n => k + 1 \in S
    BY <1>7
  <2>2. n \in 0..n
    BY <1>2
  <2> QED
    BY <1>2, <1>6, <2>1, <2>2, UpTo, Zenon
<1>9. f[m] <= g[n] /\ f[m] \in Nat /\ g[n] \in Nat
  BY <1>2, <1>8 DEF S
<1> QED
  BY <1>3, <1>4, <1>5, <1>9, DelayIsCapped, CappedGrows DEF x

-----------------------------------------------------------------------------
(* Events of a kind *)

\* The positions of the events of a kind are among finitely many.
LEMMA PositionsAreFinite ==
    ASSUME NEW A \in Seq(Event), NEW k, NEW s
    PROVE  /\ Positions(A, k, s) \subseteq 1..Len(A)
           /\ IsFiniteSet(Positions(A, k, s)) /\ Count(A, k, s) \in Nat
<1>1. Positions(A, k, s) \subseteq 1..Len(A)
  BY DEF Positions
<1>2. IsFiniteSet(1..Len(A))
  BY FS_Interval
<1>3. IsFiniteSet(Positions(A, k, s))
  BY <1>1, <1>2, FS_Subset
<1> QED
  BY <1>1, <1>3, FS_CardinalityType DEF Count

\* One more event.
LEMMA OneMoreEvent ==
    ASSUME NEW A \in Seq(Event), NEW e \in Event, NEW k, NEW s
    PROVE  LET hit == e.kind = k /\ e.step = s
           IN  /\ Positions(Append(A, e), k, s)
                      = Positions(A, k, s) \cup (IF hit THEN {Len(A) + 1} ELSE {})
               /\ Count(Append(A, e), k, s) = Count(A, k, s) + (IF hit THEN 1 ELSE 0)
<1> DEFINE hit == e.kind = k /\ e.step = s
           P   == Positions(A, k, s)
           Q   == Positions(Append(A, e), k, s)
           n   == Len(A)
<1>1. n \in Nat /\ DOMAIN A = 1..n /\ DOMAIN Append(A, e) = 1..(n + 1)
  OBVIOUS
<1>2. /\ \A i \in 1..n : Append(A, e)[i] = A[i]
      /\ Append(A, e)[n + 1] = e
  OBVIOUS
<1>3. Q = P \cup (IF hit THEN {n + 1} ELSE {})
  <2>1. ASSUME NEW i PROVE i \in Q <=> i \in P \cup (IF hit THEN {n + 1} ELSE {})
    <3>1. CASE i = n + 1
      <4>1. n + 1 \in 1..(n + 1) /\ n + 1 \notin 1..n
        BY <1>1
      <4> QED
        BY <1>1, <1>2, <3>1, <4>1 DEF Positions
    <3>2. CASE i # n + 1
      <4>1. i \in 1..(n + 1) <=> i \in 1..n
        BY <1>1, <3>2
      <4> QED
        BY <1>1, <1>2, <3>2, <4>1 DEF Positions
    <3> QED
      BY <3>1, <3>2
  <2> QED
    BY <2>1
<1>4. P \subseteq 1..n /\ IsFiniteSet(P) /\ Cardinality(P) \in Nat
  BY PositionsAreFinite DEF Count
<1>5. Cardinality(Q) = Cardinality(P) + (IF hit THEN 1 ELSE 0)
  <2>1. n + 1 \notin P
    BY <1>1, <1>4
  <2> HIDE DEF P, Q
  <2>2. CASE hit
    <3>1. Q = P \cup {n + 1}
      BY <1>3, <2>2
    <3>2. Cardinality(P \cup {n + 1}) = Cardinality(P) + 1
      BY <1>4, <2>1, FS_AddElement
    <3> QED
      BY <2>2, <3>1, <3>2
  <2>3. CASE ~hit
    <3>1. Q = P
      BY <1>3, <2>3
    <3>2. Cardinality(Q) = Cardinality(P) + 0
      BY <1>4, <3>1
    <3> QED
      BY <2>3, <3>2
  <2> QED
    BY <2>2, <2>3
<1> QED
  BY <1>3, <1>5 DEF Count

\* A step's events behind those emitted before.
LEMMA EventsBehind ==
    ASSUME NEW A \in Seq(Event), NEW B \in Seq(Event), NEW k, NEW s
    PROVE  /\ Positions(A \o B, k, s)
                  = Positions(A, k, s) \cup {Len(A) + i : i \in Positions(B, k, s)}
           /\ Count(A \o B, k, s) = Count(A, k, s) + Count(B, k, s)
<1> DEFINE n == Len(A)
           P == Positions(A, k, s)
           Q == Positions(B, k, s)
           R == {n + i : i \in Q}
<1>1. /\ n \in Nat /\ DOMAIN A = 1..n /\ Len(B) \in Nat /\ DOMAIN B = 1..Len(B)
      /\ A \o B \in Seq(Event) /\ DOMAIN (A \o B) = 1..(n + Len(B))
  OBVIOUS
<1>2. /\ \A i \in 1..n : (A \o B)[i] = A[i]
      /\ \A i \in 1..Len(B) : (A \o B)[n + i] = B[i]
  OBVIOUS
<1>3. /\ P \subseteq 1..n /\ IsFiniteSet(P) /\ Cardinality(P) \in Nat
      /\ Q \subseteq 1..Len(B) /\ IsFiniteSet(Q) /\ Cardinality(Q) \in Nat
  BY PositionsAreFinite DEF Count
<1>4. Positions(A \o B, k, s) = P \cup R
  <2>1. ASSUME NEW i PROVE i \in Positions(A \o B, k, s) <=> i \in P \cup R
    <3>1. CASE i \in 1..n
      <4>1. i \in 1..(n + Len(B)) /\ i \notin R
        BY <1>1, <1>3, <3>1
      <4> QED
        BY <1>1, <1>2, <3>1, <4>1 DEF Positions
    <3>2. CASE i \in (n + 1)..(n + Len(B))
      <4>1. i - n \in 1..Len(B) /\ i = n + (i - n) /\ i \notin P /\ i \in 1..(n + Len(B))
        BY <1>1, <1>3, <3>2
      <4>2. (A \o B)[i] = B[i - n]
        BY <1>2, <4>1
      <4>3. i \in Positions(A \o B, k, s) <=> i - n \in Q
        BY <1>1, <4>1, <4>2 DEF Positions
      <4>4. \A j \in Q : n + j = i => j = i - n
        BY <1>1, <1>3, <4>1
      <4>5. i \in R <=> i - n \in Q
        BY <4>1, <4>4
      <4> QED
        BY <4>1, <4>3, <4>5
    <3>3. CASE i \notin 1..(n + Len(B))
      <4>1. i \notin P /\ i \notin R
        BY <1>1, <1>3, <3>3
      <4> QED
        BY <1>1, <3>3, <4>1 DEF Positions
    <3> QED
      BY <1>1, <3>1, <3>2, <3>3
  <2> QED
    BY <2>1
<1>5. IsFiniteSet(R) /\ Cardinality(R) = Cardinality(Q)
  <2> DEFINE f == [i \in Q |-> n + i]
  <2>1. f \in [Q -> R] /\ (\A i, j \in Q : f[i] = f[j] => i = j) /\ \A j \in R : \E i \in Q : f[i] = j
    BY <1>1, <1>3
  <2> HIDE DEF f, Q, R
  <2>2. f \in Bijection(Q, R)
    BY <2>1 DEF Bijection, Injection, Surjection, IsInjective
  <2>3. ExistsBijection(Q, R)
    BY <2>2 DEF ExistsBijection
  <2> QED
    BY <1>3, <2>3, FS_Bijection
<1>6. P \cap R = {}
  BY <1>1, <1>3
<1> HIDE DEF P, Q, R
<1>7. Cardinality(P \cup R) = Cardinality(P) + Cardinality(Q)
  <2>1. Cardinality(P \cup R) = Cardinality(P) + Cardinality(R) - Cardinality(P \cap R)
    BY <1>3, <1>5, FS_Union
  <2>2. Cardinality(P \cap R) = 0
    BY <1>6, FS_EmptySet
  <2> QED
    BY <1>3, <1>5, <2>1, <2>2
<1> QED
  BY <1>4, <1>7 DEF Count, P, Q, R

-----------------------------------------------------------------------------
(* The inductive invariant *)

\* The events of one execute_step call tell its locals.
EventsTellLoop(s, me) ==
    /\ \A i \in DOMAIN me.events : me.events[i].step = s
    /\ Count(me.events, "StepStarted", s) = me.attempts
    /\ Count(me.events, "StepFallbackSelected", s) = (IF me.usedFallback THEN 1 ELSE 0)
    /\ Count(me.events, "StepSucceeded", s) = (IF me.at = "Succeeded" THEN 1 ELSE 0)
    /\ Count(me.events, "StepFailed", s) = (IF me.at = "Failed" THEN 1 ELSE 0)

\* A spent budget is passed only by the attempt right after the selection of the
\* fallback.
LastStart(s, es, i) ==
    i \in Positions(es, "StepStarted", s) /\ \A j \in Positions(es, "StepStarted", s) : j <= i

BudgetKept(s, me) ==
    /\ me.attempts <= Budget(s) + 1
    /\ me.attempts > Budget(s) =>
           /\ me.fallbackAttempted
           /\ \E i \in DOMAIN me.events :
                  LastStart(s, me.events, i) /\ i > 1 /\ me.events[i - 1].kind = "StepFallbackSelected"
    /\ me.fallbackAttempted => me.usedFallback
    /\ me.at = "Executing" => me.attempts > 0 /\ (me.usedFallback => me.fallbackAttempted)
    /\ me.at = "Looping" /\ me.usedFallback /\ ~me.fallbackAttempted =>
           /\ Len(me.events) > 0
           /\ me.events[Len(me.events)].kind = "StepFallbackSelected"

\* Each delay is that of its attempt, and no attempt has two.
DelaysFit(p, s, me) ==
    /\ Len(me.slept) = Count(me.events, "StepRetrying", s)
    /\ \A i \in Positions(me.events, "StepRetrying", s) :
           \E j \in 1..Len(me.slept) : me.slept[j].attempt = me.events[i].attempt
    /\ \A j \in 1..Len(me.slept) :
           /\ me.slept[j].attempt \in 1..me.attempts
           /\ me.at = "Executing" => me.slept[j].attempt < me.attempts
           /\ me.slept[j].delay = ForAttempt(p, me.slept[j].attempt)
    /\ \A i, j \in 1..Len(me.slept) : i < j => me.slept[i].attempt < me.slept[j].attempt

LoopInv(p, s, me) ==
    me \in Loop /\ EventsTellLoop(s, me) /\ BudgetKept(s, me) /\ DelaysFit(p, s, me)

\* Events that tell the records of the steps.
Tells(events, records) ==
    \A s \in Steps :
        /\ records[s].attempts = Count(events, "StepStarted", s)
        /\ records[s].fallbackUsed <=> Positions(events, "StepFallbackSelected", s) # {}
        /\ Count(events, "StepSucceeded", s) = (IF records[s].status = "Succeeded" THEN 1 ELSE 0)
        /\ Count(events, "StepFailed", s) = (IF records[s].status = "Failed" THEN 1 ELSE 0)

DependenciesFirst(events) ==
    \A s \in Steps : \A i \in Positions(events, "StepStarted", s) : \A d \in Deps[s] :
        \E j \in Positions(events, "StepSucceeded", d) : j < i

\* What is emitted and what is about to be.
Emissions == sink \o outbox

LogsInv ==
    /\ run.events = sink
    /\ Tells(Emissions, run.steps) /\ DependenciesFirst(Emissions)
    /\ Tells(stored.events, stored.steps) /\ IsPrefix(stored.events, sink)

QueueInv ==
    /\ \A i, j \in 1..Len(queue) : queue[i] = queue[j] => i = j
    /\ \A i \in 1..Len(queue) : queue[i] \in Ready
    /\ phase \in {"Opening", "Scanning", "Closing"} => queue = <<>>
    /\ phase = "Running" => \A s \in Steps \ Chunk : loop[s] = Idle
    /\ phase # "Running" => \A s \in Steps : loop[s].at \in {"Idle", "Succeeded", "Failed"}

NoneMissing == \A s \in Steps : run.steps[s].status = "Succeeded"

\* What run.status says while the call goes on.
StatusInv ==
    /\ \A s \in Steps : run.steps[s].status = "Absent" => run.steps[s] = NoRecord
    /\ phase \in {"Scanning", "Running"} => outbox = <<>>
    /\ phase \in {"Opening", "Running", "Collecting"} => run.status = "Running"
    /\ phase \in {"Opening", "Running"} => ~Stopped(run)
    /\ phase = "Scanning" =>
           run.status = (IF Stopped(run) THEN "Failed" ELSE "Running")
    /\ phase \in {"Closing", "Returned"} =>
           /\ run.status = (IF run.gatesPassed /\ NoneMissing THEN "Succeeded" ELSE "Failed")
           /\ (\E s \in Steps : run.steps[s].status = "Absent") => Stopped(run)
    /\ phase = "Returned" => stored = run

ExecInv ==
    /\ TypeOK
    /\ \A s \in Steps : LoopInv(policy, s, loop[s])
    /\ LogsInv /\ QueueInv /\ StatusInv

-----------------------------------------------------------------------------
(* The loop of execute_step *)

\* At least one attempt is always allowed, and 0 names no step.
LEMMA BudgetType ==
    ASSUME NEW s \in Steps PROVE Budget(s) \in Nat \ {0} /\ s # 0
BY ExecutorAssumption DEF Budget, Steps

\* The loop of a step that was not entered, or was just entered, told nothing.
LEMMA FreshLoop ==
    ASSUME NEW p, NEW s \in Steps, NEW at \in {"Idle", "Looping"}
    PROVE  LoopInv(p, s, [Idle EXCEPT !.at = at])
<1> DEFINE me == [Idle EXCEPT !.at = at]
<1>0. <<>> \in Seq(Event) /\ <<>> \in Seq(Delay) /\ 0 \in Nat
  OBVIOUS
<1>1. /\ me \in Loop /\ me.at = at /\ me.attempts = 0 /\ me.usedFallback = FALSE
      /\ me.fallbackAttempted = FALSE /\ me.slept = <<>> /\ me.events = <<>>
  BY <1>0 DEF Idle, Loop
<1> HIDE DEF me
<1>2. \A k : Positions(me.events, k, s) = {} /\ Count(me.events, k, s) = 0
  <2>1. DOMAIN me.events = {}
    BY <1>1
  <2>2. \A k : Positions(me.events, k, s) = {}
    BY <2>1 DEF Positions
  <2> QED
    BY <2>2, FS_EmptySet DEF Count
<1>3. at # "Succeeded" /\ at # "Failed" /\ at # "Executing"
  OBVIOUS
<1>4. EventsTellLoop(s, me)
  BY <1>1, <1>2, <1>3 DEF EventsTellLoop
<1>5. BudgetKept(s, me)
  BY <1>1, <1>3, BudgetType DEF BudgetKept
<1>6. DelaysFit(p, s, me)
  BY <1>1, <1>2 DEF DelaysFit
<1> QED
  BY <1>1, <1>4, <1>5, <1>6 DEF LoopInv, me

\* What one more event of the loop changes.
OneMore(s, old, kind, es) ==
    /\ es \in Seq(Event) /\ Len(es) = Len(old) + 1 /\ Len(old) \in Nat
    /\ DOMAIN es = 1..(Len(old) + 1) /\ DOMAIN old = 1..Len(old)
    /\ es[Len(old) + 1].kind = kind
    /\ \A i \in 1..Len(old) : es[i] = old[i]
    /\ \A i \in DOMAIN es : es[i].step = s
    /\ \A k : /\ Count(es, k, s) = Count(old, k, s) + (IF kind = k THEN 1 ELSE 0)
              /\ Count(old, k, s) \in Nat
              /\ Positions(es, k, s)
                     = Positions(old, k, s) \cup (IF kind = k THEN {Len(old) + 1} ELSE {})
              /\ Positions(old, k, s) \subseteq 1..Len(old)

\* The event of a step's loop is one more of its kind.
LEMMA LoopEvent ==
    ASSUME NEW s \in Steps, NEW me \in Loop, NEW kind \in EventKinds, NEW n \in Nat,
           EventsTellLoop(s, me)
    PROVE  /\ OneMore(s, me.events, kind, Append(me.events, StepEvent(kind, s, n)))
           /\ Append(me.events, StepEvent(kind, s, n))[Len(me.events) + 1].attempt = n
<1> DEFINE e  == StepEvent(kind, s, n)
           es == Append(me.events, e)
<1>1. e \in Event /\ e.kind = kind /\ e.step = s /\ e.attempt = n
  BY DEF StepEvent, Event
<1>2. me.events \in Seq(Event)
  BY DEF Loop
<1> HIDE DEF e
<1>3. /\ es \in Seq(Event) /\ Len(es) = Len(me.events) + 1 /\ Len(me.events) \in Nat
      /\ es[Len(me.events) + 1] = e
      /\ \A i \in 1..Len(me.events) : es[i] = me.events[i]
      /\ DOMAIN es = 1..(Len(me.events) + 1) /\ DOMAIN me.events = 1..Len(me.events)
  BY <1>1, <1>2
<1>4. \A k : /\ Count(es, k, s) = Count(me.events, k, s) + (IF kind = k THEN 1 ELSE 0)
             /\ Positions(es, k, s) = Positions(me.events, k, s)
                    \cup (IF kind = k THEN {Len(me.events) + 1} ELSE {})
  BY <1>1, <1>2, OneMoreEvent
<1>5. \A k : Count(me.events, k, s) \in Nat /\ Positions(me.events, k, s) \subseteq 1..Len(me.events)
  BY <1>2, PositionsAreFinite
<1>6. \A i \in DOMAIN es : es[i].step = s
  BY <1>1, <1>3 DEF EventsTellLoop
<1> HIDE DEF es
<1>7. OneMore(s, me.events, kind, es)
  BY <1>1, <1>3, <1>4, <1>5, <1>6 DEF OneMore
<1> QED
  BY <1>1, <1>3, <1>7 DEF es, e

\* It leaves the events of the other kinds alone.
LEMMA OtherKinds ==
    ASSUME NEW s, NEW old, NEW kind, NEW es, OneMore(s, old, kind, es), NEW k, k # kind
    PROVE  /\ Count(es, k, s) = Count(old, k, s)
           /\ Positions(es, k, s) = Positions(old, k, s)
           /\ \A i \in Positions(old, k, s) : es[i] = old[i]
<1>1. /\ Count(es, k, s) = Count(old, k, s) + 0 /\ Count(old, k, s) \in Nat
      /\ Positions(es, k, s) = Positions(old, k, s) \cup {}
      /\ Positions(old, k, s) \subseteq 1..Len(old)
  BY DEF OneMore
<1>2. \A i \in 1..Len(old) : es[i] = old[i]
  BY DEF OneMore
<1> QED
  BY <1>1, <1>2

\* The last start stays the last one, behind the same event.
LEMMA LastStartStays ==
    ASSUME NEW s \in Steps, NEW me \in Loop, NEW kind \in EventKinds, NEW n \in Nat,
           EventsTellLoop(s, me), kind # "StepStarted",
           \E i \in DOMAIN me.events :
               LastStart(s, me.events, i) /\ i > 1 /\ me.events[i - 1].kind = "StepFallbackSelected"
    PROVE  LET es == Append(me.events, StepEvent(kind, s, n))
           IN  \E i \in DOMAIN es :
                   LastStart(s, es, i) /\ i > 1 /\ es[i - 1].kind = "StepFallbackSelected"
<1> DEFINE es == Append(me.events, StepEvent(kind, s, n))
<1>1. OneMore(s, me.events, kind, es)
  BY LoopEvent
<1> HIDE DEF es
<1>5. Positions(es, "StepStarted", s) = Positions(me.events, "StepStarted", s)
  BY <1>1 DEF OneMore
<1>2. PICK i \in DOMAIN me.events :
          LastStart(s, me.events, i) /\ i > 1 /\ me.events[i - 1].kind = "StepFallbackSelected"
  OBVIOUS
<1>3. i \in DOMAIN es /\ i - 1 \in 1..Len(me.events)
  BY <1>1, <1>2 DEF OneMore
<1>4. LastStart(s, es, i) /\ es[i - 1].kind = "StepFallbackSelected"
  BY <1>1, <1>2, <1>3, <1>5 DEF LastStart, OneMore
<1> QED
  BY <1>2, <1>3, <1>4 DEF es

\* An attempt starts: the budget has room, or the fallback was just selected.
LEMMA StartKeepsLoop ==
    ASSUME NEW p \in RetryPolicies, NEW s \in Steps, NEW me, LoopInv(p, s, me),
           me.at = "Looping", me.attempts < Budget(s) \/ (me.usedFallback /\ ~me.fallbackAttempted)
    PROVE  LoopInv(p, s, [me EXCEPT
               !.at = "Executing", !.attempts = me.attempts + 1, !.fallbackAttempted = me.usedFallback,
               !.events = Append(me.events, StepEvent("StepStarted", s, me.attempts + 1))])
<1> DEFINE es  == Append(me.events, StepEvent("StepStarted", s, me.attempts + 1))
           new == [me EXCEPT !.at = "Executing", !.attempts = me.attempts + 1,
                             !.fallbackAttempted = me.usedFallback, !.events = es]
<1>1. me \in Loop /\ EventsTellLoop(s, me) /\ BudgetKept(s, me) /\ DelaysFit(p, s, me)
  BY DEF LoopInv
<1>2. /\ me.attempts \in Nat /\ me.usedFallback \in BOOLEAN /\ me.fallbackAttempted \in BOOLEAN
      /\ Budget(s) \in Nat /\ Budget(s) > 0
  BY <1>1, BudgetType DEF Loop
<1>3. OneMore(s, me.events, "StepStarted", es)
  <2>1. me.attempts + 1 \in Nat /\ "StepStarted" \in EventKinds
    BY <1>2 DEF EventKinds
  <2> QED
    BY <1>1, <2>1, LoopEvent
<1> HIDE DEF es
<1>4. es \in Seq(Event)
  BY <1>3 DEF OneMore
<1>5. /\ new \in Loop /\ new.at = "Executing" /\ new.attempts = me.attempts + 1
      /\ new.usedFallback = me.usedFallback /\ new.fallbackAttempted = me.usedFallback
      /\ new.slept = me.slept /\ new.events = es
  <2> DEFINE n == me.attempts + 1
             u == me.usedFallback
  <2>1. n \in Nat /\ u \in BOOLEAN
    BY <1>2
  <2> HIDE DEF n, u
  <2> DEFINE x == [me EXCEPT !.at = "Executing", !.attempts = n, !.fallbackAttempted = u,
                             !.events = es]
  <2>2. /\ x \in Loop /\ x.at = "Executing" /\ x.attempts = n
        /\ x.usedFallback = me.usedFallback /\ x.fallbackAttempted = u
        /\ x.slept = me.slept /\ x.events = es
    BY <1>1, <1>4, <2>1 DEF Loop
  <2>3. x = new
    BY DEF n, u
  <2> HIDE DEF x, new
  <2> QED
    BY <2>2, <2>3 DEF n, u
<1> HIDE DEF new
<1>6. EventsTellLoop(s, new)
  BY <1>1, <1>2, <1>3, <1>5 DEF EventsTellLoop, OneMore
<1>7. BudgetKept(s, new)
  <2>1. me.attempts <= Budget(s)
    BY <1>1, <1>2 DEF BudgetKept
  <2>2. ASSUME new.attempts > Budget(s)
        PROVE  /\ new.fallbackAttempted
               /\ \E i \in DOMAIN es :
                      LastStart(s, es, i) /\ i > 1 /\ es[i - 1].kind = "StepFallbackSelected"
    <3>1. me.usedFallback /\ ~me.fallbackAttempted
      BY <1>2, <1>5, <2>2
    <3>2. Len(me.events) > 0 /\ me.events[Len(me.events)].kind = "StepFallbackSelected"
      BY <1>1, <3>1 DEF BudgetKept
    <3> DEFINE i == Len(me.events) + 1
    <3>3. i \in DOMAIN es /\ i > 1 /\ i - 1 = Len(me.events) /\ Len(me.events) \in 1..Len(me.events)
      BY <1>3, <3>2 DEF OneMore
    <3>4. es[i - 1].kind = "StepFallbackSelected"
      BY <1>3, <3>2, <3>3 DEF OneMore
    <3>5. LastStart(s, es, i)
      BY <1>3 DEF OneMore, LastStart
    <3> QED
      BY <1>5, <3>1, <3>3, <3>4, <3>5
  <2>3. new.attempts <= Budget(s) + 1 /\ new.attempts > 0
    BY <1>2, <1>5, <2>1
  <2> QED
    BY <1>5, <2>2, <2>3 DEF BudgetKept
<1>8. DelaysFit(p, s, new)
  <2>1. /\ Count(es, "StepRetrying", s) = Count(me.events, "StepRetrying", s)
        /\ Positions(es, "StepRetrying", s) = Positions(me.events, "StepRetrying", s)
        /\ \A i \in Positions(me.events, "StepRetrying", s) : es[i] = me.events[i]
    BY <1>3, OtherKinds
  <2>2. \A j \in 1..Len(me.slept) : me.slept[j].attempt \in 1..me.attempts
    BY <1>1 DEF DelaysFit
  <2>3. \A j \in 1..Len(me.slept) : me.slept[j].attempt \in 1..new.attempts
                                        /\ me.slept[j].attempt < new.attempts
    BY <1>2, <1>5, <2>2
  <2> QED
    BY <1>1, <1>5, <2>1, <2>3 DEF DelaysFit
<1> QED
  BY <1>5, <1>6, <1>7, <1>8 DEF LoopInv, new, es

\* The loop is left with the event of its result.
LEMMA EndKeepsLoop ==
    ASSUME NEW p \in RetryPolicies, NEW s \in Steps, NEW me, LoopInv(p, s, me),
           me.at \in {"Looping", "Executing"},
           NEW at, NEW kind,
           \/ at = "Succeeded" /\ kind = "StepSucceeded"
           \/ at = "Failed" /\ kind = "StepFailed"
    PROVE  LoopInv(p, s, [me EXCEPT
               !.at = at, !.events = Append(me.events, StepEvent(kind, s, me.attempts))])
<1> DEFINE es  == Append(me.events, StepEvent(kind, s, me.attempts))
           new == [me EXCEPT !.at = at, !.events = es]
<1>1. me \in Loop /\ EventsTellLoop(s, me) /\ BudgetKept(s, me) /\ DelaysFit(p, s, me)
  BY DEF LoopInv
<1>2. kind \in EventKinds /\ kind # "StepStarted" /\ me.attempts \in Nat
  BY <1>1 DEF EventKinds, Loop
<1>3. OneMore(s, me.events, kind, es)
  BY <1>1, <1>2, LoopEvent
<1>4. (\E i \in DOMAIN me.events :
           LastStart(s, me.events, i) /\ i > 1 /\ me.events[i - 1].kind = "StepFallbackSelected")
      => \E i \in DOMAIN es :
             LastStart(s, es, i) /\ i > 1 /\ es[i - 1].kind = "StepFallbackSelected"
  BY <1>1, <1>2, LastStartStays
<1> HIDE DEF es
<1>5. es \in Seq(Event)
  BY <1>3 DEF OneMore
<1>6. /\ new \in Loop /\ new.at = at /\ new.attempts = me.attempts
      /\ new.usedFallback = me.usedFallback /\ new.fallbackAttempted = me.fallbackAttempted
      /\ new.slept = me.slept /\ new.events = es
  BY <1>1, <1>5 DEF Loop
<1> HIDE DEF new
<1>7. EventsTellLoop(s, new)
  BY <1>1, <1>2, <1>3, <1>6 DEF EventsTellLoop, OneMore
<1>8. BudgetKept(s, new)
  BY <1>1, <1>4, <1>6 DEF BudgetKept
<1>9. DelaysFit(p, s, new)
  <2>1. /\ Count(es, "StepRetrying", s) = Count(me.events, "StepRetrying", s)
        /\ Positions(es, "StepRetrying", s) = Positions(me.events, "StepRetrying", s)
        /\ \A i \in Positions(me.events, "StepRetrying", s) : es[i] = me.events[i]
    BY <1>2, <1>3, OtherKinds
  <2> QED
    BY <1>1, <1>6, <2>1 DEF DelaysFit
<1> QED
  BY <1>6, <1>7, <1>8, <1>9 DEF LoopInv, new, es

\* A failed attempt selects the fallback, or is followed by another without an event.
LEMMA FallbackKeepsLoop ==
    ASSUME NEW p \in RetryPolicies, NEW s \in Steps, NEW me, LoopInv(p, s, me),
           me.at = "Executing", ~me.usedFallback
    PROVE  LoopInv(p, s, [me EXCEPT
               !.at = "Looping", !.usedFallback = TRUE,
               !.events = Append(me.events, StepEvent("StepFallbackSelected", s, me.attempts))])
<1> DEFINE kind == "StepFallbackSelected"
           es   == Append(me.events, StepEvent(kind, s, me.attempts))
           new  == [me EXCEPT !.at = "Looping", !.usedFallback = TRUE, !.events = es]
<1>1. me \in Loop /\ EventsTellLoop(s, me) /\ BudgetKept(s, me) /\ DelaysFit(p, s, me)
  BY DEF LoopInv
<1>2. kind \in EventKinds /\ me.attempts \in Nat
  BY <1>1 DEF EventKinds, Loop
<1>3. OneMore(s, me.events, kind, es)
  BY <1>1, <1>2, LoopEvent
<1> HIDE DEF es
<1>4. es \in Seq(Event)
  BY <1>3 DEF OneMore
<1>5. /\ new \in Loop /\ new.at = "Looping" /\ new.attempts = me.attempts
      /\ new.usedFallback = TRUE /\ new.fallbackAttempted = me.fallbackAttempted
      /\ new.slept = me.slept /\ new.events = es
  BY <1>1, <1>4 DEF Loop
<1> HIDE DEF new
<1>6. EventsTellLoop(s, new)
  BY <1>1, <1>2, <1>3, <1>5 DEF EventsTellLoop, OneMore
<1>7. BudgetKept(s, new)
  <2>1. ~(me.attempts > Budget(s)) /\ ~me.fallbackAttempted
    BY <1>1 DEF BudgetKept
  <2>2. Len(es) > 0 /\ es[Len(es)].kind = kind
    BY <1>3 DEF OneMore
  <2> QED
    BY <1>1, <1>5, <2>1, <2>2 DEF BudgetKept
<1>8. DelaysFit(p, s, new)
  <2>1. /\ Count(es, "StepRetrying", s) = Count(me.events, "StepRetrying", s)
        /\ Positions(es, "StepRetrying", s) = Positions(me.events, "StepRetrying", s)
        /\ \A i \in Positions(me.events, "StepRetrying", s) : es[i] = me.events[i]
    BY <1>2, <1>3, OtherKinds
  <2> QED
    BY <1>1, <1>5, <2>1 DEF DelaysFit
<1> QED
  BY <1>5, <1>6, <1>7, <1>8 DEF LoopInv, new, es

\* The loop goes round without an event.
LEMMA RoundKeepsLoop ==
    ASSUME NEW p \in RetryPolicies, NEW s \in Steps, NEW me, LoopInv(p, s, me),
           me.at = "Executing"
    PROVE  LoopInv(p, s, [me EXCEPT !.at = "Looping"])
<1> DEFINE new == [me EXCEPT !.at = "Looping"]
<1>1. me \in Loop /\ EventsTellLoop(s, me) /\ BudgetKept(s, me) /\ DelaysFit(p, s, me)
  BY DEF LoopInv
<1>2. /\ new \in Loop /\ new.at = "Looping" /\ new.attempts = me.attempts
      /\ new.usedFallback = me.usedFallback /\ new.fallbackAttempted = me.fallbackAttempted
      /\ new.slept = me.slept /\ new.events = me.events
  BY <1>1 DEF Loop
<1> HIDE DEF new
<1>3. EventsTellLoop(s, new)
  BY <1>1, <1>2 DEF EventsTellLoop
<1>4. BudgetKept(s, new)
  BY <1>1, <1>2 DEF BudgetKept
<1>5. DelaysFit(p, s, new)
  BY <1>1, <1>2 DEF DelaysFit
<1> QED
  BY <1>2, <1>3, <1>4, <1>5 DEF LoopInv, new

\* A failed attempt is retried after the delay of its number.
LEMMA RetryKeepsLoop ==
    ASSUME NEW p \in RetryPolicies, NEW s \in Steps, NEW me, LoopInv(p, s, me),
           me.at = "Executing"
    PROVE  LoopInv(p, s, [me EXCEPT
               !.at = "Looping",
               !.slept = Append(me.slept, [attempt |-> me.attempts,
                                           delay   |-> ForAttempt(p, me.attempts)]),
               !.events = Append(me.events, StepEvent("StepRetrying", s, me.attempts))])
<1> DEFINE n   == me.attempts
           d   == [attempt |-> n, delay |-> ForAttempt(p, n)]
           sl  == Append(me.slept, d)
           es  == Append(me.events, StepEvent("StepRetrying", s, n))
           new == [me EXCEPT !.at = "Looping", !.slept = sl, !.events = es]
           m   == Len(me.slept)
<1>1. me \in Loop /\ EventsTellLoop(s, me) /\ BudgetKept(s, me) /\ DelaysFit(p, s, me)
  BY DEF LoopInv
<1>2. n \in Nat \ {0} /\ me.slept \in Seq(Delay) /\ "StepRetrying" \in EventKinds
  BY <1>1 DEF EventKinds, Loop, BudgetKept
<1>3. OneMore(s, me.events, "StepRetrying", es) /\ es[Len(me.events) + 1].attempt = n
  BY <1>1, <1>2, LoopEvent
<1>4. d \in Delay /\ d.attempt = n /\ d.delay = ForAttempt(p, n)
  BY <1>2, DelayIsExact DEF Delay
<1> HIDE DEF d
<1>5. /\ sl \in Seq(Delay) /\ m \in Nat /\ Len(sl) = m + 1 /\ sl[m + 1] = d
      /\ \A j \in 1..m : sl[j] = me.slept[j]
  BY <1>2, <1>4
<1>6. (\E i \in DOMAIN me.events :
           LastStart(s, me.events, i) /\ i > 1 /\ me.events[i - 1].kind = "StepFallbackSelected")
      => \E i \in DOMAIN es :
             LastStart(s, es, i) /\ i > 1 /\ es[i - 1].kind = "StepFallbackSelected"
  BY <1>1, <1>2, LastStartStays
<1> HIDE DEF es, sl
<1>7. es \in Seq(Event)
  BY <1>3 DEF OneMore
<1>8. /\ new \in Loop /\ new.at = "Looping" /\ new.attempts = n
      /\ new.usedFallback = me.usedFallback /\ new.fallbackAttempted = me.fallbackAttempted
      /\ new.slept = sl /\ new.events = es
  BY <1>1, <1>5, <1>7 DEF Loop
<1> HIDE DEF new
<1>9. EventsTellLoop(s, new)
  <2>1. \A k \in {"StepStarted", "StepFallbackSelected", "StepSucceeded", "StepFailed"} :
            Count(es, k, s) = Count(me.events, k, s)
    BY <1>3, OtherKinds
  <2> QED
    BY <1>1, <1>3, <1>8, <2>1 DEF EventsTellLoop, OneMore
<1>10. BudgetKept(s, new)
  BY <1>1, <1>6, <1>8 DEF BudgetKept
<1>11. DelaysFit(p, s, new)
  <2> DEFINE P == Positions(me.events, "StepRetrying", s)
  <2>1. /\ Count(es, "StepRetrying", s) = m + 1
        /\ Positions(es, "StepRetrying", s) = P \cup {Len(me.events) + 1}
        /\ \A i \in P : es[i] = me.events[i]
    <3>1. /\ Count(es, "StepRetrying", s) = Count(me.events, "StepRetrying", s) + 1
          /\ Positions(es, "StepRetrying", s) = P \cup {Len(me.events) + 1}
      BY <1>3 DEF OneMore
    <3>2. \A i \in P : es[i] = me.events[i]
      BY <1>3 DEF OneMore
    <3> QED
      BY <1>1, <3>1, <3>2 DEF DelaysFit
  <2>2. /\ \A i \in P : \E j \in 1..m : me.slept[j].attempt = me.events[i].attempt
        /\ \A j \in 1..m : /\ me.slept[j].attempt \in 1..n /\ me.slept[j].attempt < n
                           /\ me.slept[j].delay = ForAttempt(p, me.slept[j].attempt)
        /\ \A i, j \in 1..m : i < j => me.slept[i].attempt < me.slept[j].attempt
    BY <1>1 DEF DelaysFit
  <2> HIDE DEF P, n, m
  <2>3. \A j \in 1..(m + 1) : j \in 1..m \/ j = m + 1
    BY <1>5
  <2>4. m + 1 \in 1..(m + 1) /\ \A j \in 1..m : j \in 1..(m + 1)
    BY <1>5
  <2>5. \A i \in P \cup {Len(me.events) + 1} : \E j \in 1..(m + 1) : sl[j].attempt = es[i].attempt
    <3>1. \A i \in P : \E j \in 1..(m + 1) : sl[j].attempt = es[i].attempt
      BY <1>5, <2>1, <2>2, <2>4
    <3>2. sl[m + 1].attempt = es[Len(me.events) + 1].attempt
      BY <1>3, <1>4, <1>5
    <3> QED
      BY <2>4, <3>1, <3>2
  <2>6. \A j \in 1..(m + 1) : sl[j].attempt \in 1..n /\ sl[j].delay = ForAttempt(p, sl[j].attempt)
    BY <1>2, <1>4, <1>5, <2>2, <2>3
  <2>7. ASSUME NEW i \in 1..(m + 1), NEW j \in 1..(m + 1), i < j
        PROVE  sl[i].attempt < sl[j].attempt
    <3>1. i \in 1..m
      BY <1>5, <2>7
    <3>2. CASE j \in 1..m
      BY <1>5, <2>2, <2>7, <3>1, <3>2
    <3>3. CASE j = m + 1
      BY <1>4, <1>5, <2>2, <3>1, <3>3
    <3> QED
      BY <2>3, <3>2, <3>3
  <2>8. /\ Len(new.slept) = m + 1 /\ new.attempts = n /\ new.at # "Executing"
        /\ new.slept = sl /\ new.events = es
    BY <1>5, <1>8 DEF n
  <2> QED
    BY <2>1, <2>5, <2>6, <2>7, <2>8 DEF DelaysFit
<1> QED
  BY <1>8, <1>9, <1>10, <1>11 DEF LoopInv, new, es, sl, d

-----------------------------------------------------------------------------
(* The loops of a chunk *)

\* The delays of the call are computed from a policy of the code's types.
LEMMA PolicyType ==
    ASSUME TypeOK PROVE policy \in RetryPolicies
BY ExecutorAssumption DEF TypeOK

\* A loop makes a step of its own: the rest of the call waits for the chunk.
LEMMA LoopSteps ==
    ASSUME ExecInv, NEW s \in Chunk, s \in Steps, phase = "Running", NEW new,
           LoopInv(policy, s, new), loop' = [loop EXCEPT ![s] = new],
           UNCHANGED <<policy, phase, run, queue, outbox, sink, stored>>
    PROVE  ExecInv'
<1>1. loop \in [Steps -> Loop] /\ new \in Loop
  BY DEF ExecInv, TypeOK, LoopInv
<1>2. loop'[s] = new /\ \A t \in Steps : t # s => loop'[t] = loop[t]
  BY <1>1
<1>3. TypeOK'
  BY <1>1 DEF ExecInv, TypeOK
<1>4. ASSUME NEW t \in Steps PROVE LoopInv(policy', t, loop'[t])
  <2>1. LoopInv(policy, t, loop[t])
    BY DEF ExecInv
  <2>2. CASE t = s
    BY <1>2, <2>2
  <2>3. CASE t # s
    BY <1>2, <2>1, <2>3
  <2> QED
    BY <2>2, <2>3
<1>5. LogsInv'
  BY DEF ExecInv, LogsInv, Emissions
<1>6. Chunk' = Chunk /\ Ready' = Ready
  BY DEF Chunk, Ready
<1>7. QueueInv'
  <2>1. QueueInv
    BY DEF ExecInv
  <2>2. \A t \in Steps \ Chunk : loop'[t] = Idle
    BY <1>2, <2>1 DEF QueueInv
  <2> QED
    BY <1>6, <2>1, <2>2 DEF QueueInv
<1>8. StatusInv'
  BY DEF ExecInv, StatusInv, NoneMissing, Stopped
<1> QED
  BY <1>3, <1>4, <1>5, <1>7, <1>8 DEF ExecInv

\* What execute_step does to its locals keeps their invariant.
LEMMA StepLoopInv ==
    ASSUME ExecInv, NEW s \in Steps, StepLoop(s) PROVE ExecInv'
<1> DEFINE me == loop[s]
<1>1. /\ LoopInv(policy, s, me) /\ policy \in RetryPolicies /\ me \in Loop
      /\ loop \in [Steps -> Loop]
  BY PolicyType DEF ExecInv, LoopInv, TypeOK
<1>2. me.usedFallback \in BOOLEAN /\ me.fallbackAttempted \in BOOLEAN /\ me.attempts \in Nat
  BY <1>1 DEF Loop
<1>3. CASE StartAttempt(s)
  <2> DEFINE new == [me EXCEPT !.at = "Executing", !.attempts = me.attempts + 1,
                        !.fallbackAttempted = me.usedFallback,
                        !.events = Append(me.events, StepEvent("StepStarted", s, me.attempts + 1))]
  <2>1. loop' = [loop EXCEPT ![s] = new]
    BY <1>1, <1>3 DEF StartAttempt
  <2>2. me.attempts < Budget(s) \/ (me.usedFallback /\ ~me.fallbackAttempted)
    BY <1>2, <1>3, BudgetType DEF StartAttempt, Exhausted
  <2>3. LoopInv(policy, s, new)
    BY <1>1, <1>3, <2>2, StartKeepsLoop DEF StartAttempt
  <2> HIDE DEF new
  <2> QED
    BY <1>3, <2>1, <2>3, LoopSteps DEF StartAttempt
<1>4. ASSUME NEW at, NEW kind, s \in Chunk, phase = "Running", me.at \in {"Looping", "Executing"},
             (at = "Succeeded" /\ kind = "StepSucceeded") \/ (at = "Failed" /\ kind = "StepFailed"),
             loop' = [loop EXCEPT ![s].at = at,
                          ![s].events = Append(@, StepEvent(kind, s, loop[s].attempts))],
             UNCHANGED <<policy, phase, run, queue, outbox, sink, stored>>
      PROVE  ExecInv'
  <2> DEFINE new == [me EXCEPT !.at = at,
                        !.events = Append(me.events, StepEvent(kind, s, me.attempts))]
  <2>1. loop' = [loop EXCEPT ![s] = new]
    BY <1>1, <1>4
  <2>2. LoopInv(policy, s, new)
    BY <1>1, <1>4, EndKeepsLoop
  <2> HIDE DEF new
  <2> QED
    BY <1>4, <2>1, <2>2, LoopSteps
<1>5. CASE GiveUp(s)
  BY <1>4, <1>5 DEF GiveUp
<1>6. CASE TaskSucceeds(s)
  BY <1>4, <1>6 DEF TaskSucceeds
<1>7. ASSUME NEW retryable \in BOOLEAN, TaskFails(s, retryable) PROVE ExecInv'
  <2>1. /\ s \in Chunk /\ phase = "Running" /\ me.at = "Executing"
        /\ UNCHANGED <<policy, phase, run, queue, outbox, sink, stored>>
    BY <1>7 DEF TaskFails
  <2> DEFINE kind == AfterError(s, retryable)
  <2>2. kind \in {"StepRetrying", "StepFallbackSelected", "StepFailed", "None"}
    BY DEF AfterError
  <2>3. loop' = [loop EXCEPT ![s] = [me EXCEPT
               !.at = IF kind = "StepFailed" THEN "Failed" ELSE "Looping",
               !.usedFallback = @ \/ kind = "StepFallbackSelected",
               !.slept = IF kind = "StepRetrying"
                         THEN Append(@, [attempt |-> me.attempts,
                                         delay   |-> ForAttempt(policy, me.attempts)])
                         ELSE @,
               !.events = IF kind = "None" THEN @
                          ELSE Append(@, StepEvent(kind, s, me.attempts))]]
    BY <1>1, <1>7 DEF TaskFails
  <2>4. kind = "StepFallbackSelected" => ~me.usedFallback
    BY DEF AfterError
  <2> HIDE DEF kind
  <2>5. CASE kind = "StepRetrying"
    <3> DEFINE new == [me EXCEPT !.at = "Looping",
                          !.slept = Append(me.slept, [attempt |-> me.attempts,
                                                      delay   |-> ForAttempt(policy, me.attempts)]),
                          !.events = Append(me.events, StepEvent("StepRetrying", s, me.attempts))]
    <3>1. loop' = [loop EXCEPT ![s] = new]
      BY <1>1, <1>2, <2>3, <2>5 DEF Loop
    <3>2. LoopInv(policy, s, new)
      BY <1>1, <2>1, RetryKeepsLoop
    <3> HIDE DEF new
    <3> QED
      BY <2>1, <3>1, <3>2, LoopSteps
  <2>6. CASE kind = "StepFallbackSelected"
    <3> DEFINE new == [me EXCEPT !.at = "Looping", !.usedFallback = TRUE,
                          !.events = Append(me.events,
                                            StepEvent("StepFallbackSelected", s, me.attempts))]
    <3>1. loop' = [loop EXCEPT ![s] = new]
      BY <1>1, <1>2, <2>3, <2>6 DEF Loop
    <3>2. LoopInv(policy, s, new)
      BY <1>1, <2>1, <2>4, <2>6, FallbackKeepsLoop
    <3> HIDE DEF new
    <3> QED
      BY <2>1, <3>1, <3>2, LoopSteps
  <2>7. CASE kind = "StepFailed"
    <3> DEFINE new == [me EXCEPT !.at = "Failed",
                          !.events = Append(me.events, StepEvent("StepFailed", s, me.attempts))]
    <3>1. loop' = [loop EXCEPT ![s] = new]
      BY <1>1, <1>2, <2>3, <2>7 DEF Loop
    <3>2. LoopInv(policy, s, new)
      BY <1>1, <2>1, EndKeepsLoop
    <3> HIDE DEF new
    <3> QED
      BY <2>1, <3>1, <3>2, LoopSteps
  <2>8. CASE kind = "None"
    <3> DEFINE new == [me EXCEPT !.at = "Looping"]
    <3>1. loop' = [loop EXCEPT ![s] = new]
      BY <1>1, <1>2, <2>3, <2>8 DEF Loop
    <3>2. LoopInv(policy, s, new)
      BY <1>1, <2>1, RoundKeepsLoop
    <3> HIDE DEF new
    <3> QED
      BY <2>1, <3>1, <3>2, LoopSteps
  <2> QED
    BY <2>2, <2>5, <2>6, <2>7, <2>8
<1> QED
  BY <1>3, <1>5, <1>6, <1>7 DEF StepLoop

-----------------------------------------------------------------------------
(* What is emitted *)

\* Emitting the next event only moves it from the outbox to the sink.
LEMMA HeadGoesOver ==
    ASSUME NEW A \in Seq(Event), NEW B \in Seq(Event), B # <<>>
    PROVE  Append(A, Head(B)) \o Tail(B) = A \o B
<1>1. /\ Head(B) \in Event /\ Tail(B) \in Seq(Event) /\ Len(B) \in Nat \ {0}
      /\ Head(B) = B[1] /\ Len(Tail(B)) = Len(B) - 1
      /\ \A i \in 1..(Len(B) - 1) : Tail(B)[i] = B[i + 1]
  BY HeadTailProperties
<1> DEFINE L == Append(A, Head(B)) \o Tail(B)
           R == A \o B
<1>2. L \in Seq(Event) /\ R \in Seq(Event) /\ Len(L) = Len(R) /\ Len(R) = Len(A) + Len(B)
  BY <1>1
<1>3. ASSUME NEW i \in 1..Len(R) PROVE L[i] = R[i]
  <2>1. CASE i <= Len(A)
    BY <1>1, <1>2, <2>1
  <2>2. CASE i = Len(A) + 1
    BY <1>1, <1>2, <2>2
  <2>3. CASE i > Len(A) + 1
    <3>1. i - Len(A) - 1 \in 1..(Len(B) - 1) /\ i - Len(A) \in 1..Len(B)
      BY <1>1, <1>2, <2>3
    <3>2. L[i] = Tail(B)[i - Len(A) - 1]
      BY <1>1, <1>2, <2>3, <3>1
    <3>3. R[i] = B[i - Len(A)]
      BY <1>1, <1>2, <2>3, <3>1
    <3> QED
      BY <1>1, <3>1, <3>2, <3>3
  <2> QED
    BY <1>2, <2>1, <2>2, <2>3
<1> HIDE DEF L, R
<1>4. L = R
  BY <1>2, <1>3, SeqEqual
<1> QED
  BY <1>4 DEF L, R

\* The sink only grows at its end.
LEMMA PrefixGrows ==
    ASSUME NEW A \in Seq(Event), NEW B \in Seq(Event), NEW e \in Event, IsPrefix(A, B)
    PROVE  IsPrefix(A, Append(B, e))
<1>1. Len(A) \in Nat /\ Len(B) \in Nat /\ Len(A) <= Len(B)
  BY DEF IsPrefix
<1>2. Len(Append(B, e)) = Len(B) + 1
  OBVIOUS
<1>3. SubSeq(Append(B, e), 1, Len(A)) = SubSeq(B, 1, Len(A))
  BY <1>1
<1> QED
  BY <1>1, <1>2, <1>3 DEF IsPrefix

\* The stored run, or none yet, has a list of events.
LEMMA StoredEvents ==
    ASSUME TypeOK PROVE stored.events \in Seq(Event)
<1>1. stored \in RunRecord => stored.events \in Seq(Event)
  BY DEF RunRecord
<1>2. NotSaved.events = <<>> /\ <<>> \in Seq(Event)
  BY DEF NotSaved
<1> QED
  BY <1>1, <1>2 DEF TypeOK

\* Without events nothing is told.
LEMMA NothingTold ==
    ASSUME NEW k, NEW s PROVE Positions(<<>>, k, s) = {} /\ Count(<<>>, k, s) = 0
BY FS_EmptySet DEF Positions, Count

\* The events of the run itself are told apart from those of its steps.
LEMMA RunEventKeeps ==
    ASSUME NEW A \in Seq(Event), NEW kind \in EventKinds, NEW records,
           Tells(A, records), DependenciesFirst(A)
    PROVE  /\ RunEvent(kind) \in Event /\ Append(A, RunEvent(kind)) \in Seq(Event)
           /\ Tells(Append(A, RunEvent(kind)), records)
           /\ DependenciesFirst(Append(A, RunEvent(kind)))
<1> DEFINE e == RunEvent(kind)
           B == Append(A, e)
<1>1. e \in Event /\ e.step = 0
  BY DEF RunEvent, Event
<1> HIDE DEF e
<1>2. B \in Seq(Event)
  BY <1>1
<1>3. ASSUME NEW s \in Steps, NEW k
      PROVE  Positions(B, k, s) = Positions(A, k, s) /\ Count(B, k, s) = Count(A, k, s)
  <2>1. s # 0
    BY BudgetType
  <2>2. Count(A, k, s) \in Nat
    BY PositionsAreFinite
  <2>3. /\ Positions(B, k, s)
               = Positions(A, k, s) \cup (IF e.kind = k /\ e.step = s THEN {Len(A) + 1} ELSE {})
        /\ Count(B, k, s) = Count(A, k, s) + (IF e.kind = k /\ e.step = s THEN 1 ELSE 0)
    BY <1>1, OneMoreEvent
  <2>4. ~(e.kind = k /\ e.step = s)
    BY <1>1, <2>1
  <2> QED
    BY <2>2, <2>3, <2>4
<1> HIDE DEF B
<1>4. Tells(B, records)
  BY <1>3 DEF Tells
<1>5. DependenciesFirst(B)
  <2>1. \A s \in Steps : \A d \in Deps[s] : d \in Steps
    BY ExecutorAssumption
  <2> QED
    BY <1>3, <2>1, Zenon DEF DependenciesFirst
<1> QED
  BY <1>1, <1>2, <1>4, <1>5 DEF e, B

-----------------------------------------------------------------------------
(* The actions of execute_with_metrics *)

\* execute begins with no results and RunStarted to be emitted.
LEMMA InitInv ==
    ASSUME Init PROVE ExecInv
<1>1. /\ RunEvent("RunStarted") \in Event /\ "RunStarted" \in EventKinds
      /\ <<>> \in Seq(Event) /\ <<>> \in Seq(Steps) /\ 0 \in Nat
  BY DEF RunEvent, Event, EventKinds
<1>2. NoRecord \in StepRecord
  BY <1>1 DEF NoRecord, StepRecord
<1>3. /\ run \in RunRecord /\ run.status = "Running" /\ run.steps = [s \in Steps |-> NoRecord]
      /\ run.gatesPassed = TRUE /\ run.events = <<>>
  BY <1>1, <1>2 DEF Init, RunRecord
<1>4. /\ stored.events = <<>> /\ stored.steps = [s \in Steps |-> NoRecord] /\ stored = NotSaved
  BY DEF Init, NotSaved
<1>5. Idle \in Loop /\ [Idle EXCEPT !.at = "Idle"] = Idle
  <2>1. <<>> \in Seq(Delay)
    OBVIOUS
  <2> QED
    BY <1>1, <2>1 DEF Idle, Loop
<1>6. TypeOK
  BY <1>1, <1>3, <1>4, <1>5 DEF Init, TypeOK, Phases
<1>7. ASSUME NEW s \in Steps PROVE LoopInv(policy, s, loop[s])
  <2>1. LoopInv(policy, s, [Idle EXCEPT !.at = "Idle"])
    BY FreshLoop
  <2> QED
    BY <1>5, <2>1 DEF Init
<1>8. LogsInv
  <2> DEFINE none == [s \in Steps |-> NoRecord]
  <2>1. \A s \in Steps : none[s] = NoRecord
    OBVIOUS
  <2> HIDE DEF none
  <2>2. Tells(<<>>, none)
    BY <2>1, NothingTold DEF Tells, NoRecord
  <2>3. DependenciesFirst(<<>>)
    BY NothingTold DEF DependenciesFirst
  <2>4. Emissions = Append(<<>>, RunEvent("RunStarted"))
    BY <1>1 DEF Emissions, Init
  <2>5. Tells(Emissions, none) /\ DependenciesFirst(Emissions)
    BY <1>1, <2>2, <2>3, <2>4, RunEventKeeps
  <2>6. IsPrefix(stored.events, sink)
    BY <1>4 DEF Init, IsPrefix
  <2>7. run.events = sink
    BY <1>3 DEF Init
  <2> QED
    BY <1>3, <1>4, <2>2, <2>5, <2>6, <2>7 DEF LogsInv, none
<1>9. QueueInv
  BY <1>5 DEF Init, QueueInv, Idle
<1>10. StatusInv
  BY <1>3 DEF Init, StatusInv, Stopped, NoRecord
<1> QED
  BY <1>6, <1>7, <1>8, <1>9, <1>10 DEF ExecInv

\* emit: the next event goes to the sink and into the record.
LEMMA EmitInv ==
    ASSUME ExecInv, Emit PROVE ExecInv'
<1> DEFINE e == Head(outbox)
<1>1. /\ TypeOK /\ LogsInv /\ QueueInv /\ StatusInv
      /\ \A s \in Steps : LoopInv(policy, s, loop[s])
  BY DEF ExecInv
<1>2. /\ sink \in Seq(Event) /\ outbox \in Seq(Event) /\ outbox # <<>> /\ run \in RunRecord
      /\ phase \in {"Opening", "Collecting", "Closing"}
  BY <1>1 DEF TypeOK, Emit
<1>3. e \in Event /\ Tail(outbox) \in Seq(Event)
  BY <1>2
<1>4. /\ sink' = Append(sink, e) /\ outbox' = Tail(outbox)
      /\ run' = [run EXCEPT !.events = Append(@, e)]
      /\ UNCHANGED <<policy, phase, queue, loop, stored>>
  BY DEF Emit
<1> HIDE DEF e
<1>5. run.events \in Seq(Event)
  BY <1>2 DEF RunRecord
<1>6. /\ run' \in RunRecord /\ run'.events = Append(run.events, e) /\ run'.status = run.status
      /\ run'.steps = run.steps /\ run'.gatesPassed = run.gatesPassed
  <2>1. Append(run.events, e) \in Seq(Event)
    BY <1>3, <1>5
  <2> QED
    BY <1>2, <1>4, <2>1 DEF RunRecord
<1>7. sink' \in Seq(Event) /\ outbox' \in Seq(Event)
  BY <1>2, <1>3, <1>4
<1>8. TypeOK'
  BY <1>1, <1>4, <1>6, <1>7 DEF TypeOK
<1>9. LogsInv'
  <2>1. Emissions' = Emissions
    <3>1. Append(sink, Head(outbox)) \o Tail(outbox) = sink \o outbox
      BY <1>2, HeadGoesOver
    <3> QED
      BY <1>4, <3>1 DEF Emissions, e
  <2>2. IsPrefix(stored.events, sink')
    <3>1. stored.events \in Seq(Event)
      BY <1>1, StoredEvents
    <3>2. IsPrefix(stored.events, sink)
      BY <1>1 DEF LogsInv
    <3> QED
      BY <1>2, <1>3, <1>4, <3>1, <3>2, PrefixGrows
  <2>3. stored' = stored
    BY <1>4
  <2>4. run'.events = sink'
    BY <1>1, <1>4, <1>6 DEF LogsInv
  <2> QED
    BY <1>1, <1>6, <2>1, <2>2, <2>3, <2>4 DEF LogsInv
<1>10. Ready' = Ready /\ Chunk' = Chunk
  BY <1>4, <1>6 DEF Ready, Chunk
<1>11. QueueInv'
  BY <1>1, <1>4, <1>10 DEF QueueInv
<1>12. StatusInv'
  BY <1>1, <1>2, <1>4, <1>6 DEF StatusInv, Stopped, NoneMissing
<1> QED
  BY <1>1, <1>4, <1>8, <1>9, <1>11, <1>12 DEF ExecInv

\* An error of the sink or of the store ends the call.
LEMMA FailInv ==
    ASSUME ExecInv, Fail PROVE ExecInv'
<1>1. phase' = "Errored" /\ UNCHANGED <<policy, run, queue, loop, outbox, sink, stored>>
      /\ phase \in {"Opening", "Collecting", "Closing"}
  BY DEF Fail
<1>2. TypeOK'
  BY <1>1 DEF ExecInv, TypeOK, Phases
<1>3. LogsInv'
  BY <1>1 DEF ExecInv, LogsInv, Emissions
<1>4. QueueInv'
  BY <1>1 DEF ExecInv, QueueInv, Ready, Chunk
<1>5. StatusInv'
  BY <1>1 DEF ExecInv, StatusInv
<1> QED
  BY <1>1, <1>2, <1>3, <1>4, <1>5 DEF ExecInv

\* The loops of the steps that start with the first chunk of a queue.
LEMMA EnteredLoops ==
    ASSUME NEW p, NEW q
    PROVE  /\ Entered(q) \in [Steps -> Loop]
           /\ \A s \in Steps : LoopInv(p, s, Entered(q)[s])
           /\ \A s \in Steps \ ChunkOf(q) : Entered(q)[s] = Idle
<1>1. [Idle EXCEPT !.at = "Idle"] = Idle /\ Idle.at = "Idle"
  BY DEF Idle
<1>2. ASSUME NEW s \in Steps PROVE Entered(q)[s] \in Loop /\ LoopInv(p, s, Entered(q)[s])
  <2>1. LoopInv(p, s, [Idle EXCEPT !.at = "Looping"]) /\ LoopInv(p, s, Idle)
    BY <1>1, FreshLoop, Zenon
  <2>2. Entered(q)[s] = [Idle EXCEPT !.at = "Looping"] \/ Entered(q)[s] = Idle
    BY DEF Entered
  <2> QED
    BY <2>1, <2>2 DEF LoopInv
<1>3. Entered(q) \in [Steps -> Loop]
  BY <1>2 DEF Entered
<1> QED
  BY <1>2, <1>3 DEF Entered

\* The run is saved with everything it tells, and its failures are looked for.
LEMMA SaveInv ==
    ASSUME ExecInv, Save PROVE ExecInv'
<1> DEFINE stop == phase = "Collecting" /\ Stopped(run)
<1>1. /\ TypeOK /\ LogsInv /\ QueueInv /\ StatusInv
  BY DEF ExecInv
<1>2. /\ phase \in {"Opening", "Collecting", "Closing"} /\ outbox = <<>> /\ stored' = run
      /\ run' = [run EXCEPT !.status = IF stop THEN "Failed" ELSE @]
      /\ queue' = IF stop THEN <<>> ELSE queue
      /\ loop' = Entered(queue') /\ UNCHANGED <<policy, outbox, sink>>
  BY DEF Save, Saved
<1>3. /\ phase = "Closing" => phase' = "Returned"
      /\ phase = "Collecting" /\ queue' # <<>> => phase' = "Running"
      /\ ~(phase = "Closing") /\ ~(phase = "Collecting" /\ queue' # <<>>) => phase' = "Scanning"
  BY DEF Save
<1> HIDE DEF stop
<1>4. /\ run \in RunRecord /\ run' \in RunRecord /\ run'.steps = run.steps
      /\ run'.events = run.events /\ run'.gatesPassed = run.gatesPassed
      /\ run'.status = IF stop THEN "Failed" ELSE run.status
  <2>1. run \in RunRecord
    BY <1>1 DEF TypeOK
  <2> QED
    BY <1>2, <2>1 DEF RunRecord
<1>5. queue' \in Seq(Steps) /\ phase' \in Phases
  <2>1. queue \in Seq(Steps) /\ <<>> \in Seq(Steps)
    BY <1>1 DEF TypeOK
  <2>2. phase' \in {"Returned", "Running", "Scanning"}
    BY <1>3
  <2> QED
    BY <1>2, <2>1, <2>2 DEF Phases
<1>6. /\ loop' \in [Steps -> Loop] /\ \A s \in Steps : LoopInv(policy, s, loop'[s])
      /\ \A s \in Steps \ ChunkOf(queue') : loop'[s] = Idle
  BY <1>2, EnteredLoops
<1>7. TypeOK'
  BY <1>1, <1>2, <1>4, <1>5, <1>6 DEF TypeOK
<1>8. sink \in Seq(Event) /\ Emissions = sink /\ Emissions' = sink
  <2>1. sink \in Seq(Event)
    BY <1>1 DEF TypeOK
  <2>2. sink \o <<>> = sink
    BY <2>1
  <2> QED
    BY <1>2, <2>1, <2>2 DEF Emissions
<1>9. LogsInv'
  <2>1. IsPrefix(sink, sink)
    BY <1>8 DEF IsPrefix
  <2>2. run.events = sink /\ Tells(sink, run.steps) /\ DependenciesFirst(sink)
    BY <1>1, <1>8 DEF LogsInv
  <2> QED
    BY <1>2, <1>4, <1>8, <2>1, <2>2 DEF LogsInv
<1>10. Ready' = Ready /\ (Stopped(run') <=> Stopped(run)) /\ (NoneMissing' <=> NoneMissing)
  BY <1>4 DEF Ready, Stopped, NoneMissing
<1>11. phase' \in {"Opening", "Scanning", "Closing", "Returned"} => queue' = <<>>
  <2>1. phase \in {"Opening", "Closing"} => queue' = <<>>
    BY <1>1, <1>2 DEF QueueInv
  <2> QED
    BY <1>2, <1>3, <2>1
<1>12. QueueInv'
  <2>1. /\ \A i, j \in 1..Len(queue') : queue'[i] = queue'[j] => i = j
        /\ \A i \in 1..Len(queue') : queue'[i] \in Ready'
    BY <1>1, <1>2, <1>10 DEF QueueInv
  <2>2. phase' # "Running" => \A s \in Steps : loop'[s].at \in {"Idle", "Succeeded", "Failed"}
    <3>1. phase' # "Running" => queue' = <<>>
      BY <1>2, <1>3, <1>11
    <3>2. ChunkOf(<<>>) = {}
      BY DEF ChunkOf
    <3>3. Idle.at = "Idle"
      BY DEF Idle
    <3> QED
      BY <1>6, <3>1, <3>2, <3>3
  <2> QED
    BY <1>6, <1>11, <2>1, <2>2 DEF QueueInv, Chunk
<1>13. StatusInv'
  <2>1. CASE phase = "Closing"
    <3>1. ~stop /\ phase' = "Returned"
      BY <1>3, <2>1 DEF stop
    <3>2. run' = run
      BY <1>2, <1>4, <3>1 DEF RunRecord
    <3> QED
      BY <1>1, <1>2, <2>1, <3>1, <3>2 DEF StatusInv, Stopped, NoneMissing
  <2>2. CASE phase = "Opening"
    <3>1. ~stop /\ phase' = "Scanning"
      BY <1>3, <2>2 DEF stop
    <3> QED
      BY <1>1, <1>2, <1>4, <1>10, <2>2, <3>1 DEF StatusInv
  <2>3. CASE phase = "Collecting"
    <3>1. run.status = "Running" /\ \A s \in Steps : run.steps[s].status = "Absent"
                                        => run.steps[s] = NoRecord
      BY <1>1, <2>3 DEF StatusInv
    <3>2. (stop <=> Stopped(run)) /\ (phase' = "Running" => ~stop) /\ phase' \in {"Running", "Scanning"}
      BY <1>2, <1>3, <2>3 DEF stop
    <3> QED
      BY <1>2, <1>4, <1>10, <3>1, <3>2 DEF StatusInv
  <2> QED
    BY <1>2, <2>1, <2>2, <2>3
<1> QED
  BY <1>2, <1>6, <1>7, <1>9, <1>12, <1>13 DEF ExecInv

\* Some step is ready while one was not run and none failed: the one that comes
\* first in an order that respects the dependencies.
LEMMA SomeStepReady ==
    ASSUME TypeOK, ~Stopped(run), NEW s \in Steps, run.steps[s].status = "Absent"
    PROVE  Ready # {}
<1>1. PICK rank \in [Steps -> Steps] : \A t \in Steps : \A d \in Deps[t] : rank[d] < rank[t]
  BY AcyclicAssumption
<1>2. \A t \in Steps : rank[t] \in Nat
  <2>1. \A t \in Steps : rank[t] \in Steps
    BY <1>1
  <2>2. Steps \subseteq Nat
    BY ExecutorAssumption DEF Steps
  <2> QED
    BY <2>1, <2>2
<1> DEFINE absent == {t \in Steps : run.steps[t].status = "Absent"}
           ranks  == {rank[t] : t \in absent}
<1>3. ranks \subseteq Nat /\ ranks # {}
  BY <1>2
<1>4. PICK n \in ranks : \A m \in ranks : n <= m
  <2> HIDE DEF ranks
  <2> QED
    BY <1>3, LeastExists
<1>5. PICK t \in absent : n = rank[t]
  OBVIOUS
<1>6. ASSUME NEW d \in Deps[t] PROVE run.steps[d].status = "Succeeded"
  <2>1. d \in Steps /\ rank[d] < rank[t]
    BY <1>1, <1>5, ExecutorAssumption
  <2>2. d \notin absent
    <3>1. SUFFICES ASSUME d \in absent PROVE FALSE
      OBVIOUS
    <3>2. rank[t] <= rank[d]
      BY <1>4, <1>5, <3>1
    <3> QED
      BY <1>2, <2>1, <3>2
  <2>3. run.steps[d].status \in {"Absent", "Succeeded", "Failed"}
    BY <2>1 DEF TypeOK, RunRecord, StepRecord
  <2> QED
    BY <2>1, <2>2, <2>3 DEF Stopped
<1>7. t \in Ready
  BY <1>5, <1>6 DEF Ready
<1> QED
  BY <1>7

\* The verdict is drawn when nothing is ready.
LEMMA CloseInv ==
    ASSUME ExecInv, NEW pass \in BOOLEAN, Close(pass) PROVE ExecInv'
<1> DEFINE absent == \E s \in Steps : run.steps[s].status = "Absent"
<1>1. /\ TypeOK /\ LogsInv /\ QueueInv /\ StatusInv
      /\ \A s \in Steps : LoopInv(policy, s, loop[s])
  BY DEF ExecInv
<1>2. /\ phase = "Scanning" /\ (run.status = "Failed" \/ Ready = {})
      /\ run' = [run EXCEPT !.gatesPassed = pass, !.status =
             IF run.status = "Failed" \/ ~pass \/ absent THEN "Failed" ELSE "Succeeded"]
      /\ outbox' = <<RunEvent("RunFinished")>> /\ phase' = "Closing"
      /\ UNCHANGED <<policy, queue, loop, sink, stored>>
  BY DEF Close
<1> HIDE DEF absent
<1>3. /\ run \in RunRecord /\ run' \in RunRecord /\ run'.steps = run.steps
      /\ run'.events = run.events /\ run'.gatesPassed = pass
      /\ run'.status = IF run.status = "Failed" \/ ~pass \/ absent THEN "Failed" ELSE "Succeeded"
  <2>1. run \in RunRecord
    BY <1>1 DEF TypeOK
  <2> QED
    BY <1>2, <2>1 DEF RunRecord
<1>4. sink \in Seq(Event) /\ outbox = <<>> /\ Emissions = sink
  <2>1. sink \in Seq(Event) /\ outbox = <<>>
    BY <1>1, <1>2 DEF TypeOK, StatusInv
  <2> QED
    BY <2>1 DEF Emissions
<1>5. "RunFinished" \in EventKinds /\ Tells(sink, run.steps) /\ DependenciesFirst(sink)
  BY <1>1, <1>4 DEF EventKinds, LogsInv
<1>6. /\ RunEvent("RunFinished") \in Event
      /\ Tells(Append(sink, RunEvent("RunFinished")), run.steps)
      /\ DependenciesFirst(Append(sink, RunEvent("RunFinished")))
  BY <1>4, <1>5, RunEventKeeps
<1>7. Emissions' = Append(sink, RunEvent("RunFinished"))
  <2>1. sink \o <<RunEvent("RunFinished")>> = Append(sink, RunEvent("RunFinished"))
    BY <1>4, <1>6
  <2> QED
    BY <1>2, <2>1 DEF Emissions
<1>8. TypeOK'
  <2>1. outbox' \in Seq(Event)
    BY <1>2, <1>6
  <2> QED
    BY <1>1, <1>2, <1>3, <2>1 DEF TypeOK, Phases
<1>9. LogsInv'
  BY <1>1, <1>2, <1>3, <1>6, <1>7 DEF LogsInv
<1>10. Ready' = Ready /\ (Stopped(run') <=> Stopped(run)) /\ (NoneMissing' <=> NoneMissing)
  BY <1>3 DEF Ready, Stopped, NoneMissing
<1>11. QueueInv'
  BY <1>1, <1>2, <1>10 DEF QueueInv
<1>12. StatusInv'
  <2>1. /\ \A s \in Steps : run.steps[s].status = "Absent" => run.steps[s] = NoRecord
        /\ run.status = (IF Stopped(run) THEN "Failed" ELSE "Running")
    BY <1>1, <1>2 DEF StatusInv
  <2>2. absent => Stopped(run)
    <3>1. SUFFICES ASSUME absent, ~Stopped(run) PROVE FALSE
      OBVIOUS
    <3>2. Ready = {}
      BY <1>2, <2>1, <3>1
    <3> QED
      BY <1>1, <3>1, <3>2, SomeStepReady DEF absent
  <2>3. NoneMissing <=> ~absent /\ ~Stopped(run)
    <3>1. \A s \in Steps : run.steps[s].status \in {"Absent", "Succeeded", "Failed"}
      BY <1>3 DEF RunRecord, StepRecord
    <3> QED
      BY <3>1 DEF NoneMissing, absent, Stopped
  <2>4. run'.status = (IF run'.gatesPassed /\ NoneMissing' THEN "Succeeded" ELSE "Failed")
    BY <1>3, <1>10, <2>1, <2>3
  <2>5. (\E s \in Steps : run'.steps[s].status = "Absent") => Stopped(run')
    BY <1>3, <1>10, <2>2 DEF absent
  <2>6. \A s \in Steps : run'.steps[s].status = "Absent" => run'.steps[s] = NoRecord
    BY <1>3, <2>1
  <2> QED
    BY <1>2, <2>4, <2>5, <2>6 DEF StatusInv
<1> QED
  BY <1>1, <1>2, <1>8, <1>9, <1>11, <1>12 DEF ExecInv

\* The ready steps in workflow order, each once.
LEMMA OrderOfReady ==
    ASSUME TypeOK, NEW q \in InOrder(Ready)
    PROVE  /\ q \in Seq(Steps)
           /\ \A i, j \in 1..Len(q) : q[i] = q[j] => i = j
           /\ \A i \in 1..Len(q) : q[i] \in Ready
<1> DEFINE n == Cardinality(Ready)
<1>1. Ready \subseteq Steps /\ Steps \subseteq Nat
  BY ExecutorAssumption DEF Ready, Steps
<1>2. n \in Nat
  <2>1. IsFiniteSet(Steps)
    BY FS_Interval, ExecutorAssumption DEF Steps
  <2>2. IsFiniteSet(Ready)
    BY <1>1, <2>1, FS_Subset
  <2> QED
    BY <2>2, FS_CardinalityType
<1> HIDE DEF n
<1>3. q \in [1..n -> Ready] /\ \A i, j \in DOMAIN q : i < j => q[i] < q[j]
  BY DEF InOrder, n
<1>4. q \in Seq(Steps) /\ Len(q) = n
  <2>1. q \in [1..n -> Steps]
    BY <1>1, <1>3
  <2> QED
    BY <1>2, <2>1
<1>5. ASSUME NEW i \in 1..n, NEW j \in 1..n, q[i] = q[j] PROVE i = j
  <2>1. q[i] \in Nat /\ q[j] \in Nat
    BY <1>1, <1>3
  <2>2. ~(i < j) /\ ~(j < i)
    BY <1>3, <1>5, <2>1
  <2> QED
    BY <1>2, <2>2
<1> QED
  BY <1>3, <1>4, <1>5

\* The ready steps of a round start, the first chunk of them.
LEMMA NextRoundInv ==
    ASSUME ExecInv, NextRound PROVE ExecInv'
<1>1. TypeOK /\ LogsInv /\ QueueInv /\ StatusInv
  BY DEF ExecInv
<1>2. /\ phase = "Scanning" /\ run.status # "Failed" /\ queue' \in InOrder(Ready)
      /\ loop' = Entered(queue') /\ phase' = "Running"
      /\ UNCHANGED <<policy, run, outbox, sink, stored>>
  BY DEF NextRound
<1>3. /\ queue' \in Seq(Steps)
      /\ \A i, j \in 1..Len(queue') : queue'[i] = queue'[j] => i = j
      /\ \A i \in 1..Len(queue') : queue'[i] \in Ready
  BY <1>1, <1>2, OrderOfReady
<1>4. /\ loop' \in [Steps -> Loop] /\ \A s \in Steps : LoopInv(policy, s, loop'[s])
      /\ \A s \in Steps \ ChunkOf(queue') : loop'[s] = Idle
  BY <1>2, EnteredLoops
<1>5. TypeOK'
  BY <1>1, <1>2, <1>3, <1>4 DEF TypeOK, Phases
<1>6. LogsInv'
  BY <1>1, <1>2 DEF LogsInv, Emissions
<1>7. QueueInv'
  <2>1. Ready' = Ready
    BY <1>2 DEF Ready
  <2> QED
    BY <1>2, <1>3, <1>4, <2>1 DEF QueueInv, Chunk
<1>8. StatusInv'
  BY <1>1, <1>2 DEF StatusInv, Stopped
<1> QED
  BY <1>2, <1>4, <1>5, <1>6, <1>7, <1>8 DEF ExecInv

\* join_all has every result of the chunk.
LEMMA JoinInv ==
    ASSUME ExecInv, Join PROVE ExecInv'
<1>1. /\ TypeOK /\ LogsInv /\ QueueInv /\ StatusInv
      /\ \A s \in Steps : LoopInv(policy, s, loop[s])
  BY DEF ExecInv
<1>2. /\ phase = "Running" /\ AllDone /\ phase' = "Collecting"
      /\ UNCHANGED <<policy, run, queue, loop, outbox, sink, stored>>
  BY DEF Join
<1>3. TypeOK'
  BY <1>1, <1>2 DEF TypeOK, Phases
<1>4. LogsInv'
  BY <1>1, <1>2 DEF LogsInv, Emissions
<1>5. QueueInv'
  <2>1. Ready' = Ready
    BY <1>2 DEF Ready
  <2>2. \A s \in Steps : loop[s].at \in {"Idle", "Succeeded", "Failed"}
    <3>1. \A s \in Chunk : loop[s].at \in {"Succeeded", "Failed"}
      BY <1>2 DEF AllDone
    <3>2. \A s \in Steps \ Chunk : loop[s] = Idle
      BY <1>1, <1>2 DEF QueueInv
    <3>3. Idle.at = "Idle"
      BY DEF Idle
    <3> QED
      BY <3>1, <3>2, <3>3
  <2> QED
    BY <1>1, <1>2, <2>1, <2>2 DEF QueueInv
<1>6. StatusInv'
  BY <1>1, <1>2 DEF StatusInv
<1> QED
  BY <1>1, <1>2, <1>3, <1>4, <1>5, <1>6 DEF ExecInv

\* The record of a step that was not run, told by the events of its loop.
RecordOf(me) ==
    [status |-> me.at, attempts |-> me.attempts, fallbackUsed |-> me.usedFallback]

\* A result's events behind those emitted tell its record as well.
LEMMA ResultIsTold ==
    ASSUME NEW A \in Seq(Event), NEW records \in [Steps -> StepRecord], Tells(A, records),
           DependenciesFirst(A), NEW s \in Steps, records[s] = NoRecord,
           \A d \in Deps[s] : records[d].status = "Succeeded",
           NEW p, NEW me, LoopInv(p, s, me), me.at \in {"Succeeded", "Failed"}
    PROVE  /\ Tells(A \o me.events, [records EXCEPT ![s] = RecordOf(me)])
           /\ DependenciesFirst(A \o me.events)
<1> DEFINE B   == me.events
           E   == A \o B
           rec == RecordOf(me)
           new == [records EXCEPT ![s] = rec]
<1>1. me \in Loop /\ EventsTellLoop(s, me) /\ B \in Seq(Event)
  BY DEF LoopInv, Loop
<1>2. rec.status = me.at /\ rec.attempts = me.attempts /\ rec.fallbackUsed = me.usedFallback
  BY DEF RecordOf
<1> HIDE DEF B
<1>3. \A k, t : /\ Positions(E, k, t) = Positions(A, k, t) \cup {Len(A) + i : i \in Positions(B, k, t)}
                /\ Count(E, k, t) = Count(A, k, t) + Count(B, k, t)
                /\ Count(A, k, t) \in Nat /\ Count(B, k, t) \in Nat
                /\ Positions(A, k, t) \subseteq 1..Len(A)
  BY <1>1, EventsBehind, PositionsAreFinite
<1> HIDE DEF E, rec
<1>4. \A k, t : t # s => Positions(B, k, t) = {} /\ Count(B, k, t) = 0
  <2>1. \A i \in DOMAIN B : B[i].step = s
    BY <1>1 DEF EventsTellLoop, B
  <2>2. ASSUME NEW k, NEW t, t # s PROVE Positions(B, k, t) = {}
    BY <2>1, <2>2 DEF Positions
  <2> QED
    BY <2>2, FS_EmptySet DEF Count
<1>5. new[s] = rec /\ \A t \in Steps : t # s => new[t] = records[t]
  OBVIOUS
<1> HIDE DEF new
<1>6. Tells(E, new)
  <2>1. ASSUME NEW t \in Steps, t # s
        PROVE  \A k : Count(E, k, t) = Count(A, k, t) /\ Positions(E, k, t) = Positions(A, k, t)
    <3>1. ASSUME NEW k
          PROVE  Count(E, k, t) = Count(A, k, t) /\ Positions(E, k, t) = Positions(A, k, t)
      <4>1. Positions(B, k, t) = {} /\ Count(B, k, t) = 0
        BY <1>4, <2>1
      <4>2. Positions(E, k, t) = Positions(A, k, t) \cup {}
        <5>1. {Len(A) + i : i \in {}} = {}
          OBVIOUS
        <5> QED
          BY <1>3, <4>1, <5>1
      <4>3. Count(E, k, t) = Count(A, k, t) + 0 /\ Count(A, k, t) \in Nat
        BY <1>3, <4>1
      <4> QED
        BY <4>2, <4>3
    <3> QED
      BY <3>1
  <2>2. /\ Count(A, "StepStarted", s) = 0 /\ Count(A, "StepSucceeded", s) = 0
        /\ Count(A, "StepFailed", s) = 0 /\ Positions(A, "StepFallbackSelected", s) = {}
    <3>1. NoRecord.status = "Absent" /\ NoRecord.attempts = 0 /\ NoRecord.fallbackUsed = FALSE
      BY DEF NoRecord
    <3> QED
      BY <3>1 DEF Tells
  <2>3. /\ Count(B, "StepStarted", s) = rec.attempts
        /\ Count(B, "StepSucceeded", s) = (IF rec.status = "Succeeded" THEN 1 ELSE 0)
        /\ Count(B, "StepFailed", s) = (IF rec.status = "Failed" THEN 1 ELSE 0)
        /\ Count(B, "StepFallbackSelected", s) = (IF rec.fallbackUsed THEN 1 ELSE 0)
    BY <1>1, <1>2 DEF EventsTellLoop, B
  <2>4. rec.fallbackUsed <=> Positions(B, "StepFallbackSelected", s) # {}
    <3>1. IsFiniteSet(Positions(B, "StepFallbackSelected", s))
      BY <1>1, PositionsAreFinite
    <3>2. Count(B, "StepFallbackSelected", s) = 0 <=> Positions(B, "StepFallbackSelected", s) = {}
      BY <3>1, FS_EmptySet DEF Count
    <3> QED
      BY <2>3, <3>2
  <2>5. /\ rec.attempts = Count(E, "StepStarted", s)
        /\ rec.fallbackUsed <=> Positions(E, "StepFallbackSelected", s) # {}
        /\ Count(E, "StepSucceeded", s) = (IF rec.status = "Succeeded" THEN 1 ELSE 0)
        /\ Count(E, "StepFailed", s) = (IF rec.status = "Failed" THEN 1 ELSE 0)
    <3>1. /\ Count(E, "StepStarted", s) = Count(B, "StepStarted", s)
          /\ Count(E, "StepSucceeded", s) = Count(B, "StepSucceeded", s)
          /\ Count(E, "StepFailed", s) = Count(B, "StepFailed", s)
      BY <1>3, <2>2
    <3>2. Positions(E, "StepFallbackSelected", s)
              = {Len(A) + i : i \in Positions(B, "StepFallbackSelected", s)}
      BY <1>3, <2>2
    <3>3. Positions(E, "StepFallbackSelected", s) # {}
              <=> Positions(B, "StepFallbackSelected", s) # {}
      BY <3>2
    <3> QED
      BY <2>3, <2>4, <3>1, <3>3
  <2>6. ASSUME NEW t \in Steps
        PROVE  /\ new[t].attempts = Count(E, "StepStarted", t)
               /\ new[t].fallbackUsed <=> Positions(E, "StepFallbackSelected", t) # {}
               /\ Count(E, "StepSucceeded", t) = (IF new[t].status = "Succeeded" THEN 1 ELSE 0)
               /\ Count(E, "StepFailed", t) = (IF new[t].status = "Failed" THEN 1 ELSE 0)
    <3>1. CASE t = s
      BY <1>5, <2>5, <3>1
    <3>2. CASE t # s
      BY <1>5, <2>1, <3>2 DEF Tells
    <3> QED
      BY <3>1, <3>2
  <2> QED
    BY <2>6 DEF Tells
<1>7. ASSUME NEW t \in Steps, NEW i \in Positions(E, "StepStarted", t), NEW d \in Deps[t]
      PROVE  \E j \in Positions(E, "StepSucceeded", d) : j < i
  <2>1. d \in Steps /\ Positions(A, "StepSucceeded", d) \subseteq Positions(E, "StepSucceeded", d)
    BY <1>3, ExecutorAssumption
  <2>2. CASE i \in Positions(A, "StepStarted", t)
    BY <2>1, <2>2 DEF DependenciesFirst
  <2>3. CASE i \notin Positions(A, "StepStarted", t)
    <3>1. PICK m \in Positions(B, "StepStarted", t) : i = Len(A) + m
      BY <1>3, <2>3
    <3>2. t = s
      BY <1>4, <3>1
    <3>3. m \in Nat \ {0} /\ Len(A) \in Nat
      BY <1>1, <3>1, PositionsAreFinite
    <3>4. Count(A, "StepSucceeded", d) = 1
      BY <2>1, <3>2 DEF Tells
    <3>5. Positions(A, "StepSucceeded", d) # {}
      <4>1. IsFiniteSet(Positions(A, "StepSucceeded", d))
        BY PositionsAreFinite
      <4> QED
        BY <3>4, <4>1, FS_EmptySet DEF Count
    <3>6. PICK j \in Positions(A, "StepSucceeded", d) : TRUE
      BY <3>5
    <3>7. j \in 1..Len(A)
      BY <1>3, <3>6
    <3>8. j < i
      BY <3>1, <3>3, <3>7
    <3> QED
      BY <2>1, <3>6, <3>8
  <2> QED
    BY <2>2, <2>3
<1>8. DependenciesFirst(E)
  BY <1>7 DEF DependenciesFirst
<1> QED
  BY <1>6, <1>8 DEF E, B, new, rec

\* A result is taken: its events are emitted next, its record is told by them.
LEMMA TakeResultInv ==
    ASSUME ExecInv, TakeResult PROVE ExecInv'
<1> DEFINE s  == Head(queue)
           me == loop[s]
<1>1. /\ TypeOK /\ LogsInv /\ QueueInv /\ StatusInv
      /\ \A t \in Steps : LoopInv(policy, t, loop[t])
  BY DEF ExecInv
<1>2. /\ phase = "Collecting" /\ outbox = <<>> /\ queue # <<>> /\ me.at # "Idle"
      /\ outbox' = me.events /\ loop' = [loop EXCEPT ![s] = Idle]
      /\ run' = [run EXCEPT !.steps[s] = RecordOf(me)]
      /\ queue' = Tail(queue) /\ UNCHANGED <<policy, phase, sink, stored>>
  BY DEF TakeResult, Untaken, RecordOf
<1>3. /\ queue \in Seq(Steps) /\ Len(queue) \in Nat \ {0} /\ s = queue[1] /\ s \in Steps
      /\ Tail(queue) \in Seq(Steps) /\ Len(Tail(queue)) = Len(queue) - 1
      /\ \A i \in 1..(Len(queue) - 1) : Tail(queue)[i] = queue[i + 1]
  <2>1. queue \in Seq(Steps)
    BY <1>1 DEF TypeOK
  <2> QED
    BY <1>2, <2>1, HeadTailProperties
<1> HIDE DEF s
<1>4. LoopInv(policy, s, me) /\ me \in Loop /\ me.at \in {"Succeeded", "Failed"}
  <2>1. LoopInv(policy, s, me) /\ me.at \in {"Idle", "Succeeded", "Failed"}
    BY <1>1, <1>2, <1>3 DEF QueueInv
  <2> QED
    BY <1>2, <2>1 DEF LoopInv
<1> DEFINE rec == RecordOf(me)
<1>5. rec \in StepRecord /\ rec.status = me.at
  BY <1>4 DEF RecordOf, StepRecord, Loop
<1>6. me.events \in Seq(Event)
  BY <1>4 DEF Loop
<1> HIDE DEF me, rec
<1>7. /\ run \in RunRecord /\ run' \in RunRecord /\ run'.steps = [run.steps EXCEPT ![s] = rec]
      /\ run'.events = run.events /\ run'.status = run.status /\ run'.gatesPassed = run.gatesPassed
      /\ run.steps \in [Steps -> StepRecord]
  <2>1. run \in RunRecord
    BY <1>1 DEF TypeOK
  <2>2. run.steps \in [Steps -> StepRecord]
    BY <2>1 DEF RunRecord
  <2>3. [run.steps EXCEPT ![s] = rec] \in [Steps -> StepRecord]
    BY <1>5, <2>2
  <2>4. run' = [run EXCEPT !.steps = [run.steps EXCEPT ![s] = rec]]
    BY <1>2 DEF rec
  <2> QED
    BY <2>1, <2>2, <2>3, <2>4 DEF RunRecord
<1>8. run'.steps[s] = rec /\ \A t \in Steps : t # s => run'.steps[t] = run.steps[t]
  BY <1>3, <1>7
<1>9. /\ loop \in [Steps -> Loop] /\ loop' \in [Steps -> Loop] /\ loop'[s] = Idle
      /\ \A t \in Steps : t # s => loop'[t] = loop[t]
  <2>1. loop \in [Steps -> Loop]
    BY <1>1 DEF TypeOK
  <2>2. [Idle EXCEPT !.at = "Idle"] = Idle
    BY DEF Idle
  <2>3. Idle \in Loop
    BY <1>3, <2>2, FreshLoop, Zenon DEF LoopInv
  <2> QED
    BY <1>2, <1>3, <2>1, <2>3
<1>10. ASSUME NEW t \in Steps PROVE LoopInv(policy', t, loop'[t])
  <2>1. [Idle EXCEPT !.at = "Idle"] = Idle
    BY DEF Idle
  <2>2. LoopInv(policy, t, Idle)
    BY <2>1, FreshLoop, Zenon
  <2>3. loop'[t] = Idle \/ loop'[t] = loop[t]
    BY <1>9
  <2> QED
    BY <1>1, <1>2, <2>2, <2>3
<1>11. TypeOK'
  BY <1>1, <1>2, <1>3, <1>6, <1>7, <1>9 DEF TypeOK
<1>12. s \in Ready /\ run.steps[s] = NoRecord
  <2>1. 1 \in 1..Len(queue)
    BY <1>3
  <2>2. s \in Ready
    BY <1>1, <1>3, <2>1 DEF QueueInv
  <2> QED
    BY <1>1, <2>2 DEF Ready, StatusInv
<1>13. LogsInv'
  <2>1. sink \in Seq(Event) /\ Emissions = sink
    <3>1. sink \in Seq(Event)
      BY <1>1 DEF TypeOK
    <3> QED
      BY <1>2, <3>1 DEF Emissions
  <2>2. Tells(sink, run.steps) /\ DependenciesFirst(sink)
    BY <1>1, <2>1 DEF LogsInv
  <2>3. \A d \in Deps[s] : run.steps[d].status = "Succeeded"
    BY <1>12 DEF Ready
  <2>4. /\ Tells(sink \o me.events, [run.steps EXCEPT ![s] = rec])
        /\ DependenciesFirst(sink \o me.events)
    BY <1>3, <1>4, <1>7, <1>12, <2>1, <2>2, <2>3, ResultIsTold, Zenon DEF rec
  <2>5. Emissions' = sink \o me.events
    BY <1>2 DEF Emissions, me
  <2> QED
    BY <1>1, <1>2, <1>7, <2>4, <2>5 DEF LogsInv
<1>14. QueueInv'
  <2>1. ASSUME NEW t \in Ready, t # s PROVE t \in Ready'
    <3>1. t \in Steps /\ run'.steps[t].status = "Absent"
      BY <1>8, <2>1 DEF Ready
    <3>2. ASSUME NEW d \in Deps[t] PROVE run'.steps[d].status = "Succeeded"
      <4>1. d \in Steps /\ run.steps[d].status = "Succeeded"
        BY <2>1, <3>1, ExecutorAssumption DEF Ready
      <4>2. d # s
        BY <1>12, <4>1 DEF Ready
      <4> QED
        BY <1>8, <4>1, <4>2
    <3> QED
      BY <3>1, <3>2 DEF Ready
  <2>2. ASSUME NEW i \in 1..Len(queue')
        PROVE  /\ i + 1 \in 1..Len(queue) /\ i + 1 # 1 /\ queue'[i] = queue[i + 1]
    BY <1>2, <1>3
  <2>3. \A i, j \in 1..Len(queue) : queue[i] = queue[j] => i = j
    BY <1>1 DEF QueueInv
  <2>4. ASSUME NEW i \in 1..Len(queue'), NEW j \in 1..Len(queue'), queue'[i] = queue'[j]
        PROVE  i = j
    <3>1. i + 1 = j + 1
      BY <2>2, <2>3, <2>4
    <3> QED
      BY <3>1
  <2>5. ASSUME NEW i \in 1..Len(queue') PROVE queue'[i] \in Ready'
    <3>1. queue[i + 1] \in Ready
      BY <1>1, <2>2 DEF QueueInv
    <3>2. 1 \in 1..Len(queue)
      BY <1>3
    <3>3. queue[i + 1] # s
      BY <1>3, <2>2, <2>3, <3>2
    <3> QED
      BY <2>1, <2>2, <3>1, <3>3
  <2>6. \A t \in Steps : loop'[t].at \in {"Idle", "Succeeded", "Failed"}
    <3>1. Idle.at = "Idle"
      BY DEF Idle
    <3> QED
      BY <1>1, <1>2, <1>9, <3>1 DEF QueueInv
  <2> QED
    BY <1>2, <2>4, <2>5, <2>6 DEF QueueInv
<1>15. StatusInv'
  <2>1. /\ run.status = "Running"
        /\ \A t \in Steps : run.steps[t].status = "Absent" => run.steps[t] = NoRecord
    BY <1>1, <1>2 DEF StatusInv
  <2>2. \A t \in Steps : run'.steps[t].status = "Absent" => run'.steps[t] = NoRecord
    BY <1>4, <1>5, <1>8, <2>1 DEF me
  <2> QED
    BY <1>2, <1>7, <2>1, <2>2 DEF StatusInv
<1> QED
  BY <1>10, <1>11, <1>13, <1>14, <1>15 DEF ExecInv

-----------------------------------------------------------------------------
(* The theorems *)

\* Every step of the call keeps what the executor's locals, its queue, its logs
\* and its status mean.
LEMMA StepInv ==
    ASSUME ExecInv, [Next]_vars PROVE ExecInv'
<1>1. CASE Next
  <2>1. CASE \E s \in Steps : StepLoop(s)
    BY <2>1, StepLoopInv
  <2>2. CASE \E pass \in BOOLEAN : Close(pass)
    BY <2>2, CloseInv
  <2> QED
    BY <1>1, <2>1, <2>2, FailInv, EmitInv, SaveInv, NextRoundInv, JoinInv, TakeResultInv
       DEF Next, Call
<1>2. CASE UNCHANGED vars
  <2>1. UNCHANGED <<policy, phase, run, queue, loop, outbox, sink, stored>>
    BY <1>2 DEF vars
  <2>2. TypeOK'
    BY <2>1 DEF ExecInv, TypeOK
  <2>3. LogsInv'
    BY <2>1 DEF ExecInv, LogsInv, Emissions
  <2>4. QueueInv'
    BY <2>1 DEF ExecInv, QueueInv, Ready, Chunk
  <2>5. StatusInv'
    BY <2>1 DEF ExecInv, StatusInv, NoneMissing, Stopped
  <2> QED
    BY <2>1, <2>2, <2>3, <2>4, <2>5 DEF ExecInv
<1> QED
  BY <1>1, <1>2

\* What the executor's locals, its queue, its logs and its status mean, whenever
\* it awaits.
LEMMA ExecInvHolds == Spec => []ExecInv
<1>1. Init => ExecInv
  BY InitInv
<1>2. ExecInv /\ [Next]_vars => ExecInv'
  BY StepInv
<1> QED
  BY <1>1, <1>2, PTL DEF Spec

\* The locals of execute_with_metrics and of execute_step keep their types, for
\* every workflow, chunk size and policy.
THEOREM TypeCorrect == Spec => []TypeOK
<1>1. ExecInv => TypeOK
  BY DEF ExecInv
<1> QED
  BY <1>1, ExecInvHolds, PTL

\* A snapshot the executor stored names only events its sink has accepted, in
\* their order, and its records are those its events tell: wherever the call
\* stops, no result is stored without its events.
THEOREM StoredRunIsTold == Spec => []StoredTellsEmitted
<1>1. ExecInv => StoredTellsEmitted
  BY DEF ExecInv, LogsInv, Tells, StoredTellsEmitted
<1> QED
  BY <1>1, ExecInvHolds, PTL

\* A step starts behind the successes of its dependencies in the sink's order,
\* however the workflow is split into rounds and the rounds into chunks.
THEOREM DependenciesComeFirst == Spec => []StepsFollowDependencies
<1>1. ASSUME ExecInv PROVE StepsFollowDependencies
  <2>1. /\ sink \in Seq(Event) /\ outbox \in Seq(Event) /\ DependenciesFirst(sink \o outbox)
    BY <1>1 DEF ExecInv, TypeOK, LogsInv, Emissions
  <2>2. \A k, s : /\ Positions(sink \o outbox, k, s)
                         = Positions(sink, k, s) \cup {Len(sink) + i : i \in Positions(outbox, k, s)}
                  /\ Positions(sink, k, s) \subseteq 1..Len(sink)
                  /\ Positions(outbox, k, s) \subseteq 1..Len(outbox)
    BY <2>1, EventsBehind, PositionsAreFinite
  <2>3. Len(sink) \in Nat /\ Len(outbox) \in Nat
    BY <2>1
  <2>4. ASSUME NEW s \in Steps, NEW i \in Positions(sink, "StepStarted", s), NEW d \in Deps[s]
        PROVE  \E j \in Positions(sink, "StepSucceeded", d) : j < i
    <3>1. i \in Positions(sink \o outbox, "StepStarted", s) /\ i \in 1..Len(sink)
      BY <2>2
    <3>2. PICK j \in Positions(sink \o outbox, "StepSucceeded", d) : j < i
      BY <2>1, <3>1 DEF DependenciesFirst
    <3>3. j \in Positions(sink, "StepSucceeded", d)
      <4>1. SUFFICES ASSUME j \notin Positions(sink, "StepSucceeded", d) PROVE FALSE
        OBVIOUS
      <4>2. PICK m \in Positions(outbox, "StepSucceeded", d) : j = Len(sink) + m
        BY <2>2, <4>1
      <4>3. m \in 1..Len(outbox)
        BY <2>2
      <4> QED
        BY <2>3, <3>1, <3>2, <4>2, <4>3
    <3> QED
      BY <3>2, <3>3
  <2> QED
    BY <2>4 DEF StepsFollowDependencies
<1> QED
  BY <1>1, ExecInvHolds, PTL

\* "workflow could not make progress" is dead code for a workflow that validate
\* accepted.
THEOREM ProgressIsPossible == Spec => []AlwaysProgress
<1>1. ASSUME ExecInv PROVE AlwaysProgress
  <2>1. SUFFICES ASSUME phase = "Scanning", run.status = "Running",
                        NEW s \in Steps, run.steps[s].status = "Absent"
                 PROVE  Ready # {}
    BY DEF AlwaysProgress
  <2>2. TypeOK /\ ~Stopped(run)
    BY <1>1, <2>1 DEF ExecInv, StatusInv
  <2> QED
    BY <2>1, <2>2, SomeStepReady
<1> QED
  BY <1>1, ExecInvHolds, PTL

\* The run that execute returns is the one it stored, with the sink's events, and
\* its status follows from its steps and its gates.
THEOREM VerdictFollows == Spec => []VerdictIsJustified
<1>1. ASSUME ExecInv PROVE VerdictIsJustified
  <2>1. SUFFICES ASSUME phase = "Returned" PROVE VerdictIsJustified
    BY DEF VerdictIsJustified
  <2>2. /\ stored = run /\ sink = run.events
        /\ run.status = (IF run.gatesPassed /\ NoneMissing THEN "Succeeded" ELSE "Failed")
        /\ (\E s \in Steps : run.steps[s].status = "Absent") => Stopped(run)
    BY <1>1, <2>1 DEF ExecInv, LogsInv, StatusInv
  <2> QED
    BY <2>2 DEF VerdictIsJustified, NoneMissing, Stopped
<1> QED
  BY <1>1, ExecInvHolds, PTL

\* Primary and fallback share max_attempts, and the one attempt beyond it directly
\* follows the selection of the fallback.
THEOREM BudgetHolds == Spec => []BudgetIsShared
<1>1. ASSUME ExecInv, NEW s \in Steps
      PROVE  LET es     == loop[s].events
                 starts == Positions(es, "StepStarted", s)
             IN  /\ Count(es, "StepFallbackSelected", s) <= 1
                 /\ Cardinality(starts) <= Budget(s) + 1
                 /\ Cardinality(starts) > Budget(s) =>
                        \E i \in starts : /\ \A j \in starts : j <= i
                                          /\ es[i - 1].kind = "StepFallbackSelected"
  <2> DEFINE me     == loop[s]
             starts == Positions(me.events, "StepStarted", s)
  <2>1. EventsTellLoop(s, me) /\ BudgetKept(s, me)
    BY <1>1 DEF ExecInv, LoopInv
  <2>2. Cardinality(starts) = me.attempts
    BY <2>1 DEF EventsTellLoop, Count
  <2>3. Count(me.events, "StepFallbackSelected", s) \in {0, 1}
    BY <2>1 DEF EventsTellLoop
  <2>4. me.attempts <= Budget(s) + 1
    BY <2>1 DEF BudgetKept
  <2>5. me.attempts > Budget(s) =>
            \E i \in starts : /\ \A j \in starts : j <= i
                              /\ me.events[i - 1].kind = "StepFallbackSelected"
    BY <2>1 DEF BudgetKept, LastStart
  <2> QED
    BY <2>2, <2>3, <2>4, <2>5
<1>2. ExecInv => BudgetIsShared
  BY <1>1 DEF BudgetIsShared
<1> QED
  BY <1>2, ExecInvHolds, PTL

\* Every retry of a step waits for what for_attempt computes of its attempt, and
\* that is the exact delay at every width of the integers.
THEOREM DelaysHold == Spec => []DelaysAreExact
<1>1. ASSUME ExecInv, NEW s \in Steps
      PROVE  LET me == loop[s]
             IN  /\ Len(me.slept) = Count(me.events, "StepRetrying", s)
                 /\ \A i \in Positions(me.events, "StepRetrying", s) :
                        \E j \in DOMAIN me.slept : me.slept[j].attempt = me.events[i].attempt
                 /\ \A j \in DOMAIN me.slept :
                        IsExactDelay(policy, me.slept[j].attempt, me.slept[j].delay)
  <2> DEFINE me == loop[s]
  <2>1. /\ me \in Loop /\ DelaysFit(policy, s, me) /\ policy \in RetryPolicies
    BY <1>1, PolicyType DEF ExecInv, LoopInv
  <2>2. me.attempts \in Nat /\ DOMAIN me.slept = 1..Len(me.slept)
    BY <2>1 DEF Loop
  <2>3. ASSUME NEW j \in DOMAIN me.slept
        PROVE  IsExactDelay(policy, me.slept[j].attempt, me.slept[j].delay)
    <3>1. /\ me.slept[j].attempt \in 1..me.attempts
          /\ me.slept[j].delay = ForAttempt(policy, me.slept[j].attempt)
      BY <2>1, <2>2 DEF DelaysFit
    <3>2. me.slept[j].attempt \in Nat \ {0}
      BY <2>2, <3>1
    <3> QED
      BY <2>1, <3>1, <3>2, DelayIsExact
  <2> QED
    BY <2>1, <2>2, <2>3 DEF DelaysFit
<1>2. ExecInv => DelaysAreExact
  BY <1>1 DEF DelaysAreExact
<1> QED
  BY <1>2, ExecInvHolds, PTL

\* A step's retries never come faster than an earlier one of its did, for every
\* policy whose multiplier is not zero.
THEOREM BackoffHolds == Spec => []BackoffNeverShortens
<1>1. ASSUME ExecInv, policy.multiplier > 0, NEW s \in Steps,
             NEW i \in DOMAIN loop[s].slept, NEW j \in DOMAIN loop[s].slept, i < j
      PROVE  loop[s].slept[i].delay <= loop[s].slept[j].delay
  <2> DEFINE me == loop[s]
             a  == me.slept[i].attempt
             b  == me.slept[j].attempt
  <2>1. /\ me \in Loop /\ DelaysFit(policy, s, me) /\ policy \in RetryPolicies
    BY <1>1, PolicyType DEF ExecInv, LoopInv
  <2>2. me.attempts \in Nat /\ DOMAIN me.slept = 1..Len(me.slept)
    BY <2>1 DEF Loop
  <2>3. /\ a \in 1..me.attempts /\ b \in 1..me.attempts /\ a < b
        /\ me.slept[i].delay = ForAttempt(policy, a) /\ me.slept[j].delay = ForAttempt(policy, b)
    BY <1>1, <2>1, <2>2 DEF DelaysFit
  <2> HIDE DEF a, b
  <2>4. a \in Nat \ {0} /\ b \in Nat \ {0} /\ a <= b
    BY <2>2, <2>3
  <2> QED
    BY <1>1, <2>1, <2>3, <2>4, DelaysGrow
<1>2. ExecInv => BackoffNeverShortens
  BY <1>1 DEF BackoffNeverShortens
<1> QED
  BY <1>2, ExecInvHolds, PTL
=============================================================================
