----------------------------- MODULE RetryDelay -----------------------------
(***************************************************************************)
(* RetryDelay::for_attempt: the factor is a u32 power that saturates, the  *)
(* product a u64 that saturates, and the cap is the larger of max_ms and   *)
(* initial_ms.  The fields are deserialized, so every combination occurs,  *)
(* a multiplier of zero included.                                          *)
(***************************************************************************)
EXTENDS Integers, FiniteSetsExt

CONSTANTS
    MaxExponent,        \* 20, small here
    U32Max,             \* 2^32 - 1, small here
    U64Max              \* 2^64 - 1, small here

ASSUME WidthsAssumption ==
    MaxExponent \in Nat /\ U32Max \in Nat /\ U64Max \in Nat /\ U32Max < U64Max

RetryPolicies == [initial_ms : 0..U64Max, multiplier : 0..U32Max, max_ms : 0..U64Max]

\* x.saturating_pow(n) on u32: the product saturates as soon as it does not fit.
SaturatingPow(x, n) ==
    LET pow[k \in 0..n] == IF k = 0 THEN 1 ELSE Min({pow[k - 1] * x, U32Max})
    IN  pow[n]

\* Mutant: the power wraps, as plain arithmetic does in a release build.
FactorWraps(multiplier, a) ==
    LET pow[k \in 0..MaxExponent] == IF k = 0 THEN 1 ELSE (pow[k - 1] * multiplier) % (U32Max + 1)
    IN  pow[Min({a - 1, MaxExponent})]

\* Mutant: the exponent counts the attempt itself.
FactorOfAttempt(multiplier, a) == SaturatingPow(multiplier, Min({a, MaxExponent}))

Factor(multiplier, a) == SaturatingPow(multiplier, Min({a - 1, MaxExponent}))

ForAttempt(p, a) ==
    IF a = 0 \/ p.initial_ms = 0 THEN 0
    ELSE Min({p.initial_ms * Factor(p.multiplier, a), U64Max, Max({p.max_ms, p.initial_ms})})

-----------------------------------------------------------------------------
(* Without the widths: initial_ms times the multiplier to the power a - 1, *)
(* the same power from the exponent's limit on, and no more than the cap.  *)

ExactFactor(p, a) ==
    LET power[k \in 0..MaxExponent] == IF k = 0 THEN 1 ELSE power[k - 1] * p.multiplier
    IN  power[Min({a - 1, MaxExponent})]
Cap(p) == Max({p.max_ms, p.initial_ms})

\* Neither width shows: the delay is the exact one, unless the factor alone
\* exceeds u32, and then it is no shorter than that of the largest factor.
IsExactDelay(p, a, delay) ==
    LET exact == Min({p.initial_ms * ExactFactor(p, a), Cap(p)})
    IN  IF ExactFactor(p, a) <= U32Max THEN delay = exact
        ELSE delay <= exact /\ delay >= Min({p.initial_ms * U32Max, Cap(p)})
=============================================================================
