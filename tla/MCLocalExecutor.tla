-------------------------- MODULE MCLocalExecutor --------------------------
(* Instances of LocalExecutor small enough for TLC. *)
EXTENDS LocalExecutor

\* Three independent roots and a join of the last two: rounds of two chunks,
\* then one.  Step 2 has a fallback on a budget of five, enough for its delays to
\* pass the exponent's limit, step 3 a fallback on one attempt (max_attempts = 0).
JoinDeps     == <<{}, {}, {}, {2, 3}>>
JoinAttempts == <<1, 5, 0, 2>>

\* A factor that saturates (6), stays or vanishes; a cap below initial_ms, above
\* it and at the width.
SmallPolicies ==
    [initial_ms : {0, 1, 3, 40}, multiplier : {0, 1, 2, 6}, max_ms : {0, 20, 63}]
=============================================================================
