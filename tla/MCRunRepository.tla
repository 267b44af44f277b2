-------------------------- MODULE MCRunRepository --------------------------
(* Instances of RunRepository small enough for TLC. *)
EXTENDS RunRepository

CONSTANTS w1, primary, fallback, o1

\* Join: step 3 joins the two roots, whose leases overlap.  Step 1 has one
\* attempt (max_attempts = 0 counts as 1); step 2 has two and a fallback, which
\* may be selected before or after they are spent.
JoinDeps     == <<{}, {}, {1, 2}>>
JoinAttempts == <<0, 2, 1>>
JoinPrimary  == <<primary, primary, primary>>
JoinFallback == <<NoTask, fallback, NoTask>>
JoinSupports == [w \in {w1} |-> {1, 2, 3} \X {primary, fallback}]

\* Pair: two runs of a one-step workflow with one attempt, so that operations
\* of different runs meet in the shared counters and in recover_expired.
PairDeps     == <<{}>>
PairAttempts == <<1>>
PairPrimary  == <<primary>>
PairFallback == <<NoTask>>
PairSupports == [w \in {w1} |-> {<<1, primary>>}]
=============================================================================
