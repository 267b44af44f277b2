------------------------ MODULE MCPostgresRepository ------------------------
(* Instances of PostgresRepository, and of one of its rows, small enough for TLC. *)
EXTENDS RowContract, TLC

CONSTANTS c1, c2, k1, k2, w1, primary, fallback, o1

\* Chain: step 2 depends on step 1 and may be retried.  The only worker cannot run
\* the fallback of step 1: a run that selected it stays in front of the scan.
ChainDeps     == <<{}, {1}>>
ChainAttempts == <<1, 2>>
ChainPrimary  == <<primary, primary>>
ChainFallback == <<fallback, NoTask>>
ChainSupports == [w \in {w1} |-> {1, 2} \X {primary}]

\* Submit: one step nobody can claim, so that only submissions matter.
OneDeps    == <<{}>>
OneAttempt == <<1>>
OnePrimary == <<primary>>
NoFallback == <<NoTask>>
Nobody     == [w \in {w1} |-> {}]

CallerSymmetry == Permutations({c1, c2}) \cup Permutations({k1, k2})
=============================================================================
