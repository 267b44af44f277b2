----------------------------- MODULE RowContract -----------------------------
(***************************************************************************)
(* One row of PostgresRepository, seen as an in-memory repository that     *)
(* holds this run and no other: the table as an implementation of the      *)
(* RunRepository contract, row by row.  Tokens and sequences are counted   *)
(* by the row's own history and log.                                       *)
(***************************************************************************)
EXTENDS PostgresRepository

CONSTANT row            \* the run the row belongs to

ASSUME RowAssumption == row \in Runs

\* The run is number 1 of its repository.
Only(x)  == [r \in 1..1 |-> x]
Alone(S) == {[x EXCEPT !.run = 1] : x \in {y \in S : y.run = row}}

Contract == INSTANCE RunRepository WITH
    NumRuns           <- 1,
    status            <- Only(rows[row].status),
    steps             <- Only(rows[row].steps),
    log               <- Only(rows[row].log),
    gatesPassed       <- Only(rows[row].gatesPassed),
    request           <- Only([key |-> rows[row].key, payload |-> rows[row].payload]),
    idempotency       <- [k \in Keys |-> IF Stored(row) /\ rows[row].key = k THEN 1 ELSE NoRun],
    nextLeaseToken    <- NextLeaseToken(rows[row]) - 1,
    nextEventSequence <- LastSequence(rows[row]),
    claims            <- Alone(claims),
    answered          <- Alone(answered)

-----------------------------------------------------------------------------
(* Property *)

\* The first promise of PostgresRunStore: the row of each run, whatever
\* transactions, scans and batch recoveries interleave on the table, goes through
\* transitions the in-memory implementation of the contract could make with that
\* run alone.
RowKeepsTheContract == Contract!Spec
=============================================================================
