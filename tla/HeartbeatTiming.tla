-------------------------- MODULE HeartbeatTiming --------------------------
(***************************************************************************)
(* Leases and time in one pass of DurableExecutor::drive (work_once is the *)
(* pass with MaxParallel = 1): up to MaxParallel claims are taken one call *)
(* after the other, their tasks run together under join_all, each with a   *)
(* heartbeat that ends when its own task returns, and the completions are  *)
(* committed one call after the other when the slowest task is done.       *)
(*                                                                         *)
(* Time is discrete; one Tick is one unit for every deadline.  A call of   *)
(* the repository takes effect at most MaxDelay units after the executor   *)
(* is ready to make it, so everything that is late here is late by design  *)
(* and not because a process stopped or a database hung.                   *)
(***************************************************************************)
EXTENDS Integers

CONSTANTS
    MaxParallel,        \* DurableExecutorOptions.max_parallel_steps, 1 for work_once
    LeaseMs,            \* DurableExecutorOptions.lease_ms
    TimeoutMs,          \* policy.timeout_ms: the longest a task runs
    MaxDelay            \* bound: how late a call of the repository takes effect

\* Mutant: the heartbeat sleeps as long as the lease lasts.
IntervalWholeLease == LeaseMs

\* (lease_ms / 3).max(1)
Interval == IF LeaseMs \div 3 > 1 THEN LeaseMs \div 3 ELSE 1

\* Mutant: a lease is renewed for one interval only.
RenewedForOneInterval == Interval

RenewedFor == 3 * Interval

GrantedFor == LeaseMs

ASSUME TimingAssumption ==
    /\ MaxParallel \in Nat \ {0} /\ LeaseMs \in Nat /\ TimeoutMs \in Nat
    /\ MaxDelay \in Nat

\* What an operator must choose: a lease of three units or more (below, a third
\* of it is no unit), and a repository whose calls together take less than a
\* heartbeat interval.
ASSUME CallsAreFast ==
    LeaseMs >= 3 /\ (MaxParallel + 1) * MaxDelay < Interval

Claims == 1..MaxParallel

VARIABLES
    at,         \* where the pass stands
    claimed,    \* how many claims it has
    committed,  \* how many of their completions were accepted
    stage,      \* stage[i]: where execute_claim stands for claim i
    lease,      \* lease[i]: units until the lease of claim i expires
    beating,    \* the claims whose heartbeat task is alive
    beat,       \* beat[i]: units until the heartbeat of claim i wakes up
    ran,        \* ran[i]: how long the task of claim i has run
    wait,       \* wait[i]: how long the current call of claim i is due
    late        \* how long the next claim or completion of the pass is due

vars == <<at, claimed, committed, stage, lease, beating, beat, ran, wait, late>>

Stages == {"Waiting", "Starting", "Executing", "Finished"}

Init ==
    /\ at = "Claiming" /\ claimed = 0 /\ committed = 0
    /\ stage = [i \in Claims |-> "Waiting"]
    /\ lease = [i \in Claims |-> 0]
    /\ beating = {}
    /\ beat = [i \in Claims |-> 0] /\ ran = [i \in Claims |-> 0]
    /\ wait = [i \in Claims |-> 0] /\ late = 0

\* Mutant: for _ in 0..=max_parallel_steps.
BatchIsFullLate == claimed = MaxParallel

BatchIsFull == claimed + 1 = MaxParallel

\* claim_next_step grants a lease; the last claim of a full batch ends the loop.
Claim ==
    /\ at = "Claiming"
    /\ claimed' = claimed + 1
    /\ stage' = [stage EXCEPT ![claimed + 1] = "Starting"]
    /\ lease' = [lease EXCEPT ![claimed + 1] = GrantedFor]
    /\ at' = IF BatchIsFull THEN "Joining" ELSE "Claiming"
    /\ late' = 0
    /\ UNCHANGED <<committed, beating, beat, ran, wait>>

ClaimNothing ==
    /\ at = "Claiming" /\ claimed > 0
    /\ at' = "Joining" /\ late' = 0
    /\ UNCHANGED <<claimed, committed, stage, lease, beating, beat, ran, wait>>

\* record_event(StepStarted) has returned: heartbeat and task start.
Start(i) ==
    /\ at = "Joining" /\ stage[i] = "Starting"
    /\ stage' = [stage EXCEPT ![i] = "Executing"]
    /\ beating' = beating \cup {i}
    /\ beat' = [beat EXCEPT ![i] = Interval]
    /\ wait' = [wait EXCEPT ![i] = 0]
    /\ UNCHANGED <<at, claimed, committed, lease, ran, late>>

\* The heartbeat's renew_step: an expired lease is an error that ends it.
Renew(i) ==
    /\ i \in beating /\ beat[i] = 0
    /\ lease' = [lease EXCEPT ![i] = IF @ > 0 THEN RenewedFor ELSE 0]
    /\ beat' = [beat EXCEPT ![i] = IF lease[i] > 0 THEN Interval ELSE 0]
    /\ beating' = IF lease[i] > 0 THEN beating ELSE beating \ {i}
    /\ wait' = [wait EXCEPT ![i] = 0]
    /\ UNCHANGED <<at, claimed, committed, stage, ran, late>>

\* The task returns, fails or times out, and its heartbeat is aborted.
TaskReturns(i) ==
    /\ stage[i] = "Executing"
    /\ stage' = [stage EXCEPT ![i] = "Finished"]
    /\ beating' = beating \ {i}
    /\ wait' = [wait EXCEPT ![i] = 0]
    /\ UNCHANGED <<at, claimed, committed, lease, beat, ran, late>>

Joined == at = "Joining" /\ \A i \in 1..claimed : stage[i] = "Finished"

\* complete_step for the next result in order: refused with LeaseLost when the
\* lease has expired, and then the whole call ends with that error.
Commit ==
    /\ Joined
    /\ \/ lease[committed + 1] > 0
          /\ committed' = committed + 1
          /\ at' = IF committed + 1 = claimed THEN "Done" ELSE "Joining"
       \/ lease[committed + 1] = 0
          /\ at' = "Failed"
          /\ UNCHANGED committed
    /\ late' = 0
    /\ UNCHANGED <<claimed, stage, lease, beating, beat, ran, wait>>

\* drive goes round its loop; after an error the caller may resume the run.
Again ==
    /\ at \in {"Done", "Failed"}
    /\ at' = "Claiming" /\ claimed' = 0 /\ committed' = 0
    /\ stage' = [i \in Claims |-> "Waiting"]
    /\ lease' = [i \in Claims |-> 0]
    /\ beating' = {}
    /\ beat' = [i \in Claims |-> 0] /\ ran' = [i \in Claims |-> 0]
    /\ wait' = [i \in Claims |-> 0] /\ late' = 0

\* The calls the pass and claim i are waiting for.
PassCallDue == at = "Claiming" \/ Joined
CallDue(i) ==
    (at = "Joining" /\ stage[i] = "Starting") \/ (i \in beating /\ beat[i] = 0)

Down(n) == IF n > 0 THEN n - 1 ELSE 0

Tick ==
    /\ at \in {"Claiming", "Joining"}
    /\ PassCallDue => late < MaxDelay
    /\ \A i \in Claims : CallDue(i) => wait[i] < MaxDelay
    /\ \A i \in Claims : stage[i] = "Executing" => ran[i] < TimeoutMs
    /\ lease' = [i \in Claims |-> Down(lease[i])]
    /\ beat' = [i \in Claims |-> IF i \in beating THEN Down(beat[i]) ELSE beat[i]]
    /\ ran' = [i \in Claims |-> IF stage[i] = "Executing" THEN ran[i] + 1 ELSE ran[i]]
    /\ wait' = [i \in Claims |-> IF CallDue(i) THEN wait[i] + 1 ELSE 0]
    /\ late' = IF PassCallDue THEN late + 1 ELSE 0
    /\ UNCHANGED <<at, claimed, committed, stage, beating>>

Next ==
    \/ Claim \/ ClaimNothing \/ Commit \/ Again \/ Tick
    \/ \E i \in Claims : Start(i) \/ Renew(i) \/ TaskReturns(i)

Spec == Init /\ [][Next]_vars

-----------------------------------------------------------------------------
(* Properties *)

\* Every variable holds what the pass's locals and the leases allow.
PassTypeOK ==
    /\ at \in {"Claiming", "Joining", "Done", "Failed"}
    /\ claimed \in 0..MaxParallel /\ committed \in 0..claimed
    /\ at = "Claiming" => claimed < MaxParallel /\ committed = 0
    /\ at \in {"Joining", "Failed"} => committed < claimed
    /\ late \in 0..MaxDelay
ClaimsTypeOK ==
    /\ stage \in [Claims -> Stages]
    /\ lease \in [Claims -> Nat]
    /\ beating \subseteq Claims
    /\ beat \in [Claims -> 0..Interval]
    /\ ran \in [Claims -> 0..TimeoutMs]
    /\ wait \in [Claims -> 0..MaxDelay]
TypeOK == PassTypeOK /\ ClaimsTypeOK

\* "Renew long-running work": while a task runs, its lease is live and its
\* heartbeat goes on, however long it runs and however late, within MaxDelay,
\* the claims before it and each renewal took effect.
LeaseCoversExecution ==
    \A i \in Claims : stage[i] = "Executing" => lease[i] > 0 /\ i \in beating

\* LeaseLost says the step "is leased by another worker", and here is none.  A
\* completion is refused only when the pass waited under join_all for a sibling
\* that ran longer, by two heartbeat intervals less what the calls took: with
\* tasks of like length, or one at a time, a pass commits what it computed.
Margin == 2 * (Interval - (MaxParallel + 1) * MaxDelay)
RefusedOnlyBehindSlower ==
    at = "Failed" => \E j \in 1..claimed : ran[j] - ran[committed + 1] >= Margin

\* A pass that loses nothing.
CommitsInTime == at # "Failed"
=============================================================================
