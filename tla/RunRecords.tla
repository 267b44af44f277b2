----------------------------- MODULE RunRecords -----------------------------
(***************************************************************************)
(* What a run is made of, and what each transition makes of one step       *)
(* record, whichever repository adapter keeps it: steps, leases, attempt   *)
(* histories, events, claims and completions.  RunRepository (in memory)   *)
(* and PostgresRepository (rows of a table) build on it.                   *)
(***************************************************************************)
EXTENDS Naturals, FiniteSets, SequencesExt

CONSTANTS
    NumSteps,           \* steps are 1..NumSteps, in workflow order
    Deps,               \* Deps[s]: the steps s depends on
    MaxAttempts,        \* MaxAttempts[s]: policy.retry.max_attempts, 0 allowed
    Primary,            \* Primary[s]: the task of step s
    Fallback,           \* Fallback[s]: policy.fallback_task, or NoTask
    Tasks, NoTask,
    Workers, NoWorker,
    Supports,           \* Supports[w]: the <<step, task>> pairs w.supports_task accepts
    Outputs, NoOutput,  \* values a task may return
    Keys, NoKey,        \* idempotency keys
    Payloads,           \* what create_run compares: workflow, manifest and input
    HasGates,           \* whether the manifest has evaluation gates
    ClaimClearsBackoff, \* a claim resets next_attempt_at_ms: PostgresRunStore does,
                        \* InMemoryRunStore leaves the deadline that has passed
    LeaseTicks,         \* ticks a fresh or renewed lease lasts
    MaxFinishEvents     \* bound: RunFinished events per run (finish_run may flip for ever)

Steps == 1..NumSteps
NoRun == 0

ASSUME CountsAssumption ==
    NumSteps \in Nat \ {0} /\ LeaseTicks \in Nat \ {0} /\ MaxFinishEvents \in Nat

\* validate_run_request accepts only workflows whose dependencies are steps and
\* whose tasks the manifest contains.  It also refuses cycles; nothing below
\* relies on that, a step in a cycle would just never become ready.
ASSUME WorkflowAssumption ==
    /\ Deps \in [Steps -> SUBSET Steps]
    /\ MaxAttempts \in [Steps -> Nat]
    /\ Primary \in [Steps -> Tasks]
    /\ Fallback \in [Steps -> Tasks \cup {NoTask}]

ASSUME NullsAssumption ==
    NoTask \notin Tasks /\ NoWorker \notin Workers /\ NoOutput \notin Outputs
        /\ NoKey \notin Keys /\ HasGates \in BOOLEAN /\ ClaimClearsBackoff \in BOOLEAN

\* An absent run's request holds an arbitrary payload.
ASSUME PayloadsAssumption == Payloads # {}

-----------------------------------------------------------------------------
(* Records *)

Terminal    == {"Cancelled", "Succeeded", "Failed"}
RunStatuses == {"Absent", "Running"} \cup Terminal
\* "Absent" stands for a step without a StepRecord: claiming it inserts one.
StepStatuses == {"Absent", "Running", "Retrying", "Succeeded", "Failed", "Cancelled"}
Settled      == {"Succeeded", "Failed", "Cancelled"}

\* The step status each step event announces.
Announces == [StepStarted          |-> "Running",
              StepRetrying         |-> "Retrying",
              StepFallbackSelected |-> "Retrying",
              StepSucceeded        |-> "Succeeded",
              StepFailed           |-> "Failed"]
StepEventKinds  == DOMAIN Announces
CompletionKinds == StepEventKinds \ {"StepStarted"}

NoLease == [worker |-> NoWorker, token |-> 0, left |-> 0]
Lease   == [worker : Workers, token : Nat \ {0}, left : 0..LeaseTicks]
Attempt == [number : Nat \ {0}, worker : Workers, token : Nat \ {0},
            status : StepStatuses \ {"Absent"}]
Backoff == {"None", "Pending", "Elapsed"}      \* next_attempt_at_ms: None, later, passed
StepRecord ==
    [status : StepStatuses, task : Tasks, attempts : Nat,
     output : Outputs \cup {NoOutput}, fallbackUsed : BOOLEAN,
     lease : Lease \cup {NoLease}, backoff : Backoff, history : Seq(Attempt)]

\* StepFallbackSelected carries no attempt number and RunFinished no step.
Event == [kind : StepEventKinds, step : Steps, attempt : Nat, status : {"None"}]
            \cup [kind : {"RunStarted", "RunFinished"}, step : {0}, attempt : {0},
                  status : RunStatuses]
StepEvent(kind, s, n) ==
    [kind |-> kind, step |-> s, status |-> "None",
     attempt |-> IF kind = "StepFallbackSelected" THEN 0 ELSE n]
RunEvent(kind, st) == [kind |-> kind, step |-> 0, attempt |-> 0, status |-> st]
EventEnvelope == [sequence : Nat \ {0}, event : Event]

ClaimOn(R) ==
    [run : R, step : Steps, task : Tasks, worker : Workers, token : Nat \ {0},
     attempt : Nat \ {0}, fallbackUsed : BOOLEAN,
     input : UNION {[D -> Outputs \cup {NoOutput}] : D \in SUBSET Steps}]

StepCompletion ==
    [kind : {"StepSucceeded"}, output : Outputs, backoff : {"None"}]
        \cup [kind : {"StepRetrying"}, output : {NoOutput}, backoff : {"None", "Pending"}]
        \cup [kind : {"StepFallbackSelected", "StepFailed"},
              output : {NoOutput}, backoff : {"None"}]

NewStep(s) ==
    [status |-> "Absent", task |-> Primary[s], attempts |-> 0, output |-> NoOutput,
     fallbackUsed |-> FALSE, lease |-> NoLease, backoff |-> "None", history |-> <<>>]

Budget(s) == IF MaxAttempts[s] = 0 THEN 1 ELSE MaxAttempts[s]

-----------------------------------------------------------------------------
(* Transitions of one step record *)

\* Writes the final status of the last attempt into its history entry.
CloseAttempt(rec, st) ==
    [rec EXCEPT !.history[Len(rec.history)].status = st]

\* What complete_step and recover_expired_step both do when an attempt ends.
EndAttempt(s, rec, kind, output, backoff) ==
    LET st      == Announces[kind]
        falling == kind = "StepFallbackSelected"
    IN  CloseAttempt([rec EXCEPT !.status       = st,
                                 !.output       = output,
                                 !.fallbackUsed = @ \/ falling,
                                 !.task         = IF falling THEN Fallback[s] ELSE @,
                                 !.lease        = NoLease,
                                 !.backoff      = backoff], st)

\* Mutant: the history entry takes its token from the record before the new
\* lease is stored in it.
StartAttemptStaleToken(rec, w, token) ==
    [rec EXCEPT !.status   = "Running",
                !.attempts = @ + 1,
                !.history  = Append(@, [number |-> rec.attempts + 1, worker |-> w,
                                        token |-> rec.lease.token + 1, status |-> "Running"]),
                !.lease    = [worker |-> w, token |-> token, left |-> LeaseTicks]]

StartAttempt(rec, w, token) ==
    [rec EXCEPT !.status   = "Running",
                !.attempts = @ + 1,
                !.lease    = [worker |-> w, token |-> token, left |-> LeaseTicks],
                !.backoff  = IF ClaimClearsBackoff THEN "None" ELSE @,
                !.history  = Append(@, [number |-> rec.attempts + 1, worker |-> w,
                                        token |-> token, status |-> "Running"])]

\* Mutants: cancelling keeps the lease; cancelling includes succeeded steps.
CancelStepKeepsLease(rec) ==
    IF rec.status \in {"Absent", "Succeeded", "Failed"} THEN rec
    ELSE [CloseAttempt(rec, "Cancelled") EXCEPT !.status = "Cancelled"]
CancelStepAll(rec) ==
    IF rec.status \in {"Absent", "Failed"} THEN rec
    ELSE [CloseAttempt(rec, "Cancelled") EXCEPT !.status = "Cancelled", !.lease = NoLease]

CancelStep(rec) ==
    IF rec.status \in {"Absent", "Succeeded", "Failed"} THEN rec
    ELSE LET closed == IF Last(rec.history).status = "Running"
                       THEN CloseAttempt(rec, "Cancelled") ELSE rec
         IN  [closed EXCEPT !.status = "Cancelled", !.lease = NoLease]

\* Mutant: one recovery too many goes to a plain retry.
RecoveryKindOffByOne(s, rec) ==
    IF rec.attempts <= Budget(s) THEN "StepRetrying"
    ELSE IF ~rec.fallbackUsed /\ Fallback[s] # NoTask THEN "StepFallbackSelected"
    ELSE "StepFailed"

RecoveryKind(s, rec) ==
    IF rec.attempts < Budget(s) THEN "StepRetrying"
    ELSE IF ~rec.fallbackUsed /\ Fallback[s] # NoTask THEN "StepFallbackSelected"
    ELSE "StepFailed"

\* The i-th smallest member of a set of steps.
NthStep(S, i) == CHOOSE s \in S : Cardinality({t \in S : t < s}) = i - 1

-----------------------------------------------------------------------------
(* Guards on one step record *)

\* Mutant: a leased step is available again.
AvailableWhileLeased(s, rec) ==
    \/ rec.status = "Absent"
    \/ rec.status \in {"Running", "Retrying"} /\ rec.attempts < Budget(s)

Available(s, rec) ==
    \/ rec.status = "Absent"
    \/ /\ rec.lease = NoLease
       /\ rec.status = "Retrying"
       /\ rec.backoff # "Pending"
       /\ \/ rec.attempts < Budget(s)
          \/ rec.fallbackUsed /\ rec.attempts = Budget(s)

CompletionMatchesClaim(k, c) ==
    \/ k.kind = "StepSucceeded"
    \/ k.kind = "StepRetrying" /\ c.attempt < Budget(c.step)
    \/ k.kind = "StepFallbackSelected" /\ ~c.fallbackUsed /\ Fallback[c.step] # NoTask
    \/ k.kind = "StepFailed" /\ (c.fallbackUsed \/ Fallback[c.step] = NoTask)

-----------------------------------------------------------------------------
(* What one step record promises *)

\* A step is leased exactly while it is Running, the lease is the last
\* attempt's, and every earlier attempt is closed.
LeaseIsOpenAttempt(rec) ==
    LET n == Len(rec.history)
    IN  /\ n = rec.attempts
        /\ (rec.lease # NoLease) <=> (rec.status = "Running")
        /\ \A i \in 1..n : rec.history[i].status = "Running" =>
                               i = n /\ rec.status = "Running"
        /\ rec.status = "Running" =>
               /\ n > 0 /\ rec.history[n].status = "Running"
               /\ rec.history[n].token = rec.lease.token
               /\ rec.history[n].worker = rec.lease.worker
=============================================================================
