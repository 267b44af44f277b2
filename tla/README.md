# A verification project for data-ai-orchestrator

`data-ai-orchestrator` is a Rust core for durable workflows: a *run* executes the
steps of a workflow, *workers* claim steps from a *run repository* under fencing
leases, and every transition commits its event together with the state. The
modules here model that core, model-check it with TLC on small instances and
prove it with TLAPS for every value of the constants, but for liveness. Line numbers refer
to the files under `src/src/` of the repository.

## 1. Inventory

| Component | State | Operations | Interacts with |
|---|---|---|---|
| **Run repository**, contract `RunRepository` and `InMemoryRunStore` (store.rs) | runs with their steps, leases, attempt histories and event logs; the idempotency index; a lease-token and an event counter | create_run, claim_next_step, claim_next_runnable_step, renew_step, complete_step, record_event, finish_run, cancel_run, recover_expired, load_run, events_since | called by every worker and client; one write lock makes each call atomic |
| **Snapshot store and event sink** (store.rs 261-408) | the same map of runs; a list of events | save, load; emit | `save` writes into the state the repository operations use |
| **DurableExecutor** (durable.rs) | a call's batch of claims; spawned heartbeat tasks | submit, resume/drive, work_once, execute_claim, cancel | repository calls between awaits; tasks; one heartbeat per running task |
| **PostgresRunStore** (postgres.rs) | rows of JSON runs with a revision | the same contract, one transaction per call | row locks, revision guard |
| **InMemoryExecutor** (runtime.rs) | one local run record | execute: chunks of ready steps, in-memory retries and fallback | snapshot store, event sink, tasks |
| **Workflow validation** (workflow.rs) | - | add_step, validate (Kahn) | both executors, create_run |
| **Policies** (policy.rs) | - | RetryDelay::for_attempt, supports, supports_task | claiming, retries |
| **Evaluation gates** (evaluation.rs) | - | evaluate, evaluate_gates | finish_run, InMemoryExecutor |
| **Tasks and registry** (task.rs) | registered tasks | register, get, typed adapter | both executors |
| **Artifacts, cache keys** (artifact.rs) | metadata map | put, get, key building | tasks |
| **Manifest, control records, ids, errors** | immutable data | constructors | all |

What is hard here, and where (the full list with lines is `hazards` in
`PROJECT.json`):

* **Fencing.** A claim outlives its lease: its worker may renew, complete or fail
  the step after somebody recovered it and somebody else claimed it. Only the
  token separates the attempts, and the code closes "the last history entry".
* **Operations that do not look at the run's status.** complete_step,
  recover_expired and finish_run all act on runs that are already finished.
* **The shared attempt budget** of primary and fallback, computed in four places
  (claim, completion check, recovery, executor).
* **Two counters shared by all runs**, advanced by every operation, in one critical
  section each; late and repeated calls decide in which order.
* **Repeated submissions and repeated events**, deduplicated by an index and by
  looking through the log.
* **Awaits in the executor**: between scan and claim, claim and StepStarted, task
  and commit, commit and finish_run, anything may happen to the run.
* **Crashes and detached heartbeats**: who ends the attempt of a dead worker, and
  who ends the run.
* **Wall-clock deadlines**, which may move backwards; heartbeats that stop before
  their results are committed.
* **Rows that do not exist yet or no longer decode** in PostgreSQL: no lock covers
  the first kind, every call that reads the second kind fails.
* **A sink, a store or a registry that fails** between any two awaits of the
  in-process executor.
* **Snapshots put back** over later states, or into the store of a new process.
* **Widths and NaN** in pure code: saturating delays, in-degrees that wrap, metrics
  that compare with nothing.

Properties that make the components correct: leases are exclusive and belong to
the open attempt; outcomes of attempts are immutable; a run's status is justified
and final; events tell the history, ordered and once each; budgets are kept;
submission is idempotent; every attempt and every run ends.

## 2. Modules

| Module | What it is |
|---|---|
| `RunRecords` | The data both implementations of the contract share: step records, attempts, claims, events, and what each transition makes of one step record. |
| `StepLedger` | Abstract specification of what a repository promises about steps: an exclusive holder per step, growing tokens, one immutable outcome per token, final verdicts. |
| `RunRepository` | EXTENDS `RunRecords`. `InMemoryRunStore` as a `RunRepository`: one action per operation, plus the passing of time. Its properties and the refinement mapping to `StepLedger`. |
| `PostgresRepository` | EXTENDS `RunRecords`. `PostgresRunStore`: transactions on rows. |
| `RowContract` | EXTENDS `PostgresRepository`. The refinement mapping: the row of one arbitrary run as a `RunRepository` that holds this run alone. |
| `SnapshotRestore` | EXTENDS `RunRepository` with `RunStore::save`, `load` and fresh processes. |
| `DurableWorker` | EXTENDS `RunRepository` with processes running `DurableExecutor`: pollers (`work_once`) and drivers (`resume`), heartbeats, crashes, fairness, liveness. |
| `HeartbeatTiming` | One pass of `drive` in explicit time: leases, heartbeats, late calls, commits behind the slowest sibling. |
| `LocalExecutor` | `InMemoryExecutor::execute_with_metrics`; EXTENDS `RetryDelay` for the delays between its retries. |
| `RetryDelay` | `RetryDelay::for_attempt` at small integer widths, and the exact delay it stands for. |
| `WorkflowValidate` | `WorkflowSpec::validate`, Kahn's algorithm with its queue and wrapping in-degrees. |
| `EvaluationGates` | `evaluate`, `evaluate_gates` and the verdict drawn from the decisions. |
| `MC...` | Instances for TLC. |
| `RunRecordProofs`, `RunRepositoryProofs` | What transitions make of one record, and theorems about `RunRepository`, section 5. |
| `RepositoryClientProofs` | Theorems about `DurableWorker` and about `SnapshotRestore`, which both stand on those about `RunRepository`. |
| `PostgresProofs` | Theorems about `PostgresRepository` with `RowContract`. |
| `LocalExecutorProofs`, `HeartbeatTimingProofs`, `EvaluationGatesProofs`, `WorkflowValidateProofs` | Theorems about the modules they are named after; those about `LocalExecutor` contain the ones about `RetryDelay`. |

`RunRepository` composes with `DurableWorker` (its clients) and `SnapshotRestore`
(the other trait on the same state) through EXTENDS, so these modules change the
repository only through its own actions; it is instantiated by `RowContract` as the
specification that the row of an arbitrary run implements, and itself implements
`StepLedger`.

### RunRepository and the code

`status`, `steps`, `log`, `nextLeaseToken`, `nextEventSequence` and `idempotency`
are the fields of the repository state; `gatesPassed[r]` is the conjunction of the
run's recorded gate decisions and `request[r]` what create_run compares. A step
without a `StepRecord` has status "Absent". Two history variables record what
callers hold: `claims`, every `StepClaim` ever returned, and `answered`, every
successful answer to a keyed create_run. Callers are unconstrained: *any* claim
ever issued may be renewed or completed at any time, by as many callers as like,
so late, duplicated and reordered calls are all there.

| Action | Code |
|---|---|
| CreateRun, AnswerDuplicate | create_run 920-981 |
| ClaimStep | claim_next_step 1007-1133 (first claimable step in workflow order) |
| RenewStep, CompleteStep | renew_step 1135-1169, complete_step 1171-1246 with completion_matches_claim 563-636 |
| RecordEvent | record_event 1248-1272 with event_is_valid_for_record 722-870 |
| FinishRun, CancelRun | finish_run 1274-1329, cancel_run 1331-1374 |
| RecoverExpired | recover_expired 1376-1413 with recover_expired_step 640-700, all runs and steps in one action |
| LeaseTicksDown, BackoffElapses, ClockStepsBack | now_ms 488-495 |

A call the code refuses (LeaseLost, InvalidCompletion, InvalidEvent,
IdempotencyConflict, RunNotFound) changes nothing and is not an action.

*Abstractions.* A lease has a number of ticks left (0: expired), each lease ages on
its own because each worker chooses its lease_ms, and a backoff is pending or
elapsed. Outputs are model values; error texts, artifacts, metrics, the
`revision` counter and timestamps are left out, as are the task in StepStarted
events and the error in StepRetrying/StepFailed events (the code compares them
with the record, which the attempt number already determines). u64 counters do not
saturate. Payloads equal themselves; a manifest with a NaN threshold does not, so its
repeated submission is answered IdempotencyConflict and not as a duplicate. `Supports` stands for supports_task. `StepFallbackSelected` carries no
attempt number, as in the code. `ClaimClearsBackoff` is the one difference between
the two implementations in a record: a claim clears next_attempt_at_ms in
PostgreSQL and leaves the past deadline in memory.

### PostgresRepository and the code

A row is its payload; `scanOrder` holds the pairs of stored rows in the order of
(updated_at, run_id).

| Action | Code |
|---|---|
| AnswerExisting, BeginCreate, LookForRun, Insert, CommitCreate, SelectAgain, AbortCreate | create_run 267-359, statement by statement: the two SELECTs, the INSERT that waits for colliding inserts not yet committed, the event insert and COMMIT, the SELECT after a conflict |
| ClaimStep / ClaimNextStep | claim_next_step 399-518 |
| PollScans, PollClaims, PollSkips, PollFails | claim_next_runnable_step 367-397: the unlocked scan, then a transaction per candidate |
| RenewStep, CompleteStep, RecordEvent, FinishRun, CancelRun | renew_step 520-555, complete_step 557-618, record_event 620-640, finish_run 642-695, cancel_run 697-736 |
| RecoverExpired(B) | recover_expired 738-787; SKIP LOCKED makes the batch any set of expired rows up to the limit |
| LeaseTicksDown, BackoffElapses, LeaseRevives, BackoffReturns | database_now_ms 118-125; clock_timestamp() is wall time and may be set back |

*Abstractions.* Every other operation locks its row before it reads it, so it is one
step, and the revision guard of persist_locked cannot fail. updated_at is
set to now(), the start of the transaction; the model orders rows by commit, which is
the same while transactions on running rows do not overlap, and only decides which
candidates a scan sees first. A database error rolls a transaction back and is the same as no step,
so it is an action only where it interrupts create_run; an answer lost after COMMIT
is a caller that never uses what it was told, which is always possible here.
A metric that is not finite is written as JSON null and makes its row undecodable, and so
does the threshold of a gate, from the creation of the run on (`WriteNumbers`).
RunStore::save and load on this store are not modelled.

### SnapshotRestore and the code

Load is RunStore::load (any operation that returns the record counts), Save is
save 336-384 with the index (Reindexed, 351-360) and the two counters (Advanced,
363-381), ReplaceProcess an empty store in a new process. All of `RunRepository`'s actions go
on in between, and the claims granted before a restart remain in the hands of their
workers. `grants` is a history variable.

### DurableWorker and the code

`worker[w]` is where w's executor call stands and its batch of claims,
`heartbeats` the claims whose spawned renewal task is alive. A poller's call is
Begin (collect the running runs), Claim/SkipCandidate per candidate, StopClaiming,
Start (StepStarted, registry lookup, spawn), TaskReturns, Join, Commit or
CommitRefused, Committed, Finish; with nothing to claim it goes to Recover. A
driver claims up to MaxParallel steps of its run and with nothing to claim does
Finish and then Recover, in a loop. Each await is a step boundary. Crash ends
the call and its heartbeats; CallDies ends the call only: the spawned heartbeats
go on detached.

*Left out:* storage errors of the repository, `max_idle_time_ms` (None unless set)
and the registry checks at submission (Registry says what each process has).
The clock is not set back here, since a clock set back for ever is no time at all.

*Fairness.* A process that is up proceeds with its call and is restarted after a
crash ("The caller owns process supervision", durable.rs 176), it calls again
after each call (a driver resumes its run, a poller polls), a task returns or
times out, deadlines pass, and a live heartbeat keeps renewing. Nobody has to
submit or cancel. All of it is weak fairness.

### HeartbeatTiming and the code

Claim, ClaimNothing (the claiming loop of drive 238-249), Start and TaskReturns
(execute_claim 286-344), Renew (the spawned heartbeat 305-319), Commit (276-283),
Again (the next pass) and Tick, one unit for every deadline. A repository call takes
effect at most `MaxDelay` units after the executor is ready to make it.
`CallsAreFast`, the assumption that the calls of a pass and one renewal together take
less than a heartbeat interval, is what an operator has to provide; without it a
renewal may come too late and LeaseCoversExecution is false. The interval is
`(lease_ms / 3).max(1)` and a renewal is for three of them, as in the code.

### LocalExecutor, RetryDelay and the code

StartAttempt, GiveUp, TaskSucceeds and TaskFails are the loop of execute_step
(runtime.rs 260-400), whose events are buffered in `loop[s]`; NextRound, Join,
TakeResult, Emit, Save and Close are execute_with_metrics (84-182), and Fail is an
error of sink or store that leaves it. `queue` is the rest of the round, from the
first result that is not taken yet: Join ends the wait for a chunk, TakeResult begins
one result of it, the next one waits until its events are emitted. `RegistryIsStatic = FALSE` lets a task vanish from an
application's registry between its validation and its lookup. Outputs and the time tasks
take are left out, and one RetryDelay serves all steps of a run; `slept` records the
delays, each with the attempt it follows. `ForAttempt` is the code's arithmetic with u32, u64 and the exponent's
limit 20 as constants; `IsExactDelay` is the delay without widths.

*Fairness.* The caller awaits the future and every task returns or times out: weak
fairness of the call and of each step's loop. There is none for Fail.

### WorkflowValidate, EvaluationGates and the code

Refuse and Prepare are the part of validate (67-130) before its queue: the checks, the
maps and the first queue. Visit takes an id off the queue, Decrement is one round of the
for loop over its dependents, Panic the round whose subtraction panics in a build with
overflow checks (`checked` says which build it is), Return the answer. A mention, a step's
position and the position of an entry in its depends_on, stands for one entry of
`dependents`; `children` are those the for loop still has before it, in the order the map
was filled. `order` is a history variable, the ids taken off the queue. Init enumerates
every workflow within the bounds, as deserialization may produce it. EvaluateNext is one insert of evaluate_gates
(54-64), FinishRun the verdict of finish_run (store.rs 1298-1309) on it.

## 3. Runs

Expected to pass:

| Run | Instance | Checks |
|---|---|---|
| join | 1 run, 2 independent steps and their join, max_attempts 0, 2 with fallback, 1; gates | TypeOK, TokenIdentifiesAttempt, ClaimInputIsStable, BudgetIsShared, LeaseMatchesOpenAttempt, LogTellsHistory, RunStatusIsJustified, LedgerSpec |
| requests | 2 runs of a one-step workflow, 2 keys, 2 payloads | OneRunPerKey, EventsAreDeduplicable |
| drive | 1 driver, 1 poller that alone can run a fallback, 2 steps, 1 crash, 1 call that dies | WorkerTypeOK, OwnCompletionMatches, SuccessFollowsStart, FinishedRunTakesNoNewWork, RunsSettle |
| rows | 2 rows, the second mapped to the contract, 2 dependent steps, the second retried once, a fallback nobody can run, batches of 2 | TypeOK, RowKeepsTheContract, RunnableStepsAreFound |
| race | 2 clients, 2 run ids, 2 keys, 2 payloads, gates, rows that do not decode, from creation or later | OneRunPerKey |
| local | 4 steps, chunks of 2, fallbacks, gates, 48 retry delays | TypeOK, StoredTellsEmitted, StepsFollowDependencies, AlwaysProgress, VerdictIsJustified, BudgetIsShared, DelaysAreExact, BackoffNeverShortens, ExecuteReturns |
| renewals | 3 claims, lease 15, tasks up to 13, calls late by up to 1 | TypeOK, LeaseCoversExecution, RefusedOnlyBehindSlower |
| restore | 1 run with a retry, 1 key, 1 restart, 1 save | HistoriesRise, IndexNamesStoredRuns, TokensAreGrantedOnce |
| dags | all workflows of up to 3 steps and 2 dependencies, both builds | TypeOK, AcceptsDags, VisitsEachIdOnce, PanicsNeedDuplicates |
| gates | all lists of 3 gates and 2 metrics over 2 names, 2 numbers, NaN | TypeOK, VerdictFollowsGates |

Expected to be violated (section 4): finish_twice (RunFinishesOnce), stranded
(RunsFinish).

What the properties say, beyond their comments in the modules:

* *Fencing* (TokenIdentifiesAttempt, LeaseMatchesOpenAttempt, LedgerSpec): however late a
  claim is presented, it can only end the attempt it was issued for, and once.
* *Verdicts* (RunStatusIsJustified, FinishedRunTakesNoNewWork, VerdictIsJustified,
  VerdictFollowsGates): a status is never without its reasons, although the
  repository accepts completions and recoveries on finished runs, and a finished run
  gets no new work. The second is checked with executors (drive), where a poll
  collects the running runs at one await and claims at a later one.
* *History* (LogTellsHistory, EventsAreDeduplicable, SuccessFollowsStart,
  StoredTellsEmitted, StepsFollowDependencies, HistoriesRise): log, record and snapshot
  tell one story in one order.
* *Budget and delays* (BudgetIsShared of both executors, DelaysAreExact,
  BackoffNeverShortens).
* *Progress* (RunsSettle, RunnableStepsAreFound, ExecuteReturns, AlwaysProgress): work is
  found, attempts end, runs come to rest.
* *Refinement* (LedgerSpec, RowKeepsTheContract): the two implementations against
  what they promise.

*Bounds.* Attempts bound themselves (MaxAttempts, plus the fallback's extra one),
so claims, tokens and histories are finite. `MaxFinishEvents` bounds the
RunFinished events of a run, which finish_run may append for ever; 2 lets a status
flip once. `MaxCrashes`, `MaxDrops`, `MaxRestarts` and `MaxSaves` bound faults; 1
suffices for each hazard, since a second one starts from a state the first one may
also meet. `LeaseTicks` 1 or 2 gives a lease that can expire, be renewed, and be
revived by the clock. Two runs are enough for the shared counters, the shared index,
a batch of recoveries and a scan with something behind its front; two clients for
every order of two colliding inserts, since a third only waits. The widths 15 and 63,
with an exponent limit of 2, let a factor, a product and the cap each be the one that
decides. Three steps with two dependencies contain every graph with a cycle of
length up to three, a duplicate and a repetition.

`CHECK_DEADLOCK FALSE` stands where the modelled call ends (local: execute returned; dags;
gates) and where every run id of the instance is stored and finished (rows, race).
`race` uses the symmetry of clients and keys, and checks no liveness.

Each property of a passing run has a mutant: an operator beside the definition it
replaces (`CancelStepKeepsLease`, `HoldsLeaseByWorker`, ...) with a plausible bug,
under which TLC finds the property violated.

## 4. Known disagreements

Two between code and documentation have a run and a finding in `PROJECT.json`:

1. **A finished run finishes again** (store.rs 1298, run finish_twice). finish_run does
   not look whether the run is terminal: a cancelled run with a failed step becomes
   Failed, with a second RunFinished event that record_event and its test would
   refuse. RunStatusIsJustified holds nevertheless: whatever the status says is true
   of the steps.
2. **A poller strands a run** (durable.rs 203, run stranded). work_once reaches
   finish_run only behind its own complete_step. A run whose last attempt ends in
   recover_expired stays Running. Drivers do not have this problem (run drive).

Others show as a precondition or a disjunct of a property that passes; removing it
gives the counterexample:

| Where | What the code does | Where it shows |
|---|---|---|
| durable.rs 308 | The heartbeat of a call that dies while its process lives is detached and renews for ever. | `Leaked` in RunsSettle |
| durable.rs 276, 336 | A heartbeat stops with its own task, results are committed behind the slowest sibling: a short task's lease expires while it waits, and its result is refused as if another worker had the step. | RefusedOnlyBehindSlower instead of CommitsInTime |
| postgres.rs 380 | Runs that nothing updates keep the front of the scan; with RECOVERY_BATCH_SIZE of them a claimable step behind is never found. | `BatchSize` = number of runs in rows |
| postgres.rs 314, 655 | A threshold or metric that is not finite makes its row undecodable, and every poll ends at it. | `FiniteNumbers` = TRUE in rows |
| runtime.rs 358 | A permanent error with attempts left and no fallback is retried, without a StepRetrying event; the durable executor fails such a step at once. | "None" in AfterError |
| store.rs 363 | A fresh process that restores a snapshot older than a claim grants that claim's token again. | `g.process = process` in TokensAreGrantedOnce |
| store.rs 382 | A snapshot put back brings its lease back: the claim of that time holds the step again, also if its attempt had been ended in the state that was replaced. | the properties of restore speak of histories, tokens and the index, not of attempts that ended |
| workflow.rs 124 | A workflow that lists a step twice is answered DependencyCycle. | AcceptsDags looks at "Ok" only |
| evaluation.rs 62 | Of two gates on one metric only the last decides. | `OneGatePerMetric` in VerdictFollowsGates |
| artifact.rs 49 | Cache keys join id and version with "@", which both may contain. | not modelled |


## 5. Proofs

Every theorem holds for all values of the constants: every number of runs and
steps, every workflow, budget, worker set, lease length and rate of delay. The only
assumptions are the named ASSUMEs of the modules, which say what
validate_run_request and the types already guarantee, and for `HeartbeatTiming` how
long calls and tasks take.

### About RunRepository

The base is the inductive invariant `IInv == TypeOK /\ LeaseMatchesOpenAttempt`
(`RunRepositoryProofs`). The second conjunct needs the first: that no worker is NoWorker
is what makes a lease that matches a claim a real lease, hence its step Running. The
argument goes through one record at a time (`RunRecordProofs`): `CloseAttemptHistory`,
`EndAttemptFenced`, `StartAttemptFenced`, `CancelStepFenced` and `LeaseTimeChanged` say
what each transition makes of a well-formed record, `OneStepReplaced` lifts that to the
repository, and there is one lemma per action. `NthStepExists` shows, by a counting
argument on ranks, that the event recover_expired appends at each position names an
expired step.

On top of it, `NextChanges` states once what any step of the repository does to a
record: a grant starts an attempt on one record, and apart from that
every record keeps its attempt, ends it (with the reason that entitles the caller to
end it so) or is cancelled, while claims and tokens stand still. The later proofs
split on that instead of on the eleven actions.

| Theorem | Statement | Strengthening it needs |
|---|---|---|
| `TypeCorrect` | Spec => []TypeOK | - |
| `LeasesMatchOpenAttempts` | Spec => []LeaseMatchesOpenAttempt | TypeOK |
| `RunStatusesAreJustified` | Spec => []RunStatusIsJustified | IInv: complete_step and recover_expired are accepted on finished runs, and only because a leased step is Running can they not touch the step that gives the run its status |
| `FinishedRunsTakeNoNewWork` | Spec => FinishedRunTakesNoNewWork | IInv |
| `TokensIdentifyAttempts` | Spec => []TokenIdentifiesAttempt | TokenInv: no history holds a token that is not issued yet, every claim is in the history of its step |
| `BudgetsAreShared` | Spec => []BudgetIsShared | BudgetInv: a record accounts for the claims on it; when the budget is spent but a retry is due, the fallback was only just selected, by an attempt of the primary |
| `ClaimInputsAreStable` | Spec => []ClaimInputIsStable | InputInv: a succeeded step has an output |
| `SubmissionIsIdempotent` | Spec => []OneRunPerKey | the index names exactly the run whose request carries the key |
| `LogsAreDeduplicable` | Spec => []EventsAreDeduplicable | EventInv: what a logged end says of its step stays true (the attempt is over, or the fallback in use), and a run that was not created has an empty log |
| `LogsTellHistory` | Spec => []LogTellsHistory | HistoryInv: besides, a settled step has the status of its last attempt, so that a late record_event only repeats the history |
| `LeasesEndWithEvents` | Spec => LeaseEndsAreTold: a lease ends by cancel_run with no event of the step, or with exactly one new log entry that names step, outcome and attempt as record and history have them; recover_expired ends every expired lease so and tells of no other step | IInv, TokenInv, BudgetInv, EventInv |
| `ImplementsLedger` | Spec => LedgerSpec | IInv and TokenInv: a grant is the ledger's Grant, any other step resolves the items whose holder's attempt ended, or none |

`BudgetsAreShared` rests on `HolderHasLastAttempt`: the claim whose lease a step holds is
the claim of its last attempt, so completion_matches_claim, which looks at the
claim, and recovery, which looks at the record, compute with the same numbers.

The three theorems about logs need what each operation does to records *and* logs
together (`NextTells`): deadlines move and record_event may repeat something; an
attempt ends and exactly the event of its end is logged; a step is cancelled or
started and nothing is logged of it. `LogsGrow` is the part about sequence numbers;
`CountBefore` adds up the expired leases of the runs before a run, which is how
recover_expired numbers several events of several runs in one call. That a new end is in
no log yet is where fencing meets deduplication: the attempt is running
(`EntitledToEnd` for the fallback, which carries no attempt number), so no logged event
can be its end.

### About executors

The first half of `RepositoryClientProofs` needs nothing new about the repository: every action of an
executor is one of its actions or leaves it alone. Such a step carries the
repository's invariants (`RepositoryInv`), and `WorkerInv` says in addition that
whatever an executor holds, its repository issued.

| Theorem | Statement | Strengthening it needs |
|---|---|---|
| `WorkersUseTheContract` | WorkerSpec => Spec, so all of the above holds under executors, crashes and leaked heartbeats | `WorkerInv`: batches and heartbeats hold issued claims; a call that may still finish a run knows which |
| `LatePollsStartNothing` | WorkerSpec => FinishedRunTakesNoNewWork | `WorkersUseTheContract`, `FinishedRunsTakeNoNewWork` |
| `WorkerTypesCorrect` | WorkerSpec => []WorkerTypeOK | `WorkerInv` |
| `OwnCompletionsMatch` | WorkerSpec => []OwnCompletionMatches | `WorkerInv`: a result was built from its entry's claim, by the rules complete_step checks it with |
| `SuccessesFollowStarts` | WorkerSpec => []SuccessFollowsStart | `WorkerInv`: a task only runs once its StepStarted event is in the log; EventInv: no attempt succeeds twice |

### About snapshots

Claims outlive the process that granted them, so after a restart a claim may name a
token that its new repository grants to somebody else: of the invariants of `RunRepository`
only `IInv`, which says nothing about claims, holds under `SnapSpec`. `SnapInv` adds to
it that tokens rise along every history and numbers along every log, that none of the
logs' numbers is above the counter, that the index is exact, that a snapshot is as sound
as the record it was taken of, and that the tokens granted by the present process are
counted. `Advanced` raises the counters to the largest number a snapshot retains; that a
finite set has a largest number is proved from the well-foundedness of strict inclusion.

| Theorem | Statement |
|---|---|
| `IndexStaysExact` | SnapSpec => []IndexNamesStoredRuns |
| `HistoriesKeepRising` | SnapSpec => []HistoriesRise |
| `TokensAreFresh` | SnapSpec => TokensAreGrantedOnce |

### About PostgreSQL

The invariant of the table is `TableInv`: types; `RowsInv`, every stored row has
sound records; and `KeysInv`, which is what makes submission idempotent without a lock on
rows that do not exist: two inserts that are not committed collide neither with each other
nor with a stored row, no two stored rows share a key, and every answer names a stored
row with its key and payload.

| Theorem | Statement | Strengthening it needs |
|---|---|---|
| `TypeCorrect` | Spec => []TypeOK | RowsInv |
| `SubmissionIsIdempotent` | Spec => []OneRunPerKey | KeysInv |
| `RowImplementsContract` | Spec => RowKeepsTheContract | TableInv |
| `RowsKeepThePromises` | Spec => []RowPromises | the refinement |
| `FinishedRowsTakeNoNewWork` | Spec => Contract!FinishedRunTakesNoNewWork | the refinement |
| `RowsImplementLedger` | Spec => Contract!LedgerSpec | the refinement |

`RowImplementsContract` maps each transaction to a step of a repository with one run: on the
row itself to the operation of the same name (a batch recovery to the recovery of that run,
COMMIT of an insert to create_run, the answer to a repeated submission to
AnswerDuplicate), and any transaction on another row, any scan, and any statement without
effect to a stutter. The row is the constant `row`, any run of the table, so the theorem
speaks of all rows. `NextLeaseToken` and `LastSequence` play the counters: they are
functions of the row's own history and log, so a transaction on one row cannot move
another row's counters.

The last three carry the theorems about `RunRepository` over: `Proved` is
`RunRepositoryProofs` instantiated with the row, `ProvedAssumptions` discharges its assumptions for one run,
and `RowSpec` identifies its specification with the contract's. `RowPromises` are
LeaseMatchesOpenAttempt, TokenIdentifiesAttempt, ClaimInputIsStable, BudgetIsShared,
RunStatusIsJustified, EventsAreDeduplicable and LogTellsHistory of the row. Tokens and
sequence numbers are those of one row: rows do share them, and nothing in the code
compares those of two rows.

### About the in-process executor

`ExecInv` of `LocalExecutorProofs` has one part per piece of state. `LoopInv`, for each
step: the buffered events tell the locals of execute_step, an attempt beyond the budget
directly follows the selection of the fallback, and every delay is that of its attempt,
later ones of later attempts. `LogsInv`: the record's events are the sink's, and what is emitted *and what
is about to be* (`Emissions`, the sink and behind it the outbox) tells the records and
respects the dependencies; the sink alone does not, halfway through a result. `QueueInv`: what is
queued is ready and queued once, so a step's counts are zero when its result is taken.
`StatusInv`: what the run's status says while the call goes on.

| Theorem | Statement | Strengthening it needs |
|---|---|---|
| `TypeCorrect` | Spec => []TypeOK | QueueInv and LoopInv: a result is only taken of a loop that ended |
| `StoredRunIsTold` | Spec => []StoredTellsEmitted | LogsInv, and LoopInv for the record of a result |
| `DependenciesComeFirst` | Spec => []StepsFollowDependencies | LogsInv, QueueInv |
| `ProgressIsPossible` | Spec => []AlwaysProgress | StatusInv; of the steps that were not run, the least in an order that respects the dependencies is ready |
| `VerdictFollows` | Spec => []VerdictIsJustified | StatusInv, which uses the same argument when the run is closed |
| `BudgetHolds` | Spec => []BudgetIsShared | LoopInv: a selected fallback that was not attempted is the last event |
| `DelaysHold` | Spec => []DelaysAreExact | LoopInv, `DelayIsExact` |
| `BackoffHolds` | Spec => []BackoffNeverShortens | LoopInv: retries follow attempts in order; `DelaysGrow` |

The arithmetic is a fact about two recursive functions, the saturating power and
the exact one: `SaturatedFrom` relates them at every exponent, and `OneMoreFactor` is
one multiplication. Induction is done without the induction theorem of the library:
`UpTo` takes the least number outside a set, which exists because < is well-founded on the
naturals (`LeastExists`), and `RecursionExists` shows in the same way that a function
defined by recursion up to n exists. `DelayIsCapped` is why u64 never shows: the cap is
itself one of its values. Acyclicity is used as `AcyclicAssumption` states it, an order of the
steps that respects the dependencies; that validate accepts only such workflows is
`AcceptedWorkflowsAreSortable` below.

### About validation

Kahn's algorithm is simple on a dag of distinct steps. The values validate gets are more:
an id may be listed twice, so that its degree is that of its last step while the mentions
of all its steps are taken off, and the subtraction is on usize. `IInv` of
`WorkflowValidateProofs` holds for all of them. It counts, for each id, the
mentions that have been taken off it (`UsedInto`: of an id that left the queue, and behind
the for loop). `DegreesAreRight`: the in-degree is the degree less that count, or
once round; not twice, because the workflow has fewer mentions than usize has values
(`MentionsFacts`). `QueueIsRight`: an id has been queued exactly if its count has reached
its degree, and once, since a degree that has run past zero cannot come down to
zero again. `LoopIsRight` ties `visited`, the for loop and the answer to the order, and
`OrderIsSorted` says that, if no id is listed twice, each id came after its
dependencies: the mentions of a step are then as many as its degree (`DegreeCounts`), so
when the degree is used up all of them were (`DistinctDegrees`).

| Theorem | Statement | Argument |
|---|---|---|
| `AcceptsExactlyDags` | Spec => []AcceptsDags | accepted: every id was visited and none is listed twice (`AllVisited`), and of a cycle the first in the order would wait for a later one (`SortedHasNoCycle`); refused: each id that is left has a mention that was not used, by an id that is left (`LeftOverIsCyclic`) |
| `EachIdIsVisitedOnce` | Spec => []VisitsEachIdOnce | QueueIsRight |
| `PanicsAreJustified` | Spec => []PanicsNeedDuplicates | a mention that is not used keeps the degree of a step listed once above zero |
| `TypeCorrect` | Spec => []TypeOK | DegreesAreRight |
| `AcceptedWorkflowsAreSortable` | Spec => [](result = "Ok" => Sortable) | the position in the order; it is what LocalExecutor's `AcyclicAssumption` asks for |
| `CallsGoOn` | Spec => []GoesOn | the guards of Prepare and of the for loop can be met: an order of a finite set of ids exists (`InOrderExists`), and so does the first of the mentions that are left (`NextChildExists`) |

### About the other modules

* `HeartbeatTimingProofs`: `LeasesCoverExecution` and `OnlySlowSiblingsCost` hold for
  every lease, task length, batch size and delay; they need `CallsAreFast`, which enters
  through `CallsBound` and `SlackKept` (a lease lasts beyond the next beat by two
  intervals less what the calls of the pass take). `PassesCommitInTime` draws the
  consequence an operator wants: with one claim at a time, or with tasks that run
  shorter than `Margin`, no completion of a pass is refused for its lease.
* `EvaluationGatesProofs`: `VerdictCorrect`, for every list of gates and metrics.
  `FirstExists` gives the least index of a non-empty set of indices from the
  well-foundedness of < on the naturals.

### What is only model-checked

* Liveness (RunsSettle, RunnableStepsAreFound, ExecuteReturns, RunsFinish):
  the prover treats neither fairness nor ENABLED.

Every other property of a passing run is a theorem.

## 6. Not modelled

* *Tasks and registry* (task.rs), *manifests and control records* (manifest.rs,
  control.rs), *identifiers* and *error types*: constructors, conversions and look-ups
  without a state that changes under several callers. What the registry does to a run
  is in the executors' models: a lookup that fails, a task that vanishes.
* *Artifacts and cache keys* (artifact.rs): one map with put and get, and strings;
  nothing in the repository calls it. The ambiguity of the key is listed as a hazard.
* *RunStore::save and load of PostgresRunStore*: the upsert inserts a row, or replaces it
  only if the snapshot's revision is higher, and otherwise fails with "stale run revision
  rejected". The unconditional Save of `SnapshotRestore` is the in-memory store's only.
* *`max_idle_time_ms`* of a driver: it only returns earlier from a call that may return
  anyway. *Registry checks at submission*: they refuse runs before they exist.
* *Validation before the first event* of InMemoryExecutor::execute: it returns before
  any state; its last error, "could not make progress", is unreachable, which
  AlwaysProgress checks.
* *Database outages* beyond an aborted transaction, and *wrap-around* of the u64 counters.
* Error texts, tracing, metrics values, artifacts and timestamps other than deadlines.

## 7. Running

In this directory: `tlc -workers 2 -config <run>.cfg <Module>` with the module that
`PROJECT.json` names for the run, and `tlapm <Module>Proofs.tla` for the proofs. The
longest run, rows, visits 233 thousand states, with the temporal property, in about two
and a half minutes; the others take seconds to a minute. The proofs take about ten minutes
from nothing.
