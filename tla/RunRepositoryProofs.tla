------------------------ MODULE RunRepositoryProofs ------------------------
(***************************************************************************)
(* Theorems of RunRepository for every number of runs and steps, every     *)
(* workflow and every set of workers: types and leases, justified run      *)
(* statuses, idempotent submission, then what is true of attempts and      *)
(* claims - fencing tokens, the shared budget, the inputs of claims - the  *)
(* refinement of StepLedger, and last what the logs tell: they only grow,  *)
(* by events that no log holds yet, and every ended attempt adds the event *)
(* of its end.                                                             *)
(***************************************************************************)
EXTENDS RunRepository, RunRecordProofs

-----------------------------------------------------------------------------
(* How operations change the repository. *)

\* append_event keeps the log and the event counter well typed.
LEMMA AppendEventType ==
    ASSUME TypeOK, NEW r \in Runs, NEW e \in Event, AppendEvent(r, e)
    PROVE  log' \in [Runs -> Seq(EventEnvelope)] /\ nextEventSequence' \in Nat
<1> DEFINE envelope == [sequence |-> nextEventSequence', event |-> e]
<1>1. nextEventSequence' \in Nat \ {0}
  BY DEF TypeOK, AppendEvent
<1>2. envelope \in EventEnvelope
  BY <1>1 DEF EventEnvelope
<1>3. log' = [log EXCEPT ![r] = Append(log[r], envelope)] /\ log[r] \in Seq(EventEnvelope)
  BY DEF TypeOK, AppendEvent
<1> HIDE DEF envelope
<1>4. Append(log[r], envelope) \in Seq(EventEnvelope)
  BY <1>2, <1>3
<1> QED
  BY <1>1, <1>3, <1>4 DEF TypeOK

\* An operation that replaces one step record by a well-formed one keeps every
\* lease matched with its open attempt.
LEMMA OneStepReplaced ==
    ASSUME TypeOK, LeaseMatchesOpenAttempt, NEW r \in Runs, NEW s \in Steps,
           NEW new \in StepRecord, LeaseIsOpenAttempt(new),
           steps' = [steps EXCEPT ![r][s] = new]
    PROVE  steps' \in [Runs -> [Steps -> StepRecord]] /\ LeaseMatchesOpenAttempt'
<1>1. steps' \in [Runs -> [Steps -> StepRecord]]
  BY DEF TypeOK
<1>2. \A q \in Runs, t \in Steps : steps'[q][t] = new \/ steps'[q][t] = steps[q][t]
  BY DEF TypeOK
<1>3. ASSUME NEW q \in Runs, NEW t \in Steps PROVE LeaseIsOpenAttempt(steps'[q][t])
  <2>1. LeaseIsOpenAttempt(steps[q][t])
    BY DEF LeaseMatchesOpenAttempt
  <2> QED
    BY <1>2, <2>1
<1> QED
  BY <1>1, <1>3 DEF LeaseMatchesOpenAttempt

-----------------------------------------------------------------------------
(* The inductive invariant: types, and leases that match the open attempts.  *)
(* TypeOK alone is not what the later theorems need, and neither is          *)
(* LeaseMatchesOpenAttempt inductive without the types.                      *)

IInv == TypeOK /\ LeaseMatchesOpenAttempt

LEMMA InitIInv ==
    ASSUME Init PROVE IInv
<1>1. \A s \in Steps : NewStep(s) \in StepRecord /\ LeaseIsOpenAttempt(NewStep(s))
  BY NewStepSound
<1>2. steps \in [Runs -> [Steps -> StepRecord]] /\ LeaseMatchesOpenAttempt
  BY <1>1 DEF Init, LeaseMatchesOpenAttempt
<1>3. \A r \in Runs : request[r] \in [key : Keys \cup {NoKey}, payload : Payloads]
  BY PayloadsAssumption DEF Init
<1>4. /\ status \in [Runs -> RunStatuses] /\ log \in [Runs -> Seq(EventEnvelope)]
      /\ gatesPassed \in [Runs -> BOOLEAN]
      /\ request \in [Runs -> [key : Keys \cup {NoKey}, payload : Payloads]]
      /\ idempotency \in [Keys -> Runs \cup {NoRun}]
      /\ nextLeaseToken \in Nat /\ nextEventSequence \in Nat
      /\ claims \subseteq StepClaim
      /\ answered \subseteq [key : Keys, payload : Payloads, run : Runs]
  BY <1>3 DEF Init, RunStatuses
<1> QED
  BY <1>2, <1>4 DEF IInv, TypeOK

LEMMA AnswerDuplicateIInv ==
    ASSUME IInv, NEW key \in Keys, NEW p \in Payloads, AnswerDuplicate(key, p)
    PROVE  IInv'
<1>1. idempotency[key] \in Runs
  BY DEF IInv, TypeOK, AnswerDuplicate, Repeats
<1>2. answered' \subseteq [key : Keys, payload : Payloads, run : Runs]
  BY <1>1 DEF IInv, TypeOK, AnswerDuplicate
<1> QED
  BY <1>2 DEF IInv, TypeOK, AnswerDuplicate, LeaseMatchesOpenAttempt

LEMMA CreateRunIInv ==
    ASSUME IInv, NEW r \in Runs, NEW key \in Keys \cup {NoKey}, NEW p \in Payloads,
           CreateRun(r, key, p)
    PROVE  IInv'
<1>1. log' \in [Runs -> Seq(EventEnvelope)] /\ nextEventSequence' \in Nat
  <2>1. RunEvent("RunStarted", "Running") \in Event
    BY RunEventType DEF RunStatuses
  <2> QED
    BY <2>1, AppendEventType DEF IInv, CreateRun
<1>2. status' \in [Runs -> RunStatuses]
  BY DEF IInv, TypeOK, CreateRun, RunStatuses
<1>3. /\ request' \in [Runs -> [key : Keys \cup {NoKey}, payload : Payloads]]
      /\ idempotency' \in [Keys -> Runs \cup {NoRun}]
  BY DEF IInv, TypeOK, CreateRun
<1>4. answered' \subseteq [key : Keys, payload : Payloads, run : Runs]
  BY DEF IInv, TypeOK, CreateRun
<1> QED
  BY <1>1, <1>2, <1>3, <1>4 DEF IInv, TypeOK, CreateRun, LeaseMatchesOpenAttempt

\* A claim is available only without a running attempt, so starting one keeps
\* the attempt it starts the only open one.
LEMMA ClaimStepIInv ==
    ASSUME IInv, NEW r \in Runs, NEW s \in Steps, NEW w \in Workers, ClaimStep(r, s, w)
    PROVE  IInv'
<1> DEFINE rec == steps[r][s]
           new == StartAttempt(rec, w, nextLeaseToken')
           claim == [run |-> r, step |-> s, task |-> rec.task, worker |-> w,
                     token |-> nextLeaseToken', attempt |-> new.attempts,
                     fallbackUsed |-> rec.fallbackUsed,
                     input |-> [d \in Deps[s] |-> steps[r][d].output]]
<1>1. rec \in StepRecord /\ LeaseIsOpenAttempt(rec) /\ rec.status # "Running"
  BY DEF IInv, TypeOK, LeaseMatchesOpenAttempt, ClaimStep, NextClaimable, Claimable, Available
<1>2. nextLeaseToken' \in Nat \ {0}
  BY DEF IInv, TypeOK, ClaimStep
<1>3. new \in StepRecord /\ LeaseIsOpenAttempt(new) /\ new.attempts \in Nat \ {0}
  <2>1. rec.attempts \in Nat
    BY <1>1 DEF StepRecord
  <2> QED
    BY <1>1, <1>2, <2>1, StartAttemptFenced
<1>4. claim \in StepClaim
  <2>1. Deps[s] \in SUBSET Steps
    BY WorkflowAssumption
  <2>2. \A d \in Deps[s] : steps[r][d].output \in Outputs \cup {NoOutput}
    BY <2>1 DEF IInv, TypeOK, StepRecord
  <2>3. claim.input \in [Deps[s] -> Outputs \cup {NoOutput}]
    BY <2>2
  <2>4. claim.input \in UNION {[D -> Outputs \cup {NoOutput}] : D \in SUBSET Steps}
    BY <2>1, <2>3
  <2>5. rec.task \in Tasks /\ rec.fallbackUsed \in BOOLEAN
    BY <1>1 DEF StepRecord
  <2> HIDE DEF new
  <2> QED
    BY <1>2, <1>3, <2>4, <2>5 DEF StepClaim, ClaimOn
<1>5. steps' = [steps EXCEPT ![r][s] = new] /\ claims' = claims \cup {claim}
  BY DEF ClaimStep
<1> HIDE DEF new, claim
<1>6. steps' \in [Runs -> [Steps -> StepRecord]] /\ LeaseMatchesOpenAttempt'
  BY <1>3, <1>5, OneStepReplaced DEF IInv
<1> QED
  BY <1>2, <1>4, <1>5, <1>6 DEF IInv, TypeOK, ClaimStep

\* A caller that holds the lease of a step holds a real lease: no worker is
\* the absent one.
LEMMA HolderIsRunning ==
    ASSUME IInv, NEW c \in claims, HoldsLease(c)
    PROVE  /\ c.run \in Runs /\ c.step \in Steps
           /\ steps[c.run][c.step] \in StepRecord
           /\ LeaseIsOpenAttempt(steps[c.run][c.step])
           /\ steps[c.run][c.step].lease # NoLease
           /\ steps[c.run][c.step].status = "Running"
<1>1. c \in StepClaim
  BY DEF IInv, TypeOK
<1>2. c.run \in Runs /\ c.step \in Steps /\ c.worker \in Workers
  BY <1>1 DEF StepClaim, ClaimOn
<1>3. steps[c.run][c.step] \in StepRecord /\ LeaseIsOpenAttempt(steps[c.run][c.step])
  BY <1>2 DEF IInv, TypeOK, LeaseMatchesOpenAttempt
<1>4. steps[c.run][c.step].lease # NoLease
  BY <1>2, NullsAssumption DEF HoldsLease, NoLease
<1> QED
  BY <1>2, <1>3, <1>4 DEF LeaseIsOpenAttempt

LEMMA RenewStepIInv ==
    ASSUME IInv, NEW c \in claims, RenewStep(c)
    PROVE  IInv'
<1> DEFINE rec == steps[c.run][c.step]
           new == [rec EXCEPT !.lease.left = LeaseTicks]
<1>1. c.run \in Runs /\ c.step \in Steps /\ rec \in StepRecord
      /\ LeaseIsOpenAttempt(rec) /\ rec.lease # NoLease
  BY HolderIsRunning DEF RenewStep
<1>2. LeaseTicks \in 0..LeaseTicks
  BY CountsAssumption
<1>3. new \in StepRecord /\ LeaseIsOpenAttempt(new)
  BY <1>1, <1>2, LeaseTimeChanged
<1>4. steps' = [steps EXCEPT ![c.run][c.step] = new]
  BY DEF RenewStep
<1> HIDE DEF new
<1>5. steps' \in [Runs -> [Steps -> StepRecord]] /\ LeaseMatchesOpenAttempt'
  BY <1>1, <1>3, <1>4, OneStepReplaced DEF IInv
<1> QED
  BY <1>5 DEF IInv, TypeOK, RenewStep

\* complete_step closes the leased attempt, whatever became of the run.
LEMMA CompleteStepIInv ==
    ASSUME IInv, NEW c \in claims, NEW k \in StepCompletion, CompleteStep(c, k)
    PROVE  IInv'
<1> DEFINE rec == steps[c.run][c.step]
           new == EndAttempt(c.step, rec, k.kind, k.output, k.backoff)
<1>1. c.run \in Runs /\ c.step \in Steps /\ rec \in StepRecord /\ LeaseIsOpenAttempt(rec)
  BY HolderIsRunning DEF CompleteStep
<1>2. k.kind \in CompletionKinds /\ k.output \in Outputs \cup {NoOutput} /\ k.backoff \in Backoff
  BY DEF StepCompletion, CompletionKinds, StepEventKinds, Announces, Backoff
<1>3. k.kind = "StepFallbackSelected" => Fallback[c.step] # NoTask
  BY DEF CompleteStep, CompletionMatchesClaim
<1>4. new \in StepRecord /\ LeaseIsOpenAttempt(new)
  BY <1>1, <1>2, <1>3, EndAttemptType, EndAttemptFenced
<1>5. steps' = [steps EXCEPT ![c.run][c.step] = new]
  BY DEF CompleteStep
<1> HIDE DEF new
<1>6. steps' \in [Runs -> [Steps -> StepRecord]] /\ LeaseMatchesOpenAttempt'
  BY <1>1, <1>4, <1>5, OneStepReplaced DEF IInv
<1>7. log' \in [Runs -> Seq(EventEnvelope)] /\ nextEventSequence' \in Nat
  <2>1. c.attempt \in Nat /\ k.kind \in StepEventKinds
    BY <1>2 DEF IInv, TypeOK, StepClaim, ClaimOn, CompletionKinds
  <2>2. StepEvent(k.kind, c.step, c.attempt) \in Event
    BY <1>1, <2>1, StepEventType
  <2> QED
    BY <1>1, <2>2, AppendEventType DEF IInv, CompleteStep
<1> QED
  BY <1>6, <1>7 DEF IInv, TypeOK, CompleteStep

LEMMA RecordEventIInv ==
    ASSUME IInv, NEW r \in Runs, NEW e \in StepEventsOf(r) \cup RunEventsOf, RecordEvent(r, e)
    PROVE  IInv'
<1>1. e \in Event
  <2>1. CASE e \in StepEventsOf(r)
    <3>1. PICK kind \in StepEventKinds, s \in Steps : e = StepEvent(kind, s, steps[r][s].attempts)
      BY <2>1 DEF StepEventsOf
    <3>2. steps[r][s].attempts \in Nat
      BY DEF IInv, TypeOK, StepRecord
    <3> QED
      BY <3>1, <3>2, StepEventType
  <2>2. CASE e \in RunEventsOf
    BY <2>2, RunEventType DEF RunEventsOf, RunStatuses, Terminal
  <2> QED
    BY <2>1, <2>2
<1>2. log' \in [Runs -> Seq(EventEnvelope)] /\ nextEventSequence' \in Nat
  BY <1>1, AppendEventType DEF IInv, RecordEvent
<1> QED
  BY <1>2 DEF IInv, TypeOK, RecordEvent, LeaseMatchesOpenAttempt

LEMMA FinishRunIInv ==
    ASSUME IInv, NEW r \in Runs, NEW pass \in BOOLEAN, FinishRun(r, pass)
    PROVE  IInv'
<1>1. RunVerdict(r, pass) \in RunStatuses
  BY DEF IInv, TypeOK, RunVerdict, RunStatuses, Terminal
<1>2. log' \in [Runs -> Seq(EventEnvelope)] /\ nextEventSequence' \in Nat
  <2>1. CASE UNCHANGED <<log, nextEventSequence>>
    BY <2>1 DEF IInv, TypeOK
  <2>2. CASE AppendEvent(r, RunEvent("RunFinished", RunVerdict(r, pass)))
    BY <1>1, <2>2, RunEventType, AppendEventType DEF IInv
  <2> QED
    BY <2>1, <2>2 DEF FinishRun
<1>3. status' \in [Runs -> RunStatuses] /\ gatesPassed' \in [Runs -> BOOLEAN]
  BY <1>1 DEF IInv, TypeOK, FinishRun
<1> QED
  BY <1>2, <1>3 DEF IInv, TypeOK, FinishRun, LeaseMatchesOpenAttempt

\* cancel_run closes every open attempt of the run and drops its leases.
LEMMA CancelRunIInv ==
    ASSUME IInv, NEW r \in Runs, CancelRun(r)
    PROVE  IInv'
<1>1. \A s \in Steps : CancelStep(steps[r][s]) \in StepRecord
                       /\ LeaseIsOpenAttempt(CancelStep(steps[r][s]))
  BY CancelStepFenced DEF IInv, TypeOK, LeaseMatchesOpenAttempt
<1>2. steps' = [steps EXCEPT ![r] = [s \in Steps |-> CancelStep(steps[r][s])]]
  BY DEF CancelRun
<1>3. steps' \in [Runs -> [Steps -> StepRecord]] /\ LeaseMatchesOpenAttempt'
  <2>1. steps' \in [Runs -> [Steps -> StepRecord]]
    BY <1>1, <1>2 DEF IInv, TypeOK
  <2>2. ASSUME NEW q \in Runs, NEW s \in Steps PROVE LeaseIsOpenAttempt(steps'[q][s])
    <3>1. steps'[q][s] = IF q = r THEN CancelStep(steps[r][s]) ELSE steps[q][s]
      BY <1>2 DEF IInv, TypeOK
    <3>2. LeaseIsOpenAttempt(steps[q][s])
      BY DEF IInv, LeaseMatchesOpenAttempt
    <3> QED
      BY <1>1, <3>1, <3>2
  <2> QED
    BY <2>1, <2>2 DEF LeaseMatchesOpenAttempt
<1>4. log' \in [Runs -> Seq(EventEnvelope)] /\ nextEventSequence' \in Nat
  <2>1. RunEvent("RunFinished", "Cancelled") \in Event
    BY RunEventType DEF RunStatuses, Terminal
  <2> QED
    BY <2>1, AppendEventType DEF IInv, CancelRun
<1>5. status' \in [Runs -> RunStatuses]
  BY DEF IInv, TypeOK, CancelRun, RunStatuses, Terminal
<1> QED
  BY <1>3, <1>4, <1>5 DEF IInv, TypeOK, CancelRun

\* What recovery makes of one expired step.
LEMMA RecoveredStep ==
    ASSUME IInv, NEW r \in Runs, NEW s \in Steps, s \in Expired(r)
    PROVE  LET rec == steps[r][s]
               new == EndAttempt(s, rec, RecoveryKind(s, rec), rec.output, "None")
           IN  /\ rec.status = "Running"
               /\ RecoveryKind(s, rec) \in CompletionKinds
               /\ new \in StepRecord /\ LeaseIsOpenAttempt(new)
               /\ new.attempts = rec.attempts
<1> DEFINE rec  == steps[r][s]
           kind == RecoveryKind(s, rec)
<1>1. rec \in StepRecord /\ LeaseIsOpenAttempt(rec) /\ rec.lease # NoLease
  BY DEF IInv, TypeOK, LeaseMatchesOpenAttempt, Expired
<1>2. kind \in CompletionKinds /\ (kind = "StepFallbackSelected" => Fallback[s] # NoTask)
  BY DEF RecoveryKind, CompletionKinds, StepEventKinds, Announces
<1>3. rec.status = "Running" /\ rec.output \in Outputs \cup {NoOutput} /\ "None" \in Backoff
  BY <1>1 DEF LeaseIsOpenAttempt, StepRecord, Backoff
<1> HIDE DEF kind
<1>4. LET new == EndAttempt(s, rec, kind, rec.output, "None")
      IN  new \in StepRecord /\ LeaseIsOpenAttempt(new) /\ new.attempts = rec.attempts
  BY <1>1, <1>2, <1>3, EndAttemptType, EndAttemptFenced
<1> QED
  BY <1>2, <1>3, <1>4 DEF kind

\* recover_expired ends every expired attempt of every run in one transition
\* and appends one event for each, in run and workflow order.
LEMMA RecoverExpiredIInv ==
    ASSUME IInv, RecoverExpired
    PROVE  IInv'
<1> DEFINE before(r) == Cardinality({e \in Runs \X Steps : e[1] < r /\ e[2] \in Expired(e[1])})
           kind(r, s) == RecoveryKind(s, steps[r][s])
           envelope(r, i) ==
               LET s == NthStep(Expired(r), i)
               IN  [sequence |-> nextEventSequence + before(r) + i,
                    event |-> StepEvent(kind(r, s), s, steps[r][s].attempts)]
           new(r, s) == IF s \in Expired(r)
                        THEN EndAttempt(s, steps[r][s], kind(r, s), steps[r][s].output, "None")
                        ELSE steps[r][s]
           appended(r) == [i \in 1..Cardinality(Expired(r)) |-> envelope(r, i)]
<1>1. \A r \in Runs, s \in Steps : new(r, s) \in StepRecord /\ LeaseIsOpenAttempt(new(r, s))
  <2> SUFFICES ASSUME NEW r \in Runs, NEW s \in Steps
               PROVE  new(r, s) \in StepRecord /\ LeaseIsOpenAttempt(new(r, s))
    OBVIOUS
  <2>1. CASE s \in Expired(r)
    BY <2>1, RecoveredStep
  <2>2. CASE s \notin Expired(r)
    BY <2>2 DEF IInv, TypeOK, LeaseMatchesOpenAttempt
  <2> QED
    BY <2>1, <2>2
<1>2. steps' = [r \in Runs |-> [s \in Steps |-> new(r, s)]]
  BY DEF RecoverExpired
<1>3. steps' \in [Runs -> [Steps -> StepRecord]] /\ LeaseMatchesOpenAttempt'
  <2> HIDE DEF new
  <2> QED
    BY <1>1, <1>2 DEF LeaseMatchesOpenAttempt
<1>4. IsFiniteSet(Runs) /\ IsFiniteSet(Steps)
  BY CountsAssumption, RunsAssumption, FS_Interval DEF Runs, Steps
<1>5. IsFiniteSet(Runs \X Steps)
  BY <1>4, FS_Product
<1>6. \A r \in Runs : before(r) \in Nat /\ Cardinality(Expired(r)) \in Nat
  <2> SUFFICES ASSUME NEW r \in Runs
               PROVE  before(r) \in Nat /\ Cardinality(Expired(r)) \in Nat
    OBVIOUS
  <2>1. {e \in Runs \X Steps : e[1] < r /\ e[2] \in Expired(e[1])} \in SUBSET (Runs \X Steps)
        /\ Expired(r) \in SUBSET Steps
    BY DEF Expired
  <2> QED
    BY <1>4, <1>5, <2>1, FS_Subset, FS_CardinalityType
<1>7. before(NumRuns + 1) \in Nat
  <2>1. {e \in Runs \X Steps : e[1] < NumRuns + 1 /\ e[2] \in Expired(e[1])}
            \in SUBSET (Runs \X Steps)
    OBVIOUS
  <2> QED
    BY <1>5, <2>1, FS_Subset, FS_CardinalityType
<1>8. ASSUME NEW r \in Runs PROVE appended(r) \in Seq(EventEnvelope)
  <2>1. ASSUME NEW i \in 1..Cardinality(Expired(r)) PROVE envelope(r, i) \in EventEnvelope
    <3> DEFINE s == NthStep(Expired(r), i)
    <3>1. s \in Expired(r) /\ s \in Steps
      BY NthStepExists DEF Expired
    <3> HIDE DEF s
    <3>2. kind(r, s) \in StepEventKinds
      BY <3>1, RecoveredStep DEF CompletionKinds
    <3>3. steps[r][s].attempts \in Nat
      BY <3>1 DEF IInv, TypeOK, StepRecord
    <3> HIDE DEF kind
    <3>4. StepEvent(kind(r, s), s, steps[r][s].attempts) \in Event
      BY <3>1, <3>2, <3>3, StepEventType
    <3> HIDE DEF before
    <3>5. nextEventSequence + before(r) + i \in Nat \ {0}
      BY <1>6 DEF IInv, TypeOK
    <3> QED
      BY <3>4, <3>5 DEF EventEnvelope, s
  <2> DEFINE m == Cardinality(Expired(r))
  <2>2. m \in Nat
    BY <1>6
  <2> HIDE DEF envelope, m
  <2>3. appended(r) \in [1..m -> EventEnvelope]
    BY <2>1 DEF m
  <2> HIDE DEF appended
  <2> QED
    BY <2>2, <2>3, FunctionIsSeq
<1>9. log' = [r \in Runs |-> log[r] \o appended(r)]
  BY DEF RecoverExpired
<1>10. nextEventSequence' = nextEventSequence + before(NumRuns + 1)
  BY DEF RecoverExpired
<1> HIDE DEF appended, before
<1>11. log' \in [Runs -> Seq(EventEnvelope)]
  BY <1>8, <1>9 DEF IInv, TypeOK
<1>12. nextEventSequence' \in Nat
  BY <1>7, <1>10 DEF IInv, TypeOK
<1> QED
  BY <1>3, <1>11, <1>12 DEF IInv, TypeOK, RecoverExpired

\* The clock moves leases and backoffs, never attempts.
LEMMA TimeStep ==
    ASSUME IInv, NEW r \in Runs, NEW s \in Steps,
           LeaseTicksDown(r, s) \/ BackoffElapses(r, s) \/ ClockStepsBack(r, s)
    PROVE  \E new \in StepRecord :
               /\ LeaseIsOpenAttempt(new)
               /\ new.status = steps[r][s].status /\ new.attempts = steps[r][s].attempts
               /\ steps' = [steps EXCEPT ![r][s] = new]
<1> DEFINE rec == steps[r][s]
           tick(n) == [rec EXCEPT !.lease.left = n]
           pause(b) == [rec EXCEPT !.backoff = b]
<1>1. rec \in StepRecord /\ LeaseIsOpenAttempt(rec)
  BY DEF IInv, TypeOK, LeaseMatchesOpenAttempt
<1>2. rec.lease # NoLease => rec.lease.left \in 0..LeaseTicks
  BY <1>1 DEF StepRecord, Lease
<1>3. CASE LeaseTicksDown(r, s)
  <2>1. rec.lease # NoLease /\ rec.lease.left - 1 \in 0..LeaseTicks
    BY <1>2, <1>3, CountsAssumption DEF LeaseTicksDown
  <2>2. steps' = [steps EXCEPT ![r][s] = tick(rec.lease.left - 1)]
    BY <1>3 DEF LeaseTicksDown
  <2> QED
    BY <1>1, <2>1, <2>2, LeaseTimeChanged
<1>4. CASE BackoffElapses(r, s)
  <2>1. steps' = [steps EXCEPT ![r][s] = pause("Elapsed")] /\ "Elapsed" \in Backoff
    BY <1>4 DEF BackoffElapses, Backoff
  <2> QED
    BY <1>1, <2>1, BackoffChanged
<1>5. CASE rec.lease # NoLease /\ rec.lease.left < LeaseTicks
           /\ steps' = [steps EXCEPT ![r][s].lease.left = @ + 1]
  <2>1. rec.lease.left + 1 \in 0..LeaseTicks
    BY <1>2, <1>5, CountsAssumption
  <2>2. steps' = [steps EXCEPT ![r][s] = tick(rec.lease.left + 1)]
    BY <1>5
  <2> QED
    BY <1>1, <1>5, <2>1, <2>2, LeaseTimeChanged
<1>6. CASE steps' = [steps EXCEPT ![r][s].backoff = "Pending"]
  <2>1. steps' = [steps EXCEPT ![r][s] = pause("Pending")] /\ "Pending" \in Backoff
    BY <1>6 DEF Backoff
  <2> QED
    BY <1>1, <2>1, BackoffChanged
<1> QED
  BY <1>3, <1>4, <1>5, <1>6 DEF ClockStepsBack

LEMMA TimeIInv ==
    ASSUME IInv, NEW r \in Runs, NEW s \in Steps,
           LeaseTicksDown(r, s) \/ BackoffElapses(r, s) \/ ClockStepsBack(r, s)
    PROVE  IInv'
<1>1. steps' \in [Runs -> [Steps -> StepRecord]] /\ LeaseMatchesOpenAttempt'
  BY TimeStep, OneStepReplaced DEF IInv
<1>2. UNCHANGED <<status, log, gatesPassed, request, idempotency,
                  nextLeaseToken, nextEventSequence, claims, answered>>
  BY DEF LeaseTicksDown, BackoffElapses, ClockStepsBack
<1> QED
  BY <1>1, <1>2 DEF IInv, TypeOK

\* Every operation of the repository, and time, preserves the invariant.
LEMMA NextIInv ==
    ASSUME IInv, [Next]_vars PROVE IInv'
<1>1. CASE \E key \in Keys, p \in Payloads : AnswerDuplicate(key, p)
  BY <1>1, AnswerDuplicateIInv
<1>2. CASE \E r \in Runs, key \in Keys \cup {NoKey}, p \in Payloads : CreateRun(r, key, p)
  BY <1>2, CreateRunIInv
<1>3. CASE \E r \in Runs, s \in Steps, w \in Workers : ClaimStep(r, s, w)
  BY <1>3, ClaimStepIInv
<1>4. CASE \E c \in claims : RenewStep(c)
  BY <1>4, RenewStepIInv
<1>5. CASE \E c \in claims, k \in StepCompletion : CompleteStep(c, k)
  BY <1>5, CompleteStepIInv
<1>6. CASE \E r \in Runs : \E e \in StepEventsOf(r) \cup RunEventsOf : RecordEvent(r, e)
  BY <1>6, RecordEventIInv
<1>7. CASE \E r \in Runs, pass \in BOOLEAN : FinishRun(r, pass)
  BY <1>7, FinishRunIInv
<1>8. CASE \E r \in Runs : CancelRun(r)
  BY <1>8, CancelRunIInv
<1>9. CASE RecoverExpired
  BY <1>9, RecoverExpiredIInv
<1>10. CASE \E r \in Runs, s \in Steps :
               LeaseTicksDown(r, s) \/ BackoffElapses(r, s) \/ ClockStepsBack(r, s)
  BY <1>10, TimeIInv
<1>11. CASE UNCHANGED vars
  BY <1>11 DEF IInv, TypeOK, LeaseMatchesOpenAttempt, vars
<1> QED
  BY <1>1, <1>2, <1>3, <1>4, <1>5, <1>6, <1>7, <1>8, <1>9, <1>10, <1>11 DEF Next

\* Types and matching leases hold together in every reachable state.
THEOREM InductiveInvariant == Spec => []IInv
<1>1. Init => IInv
  BY InitIInv
<1>2. IInv /\ [Next]_vars => IInv'
  BY NextIInv
<1> QED
  BY <1>1, <1>2, PTL DEF Spec

\* The store's variables keep their types under every interleaving of the
\* repository's operations and of time.
THEOREM TypeCorrect == Spec => []TypeOK
<1>1. IInv => TypeOK
  BY DEF IInv
<1> QED
  BY <1>1, InductiveInvariant, PTL

\* complete_step, recover_expired_step and cancel_run write the outcome of an
\* attempt into the last entry of the history: it always is the leased one.
THEOREM LeasesMatchOpenAttempts == Spec => []LeaseMatchesOpenAttempt
<1>1. IInv => LeaseMatchesOpenAttempt
  BY DEF IInv
<1> QED
  BY <1>1, InductiveInvariant, PTL

-----------------------------------------------------------------------------
(* The status of a run is justified by its steps.                           *)

\* What changes in the steps of a run that is no longer Running can only be
\* an attempt that was still running, so no finished run loses its reasons.
LEMMA JustifiedWhileAttemptsEnd ==
    ASSUME RunStatusIsJustified, status' = status, gatesPassed' = gatesPassed,
           \A r \in Runs, s \in Steps :
               \/ steps'[r][s].status = steps[r][s].status
               \/ status[r] = "Running"
               \/ steps[r][s].status = "Running"
    PROVE  RunStatusIsJustified'
<1> SUFFICES ASSUME NEW r \in Runs
             PROVE  LET having(st) == {s \in Steps : steps'[r][s].status = st}
                    IN  /\ status[r] = "Succeeded" => having("Succeeded") = Steps /\ gatesPassed[r]
                        /\ status[r] = "Failed" =>
                               having("Failed") # {} \/ (having("Succeeded") = Steps /\ ~gatesPassed[r])
                        /\ status[r] = "Cancelled" => having("Running") = {} /\ having("Retrying") = {}
  BY DEF RunStatusIsJustified
<1> DEFINE had(st) == {s \in Steps : steps[r][s].status = st}
<1>1. /\ status[r] = "Succeeded" => had("Succeeded") = Steps /\ gatesPassed[r]
      /\ status[r] = "Failed" =>
             had("Failed") # {} \/ (had("Succeeded") = Steps /\ ~gatesPassed[r])
      /\ status[r] = "Cancelled" => had("Running") = {} /\ had("Retrying") = {}
  BY DEF RunStatusIsJustified
<1>2. ASSUME status[r] # "Running", NEW s \in Steps, steps[r][s].status # "Running"
      PROVE  steps'[r][s].status = steps[r][s].status
  BY <1>2
<1>3. CASE status[r] = "Succeeded" \/ (status[r] = "Failed" /\ had("Succeeded") = Steps)
  <2>1. \A s \in Steps : steps[r][s].status = "Succeeded"
    BY <1>1, <1>3
  <2> QED
    BY <1>1, <1>2, <1>3, <2>1
<1>4. CASE status[r] = "Failed" /\ had("Failed") # {}
  <2>1. PICK s \in Steps : steps[r][s].status = "Failed"
    BY <1>4
  <2>2. steps'[r][s].status = "Failed"
    BY <1>2, <1>4, <2>1
  <2> QED
    BY <1>4, <2>2
<1>5. CASE status[r] = "Cancelled"
  <2>1. \A s \in Steps : steps[r][s].status # "Running" /\ steps[r][s].status # "Retrying"
    BY <1>1, <1>5
  <2> QED
    BY <1>2, <1>5, <2>1
<1>6. CASE status[r] \notin {"Succeeded", "Failed", "Cancelled"}
  BY <1>6
<1> QED
  BY <1>1, <1>3, <1>4, <1>5, <1>6

\* finish_run derives the status from the records it is stored with.
LEMMA FinishRunJustified ==
    ASSUME IInv, RunStatusIsJustified, NEW r \in Runs, NEW pass \in BOOLEAN,
           FinishRun(r, pass)
    PROVE  RunStatusIsJustified'
<1> DEFINE having(q, st) == {s \in Steps : steps[q][s].status = st}
           Justified(q, st, gates) ==
               /\ st = "Succeeded" => having(q, "Succeeded") = Steps /\ gates
               /\ st = "Failed" =>
                      having(q, "Failed") # {} \/ (having(q, "Succeeded") = Steps /\ ~gates)
               /\ st = "Cancelled" => having(q, "Running") = {} /\ having(q, "Retrying") = {}
<1>1. \A q \in Runs : Justified(q, status[q], gatesPassed[q])
  BY DEF RunStatusIsJustified
<1>2. /\ status' = [status EXCEPT ![r] = RunVerdict(r, pass)]
      /\ gatesPassed' = [gatesPassed EXCEPT ![r] = pass]
      /\ steps' = steps
      /\ status \in [Runs -> RunStatuses] /\ gatesPassed \in [Runs -> BOOLEAN]
  BY DEF FinishRun, IInv, TypeOK
<1>3. Justified(r, RunVerdict(r, pass), pass)
  <2>1. CASE \E s \in Steps : steps[r][s].status = "Failed"
    BY <2>1 DEF RunVerdict
  <2>2. CASE ~(\E s \in Steps : steps[r][s].status = "Failed")
             /\ \A s \in Steps : steps[r][s].status = "Succeeded"
    <3>1. having(r, "Succeeded") = Steps
      BY <2>2
    <3>2. RunVerdict(r, pass) = IF pass THEN "Succeeded" ELSE "Failed"
      BY <2>2 DEF RunVerdict
    <3> QED
      BY <3>1, <3>2
  <2>3. CASE ~(\E s \in Steps : steps[r][s].status = "Failed")
             /\ ~(\A s \in Steps : steps[r][s].status = "Succeeded")
    <3>1. RunVerdict(r, pass) = status[r]
      BY <2>3 DEF RunVerdict
    <3>2. having(r, "Failed") = {} /\ having(r, "Succeeded") # Steps
      BY <2>3
    <3>3. status[r] # "Succeeded" /\ status[r] # "Failed"
      BY <1>1, <3>2
    <3> QED
      BY <1>1, <3>1, <3>3
  <2> QED
    BY <2>1, <2>2, <2>3
<1>4. \A q \in Runs : Justified(q, status'[q], gatesPassed'[q])
  <2> SUFFICES ASSUME NEW q \in Runs PROVE Justified(q, status'[q], gatesPassed'[q])
    OBVIOUS
  <2> HIDE DEF Justified
  <2>1. CASE q = r
    BY <1>2, <1>3, <2>1
  <2>2. CASE q # r
    BY <1>1, <1>2, <2>2
  <2> QED
    BY <2>1, <2>2
<1> QED
  BY <1>2, <1>4 DEF RunStatusIsJustified

\* cancel_run leaves no step of the run leased or waiting for a retry.
LEMMA CancelRunJustified ==
    ASSUME IInv, RunStatusIsJustified, NEW r \in Runs, CancelRun(r)
    PROVE  RunStatusIsJustified'
<1> DEFINE Justified(recs, st, gates) ==
               LET having(v) == {s \in Steps : recs[s].status = v}
               IN  /\ st = "Succeeded" => having("Succeeded") = Steps /\ gates
                   /\ st = "Failed" =>
                          having("Failed") # {} \/ (having("Succeeded") = Steps /\ ~gates)
                   /\ st = "Cancelled" => having("Running") = {} /\ having("Retrying") = {}
<1>1. \A q \in Runs : Justified(steps[q], status[q], gatesPassed[q])
  BY DEF RunStatusIsJustified
<1>2. /\ status' = [status EXCEPT ![r] = "Cancelled"]
      /\ steps' = [steps EXCEPT ![r] = [s \in Steps |-> CancelStep(steps[r][s])]]
      /\ gatesPassed' = gatesPassed
      /\ status \in [Runs -> RunStatuses] /\ steps \in [Runs -> [Steps -> StepRecord]]
  BY DEF CancelRun, IInv, TypeOK
<1>3. \A s \in Steps : CancelStep(steps[r][s]).status \notin {"Running", "Retrying"}
  <2> SUFFICES ASSUME NEW s \in Steps
               PROVE  CancelStep(steps[r][s]).status \notin {"Running", "Retrying"}
    OBVIOUS
  <2> DEFINE rec == steps[r][s]
             new == CancelStep(rec)
  <2>1. rec \in StepRecord /\ LeaseIsOpenAttempt(rec)
    BY DEF IInv, TypeOK, LeaseMatchesOpenAttempt
  <2>2. /\ rec.status \in {"Absent", "Succeeded", "Failed"} => new = rec
        /\ rec.status \notin {"Absent", "Succeeded", "Failed"} => new.status = "Cancelled"
    BY <2>1, CancelStepFenced
  <2> QED
    BY <2>2
<1>4. \A s \in Steps : steps'[r][s] = CancelStep(steps[r][s])
  BY <1>2
<1>5. Justified(steps'[r], "Cancelled", gatesPassed'[r])
  BY <1>3, <1>4
<1>6. \A q \in Runs : Justified(steps'[q], status'[q], gatesPassed'[q])
  <2> SUFFICES ASSUME NEW q \in Runs PROVE Justified(steps'[q], status'[q], gatesPassed'[q])
    OBVIOUS
  <2> HIDE DEF Justified
  <2>1. CASE q = r
    BY <1>2, <1>5, <2>1
  <2>2. CASE q # r
    <3>1. steps'[q] = steps[q] /\ status'[q] = status[q] /\ gatesPassed'[q] = gatesPassed[q]
      BY <1>2, <2>2
    <3> QED
      BY <1>1, <3>1
  <2> QED
    BY <2>1, <2>2
<1> QED
  BY <1>6 DEF RunStatusIsJustified

\* A new run is Running, which needs no justification.
LEMMA CreateRunJustified ==
    ASSUME IInv, RunStatusIsJustified, NEW r \in Runs, NEW key \in Keys \cup {NoKey},
           NEW p \in Payloads, CreateRun(r, key, p)
    PROVE  RunStatusIsJustified'
<1>1. /\ \A q \in Runs : status'[q] = status[q] \/ status'[q] = "Running"
      /\ steps' = steps /\ gatesPassed' = gatesPassed
  BY DEF CreateRun, IInv, TypeOK
<1> QED
  BY <1>1 DEF RunStatusIsJustified

LEMMA NextJustified ==
    ASSUME IInv, RunStatusIsJustified, [Next]_vars PROVE RunStatusIsJustified'
<1> DEFINE OnlyOpenAttemptsEnd ==
               /\ status' = status /\ gatesPassed' = gatesPassed
               /\ \A r \in Runs, s \in Steps :
                      \/ steps'[r][s].status = steps[r][s].status
                      \/ status[r] = "Running"
                      \/ steps[r][s].status = "Running"
<1>1. OnlyOpenAttemptsEnd => RunStatusIsJustified'
  BY JustifiedWhileAttemptsEnd
<1>2. CASE \E key \in Keys, p \in Payloads : AnswerDuplicate(key, p)
  BY <1>1, <1>2 DEF AnswerDuplicate
<1>3. CASE \E r \in Runs, key \in Keys \cup {NoKey}, p \in Payloads : CreateRun(r, key, p)
  BY <1>3, CreateRunJustified
<1>4. ASSUME NEW r \in Runs, NEW s \in Steps, NEW w \in Workers, ClaimStep(r, s, w)
      PROVE  RunStatusIsJustified'
  <2>1. status[r] = "Running" /\ status' = status /\ gatesPassed' = gatesPassed
    BY <1>4 DEF ClaimStep, NextClaimable
  <2>2. \A q \in Runs, t \in Steps : steps'[q][t] = steps[q][t] \/ q = r
    BY <1>4 DEF ClaimStep, IInv, TypeOK
  <2>3. OnlyOpenAttemptsEnd
    BY <2>1, <2>2
  <2> QED
    BY <1>1, <2>3
<1>5. ASSUME NEW c \in claims, RenewStep(c)
      PROVE  RunStatusIsJustified'
  <2> DEFINE new == [steps[c.run][c.step] EXCEPT !.lease.left = LeaseTicks]
  <2>1. c.run \in Runs /\ c.step \in Steps /\ steps[c.run][c.step] \in StepRecord
    BY <1>5, HolderIsRunning DEF RenewStep
  <2>2. new.status = steps[c.run][c.step].status
    BY <2>1 DEF StepRecord
  <2>3. steps' = [steps EXCEPT ![c.run][c.step] = new]
    BY <1>5 DEF RenewStep
  <2> HIDE DEF new
  <2>4. \A q \in Runs, t \in Steps : steps'[q][t].status = steps[q][t].status
    BY <2>1, <2>2, <2>3 DEF IInv, TypeOK
  <2>5. OnlyOpenAttemptsEnd
    BY <1>5, <2>4 DEF RenewStep
  <2> QED
    BY <1>1, <2>5
<1>6. ASSUME NEW c \in claims, NEW k \in StepCompletion, CompleteStep(c, k)
      PROVE  RunStatusIsJustified'
  <2>1. c.run \in Runs /\ c.step \in Steps /\ steps[c.run][c.step].status = "Running"
    BY <1>6, HolderIsRunning DEF CompleteStep
  <2>2. \A q \in Runs, t \in Steps :
            steps'[q][t] = steps[q][t] \/ (q = c.run /\ t = c.step)
    BY <1>6 DEF CompleteStep, IInv, TypeOK
  <2>3. OnlyOpenAttemptsEnd
    BY <1>6, <2>1, <2>2 DEF CompleteStep
  <2> QED
    BY <1>1, <2>3
<1>7. CASE \E r \in Runs : \E e \in StepEventsOf(r) \cup RunEventsOf : RecordEvent(r, e)
  BY <1>1, <1>7 DEF RecordEvent
<1>8. CASE \E r \in Runs, pass \in BOOLEAN : FinishRun(r, pass)
  BY <1>8, FinishRunJustified
<1>9. CASE \E r \in Runs : CancelRun(r)
  BY <1>9, CancelRunJustified
<1>10. ASSUME RecoverExpired
       PROVE  RunStatusIsJustified'
  <2>1. \A r \in Runs, s \in Steps : s \notin Expired(r) => steps'[r][s] = steps[r][s]
    BY <1>10 DEF RecoverExpired
  <2>2. \A r \in Runs, s \in Steps : s \in Expired(r) => steps[r][s].status = "Running"
    BY RecoveredStep
  <2>3. OnlyOpenAttemptsEnd
    BY <1>10, <2>1, <2>2 DEF RecoverExpired
  <2> QED
    BY <1>1, <2>3
<1>11. ASSUME NEW r \in Runs, NEW s \in Steps,
              LeaseTicksDown(r, s) \/ BackoffElapses(r, s) \/ ClockStepsBack(r, s)
       PROVE  RunStatusIsJustified'
  <2>1. PICK new \in StepRecord :
            new.status = steps[r][s].status /\ steps' = [steps EXCEPT ![r][s] = new]
    BY <1>11, TimeStep
  <2>2. \A q \in Runs, t \in Steps : steps'[q][t].status = steps[q][t].status
    BY <2>1 DEF IInv, TypeOK
  <2>3. OnlyOpenAttemptsEnd
    BY <1>11, <2>2 DEF LeaseTicksDown, BackoffElapses, ClockStepsBack
  <2> QED
    BY <1>1, <2>3
<1>12. CASE UNCHANGED vars
  BY <1>1, <1>12 DEF vars
<1> QED
  BY <1>2, <1>3, <1>4, <1>5, <1>6, <1>7, <1>8, <1>9, <1>10, <1>11, <1>12 DEF Next

\* A run is Succeeded only with every step succeeded and every gate passed,
\* Failed only with a failed step or gate, and Cancelled only with no step
\* leased or retrying, although complete_step, recover_expired and finish_run
\* are accepted after the run was finished.
THEOREM RunStatusesAreJustified == Spec => []RunStatusIsJustified
<1>1. Init => RunStatusIsJustified
  BY DEF Init, RunStatusIsJustified
<1>2. IInv /\ RunStatusIsJustified /\ [Next]_vars => RunStatusIsJustified'
  BY NextJustified
<1> QED
  BY <1>1, <1>2, InductiveInvariant, PTL DEF Spec

-----------------------------------------------------------------------------
(* A finished run takes no new work.                                         *)

\* Every step either keeps a run's terminal status and its attempt counters,
\* or acts on a run that is not finished.
LEMMA NextTakesNoNewWork ==
    ASSUME IInv, Next, NEW q \in Runs, status[q] \in Terminal
    PROVE  status'[q] \in Terminal /\ \A t \in Steps : steps'[q][t].attempts = steps[q][t].attempts
<1> DEFINE Kept == /\ status'[q] \in Terminal
                   /\ \A t \in Steps : steps'[q][t].attempts = steps[q][t].attempts
<1>1. /\ status \in [Runs -> RunStatuses] /\ steps \in [Runs -> [Steps -> StepRecord]]
      /\ status[q] # "Absent" /\ status[q] # "Running"
  BY DEF IInv, TypeOK, Terminal
<1>2. CASE \E key \in Keys, p \in Payloads : AnswerDuplicate(key, p)
  BY <1>2 DEF AnswerDuplicate
<1>3. CASE \E r \in Runs, key \in Keys \cup {NoKey}, p \in Payloads : CreateRun(r, key, p)
  BY <1>1, <1>3 DEF CreateRun
<1>4. CASE \E r \in Runs, s \in Steps, w \in Workers : ClaimStep(r, s, w)
  BY <1>1, <1>4 DEF ClaimStep, NextClaimable
<1>5. ASSUME NEW c \in claims, RenewStep(c) PROVE Kept
  <2> DEFINE new == [steps[c.run][c.step] EXCEPT !.lease.left = LeaseTicks]
  <2>1. c.run \in Runs /\ c.step \in Steps /\ steps[c.run][c.step] \in StepRecord
    BY <1>5, HolderIsRunning DEF RenewStep
  <2>2. new.attempts = steps[c.run][c.step].attempts
    BY <2>1 DEF StepRecord
  <2>3. steps' = [steps EXCEPT ![c.run][c.step] = new] /\ status' = status
    BY <1>5 DEF RenewStep
  <2> HIDE DEF new
  <2> QED
    BY <1>1, <2>1, <2>2, <2>3
<1>6. ASSUME NEW c \in claims, NEW k \in StepCompletion, CompleteStep(c, k) PROVE Kept
  <2> DEFINE rec == steps[c.run][c.step]
             new == EndAttempt(c.step, rec, k.kind, k.output, k.backoff)
  <2>1. c.run \in Runs /\ c.step \in Steps /\ rec \in StepRecord
    BY <1>6, HolderIsRunning DEF CompleteStep
  <2>2. k.kind \in CompletionKinds /\ k.output \in Outputs \cup {NoOutput} /\ k.backoff \in Backoff
        /\ (k.kind = "StepFallbackSelected" => Fallback[c.step] # NoTask)
    BY <1>6 DEF StepCompletion, CompletionKinds, StepEventKinds, Announces, Backoff,
                CompleteStep, CompletionMatchesClaim
  <2>3. new.attempts = rec.attempts
    BY <2>1, <2>2, EndAttemptType
  <2>4. steps' = [steps EXCEPT ![c.run][c.step] = new] /\ status' = status
    BY <1>6 DEF CompleteStep
  <2> HIDE DEF new
  <2> QED
    BY <1>1, <2>1, <2>3, <2>4
<1>7. CASE \E r \in Runs : \E e \in StepEventsOf(r) \cup RunEventsOf : RecordEvent(r, e)
  BY <1>7 DEF RecordEvent
<1>8. ASSUME NEW r \in Runs, NEW pass \in BOOLEAN, FinishRun(r, pass) PROVE Kept
  <2>1. RunVerdict(r, pass) \in Terminal \/ RunVerdict(r, pass) = status[r]
    BY DEF RunVerdict, Terminal
  <2> QED
    BY <1>1, <1>8, <2>1 DEF FinishRun
<1>9. ASSUME NEW r \in Runs, CancelRun(r) PROVE Kept
  <2>1. q # r
    BY <1>9 DEF CancelRun
  <2> QED
    BY <1>1, <1>9, <2>1 DEF CancelRun
<1>10. ASSUME RecoverExpired PROVE Kept
  <2>1. ASSUME NEW t \in Steps PROVE steps'[q][t].attempts = steps[q][t].attempts
    <3>1. CASE t \in Expired(q)
      <4>1. steps'[q][t] = EndAttempt(t, steps[q][t], RecoveryKind(t, steps[q][t]),
                                      steps[q][t].output, "None")
        BY <1>10, <3>1 DEF RecoverExpired
      <4> QED
        BY <3>1, <4>1, RecoveredStep
    <3>2. CASE t \notin Expired(q)
      BY <1>10, <3>2 DEF RecoverExpired
    <3> QED
      BY <3>1, <3>2
  <2> QED
    BY <1>10, <2>1 DEF RecoverExpired
<1>11. ASSUME NEW r \in Runs, NEW s \in Steps,
              LeaseTicksDown(r, s) \/ BackoffElapses(r, s) \/ ClockStepsBack(r, s)
       PROVE  Kept
  <2>1. PICK new \in StepRecord :
            new.attempts = steps[r][s].attempts /\ steps' = [steps EXCEPT ![r][s] = new]
    BY <1>11, TimeStep
  <2>2. status' = status
    BY <1>11 DEF LeaseTicksDown, BackoffElapses, ClockStepsBack
  <2> QED
    BY <1>1, <2>1, <2>2
<1> QED
  BY <1>2, <1>3, <1>4, <1>5, <1>6, <1>7, <1>8, <1>9, <1>10, <1>11 DEF Next

\* claim_next_step and recover_expired never start an attempt of a finished
\* run, and no operation makes it Running again.
THEOREM FinishedRunsTakeNoNewWork == Spec => FinishedRunTakesNoNewWork
<1>1. IInv /\ [Next]_vars =>
          [\A r \in Runs : status[r] \in Terminal =>
              /\ status'[r] \in Terminal
              /\ \A s \in Steps : steps'[r][s].attempts = steps[r][s].attempts]_vars
  BY NextTakesNoNewWork
<1> QED
  BY <1>1, InductiveInvariant, PTL DEF Spec, FinishedRunTakesNoNewWork

-----------------------------------------------------------------------------
(* Submissions: OneRunPerKey *)

\* The index and the runs' own requests are inverse to each other, a run that
\* was never created names no key, and every answer still is what the index
\* says.  OneRunPerKey alone is not inductive: that create_run takes a key
\* nobody has rests on the index, and the answers must be tied to it.
IndexMatchesRequests ==
    /\ \A r \in Runs : status[r] = "Absent" => request[r].key = NoKey
    /\ \A k \in Keys : idempotency[k] # NoRun => request[idempotency[k]].key = k
    /\ \A r \in Runs : request[r].key \in Keys => idempotency[request[r].key] = r
    /\ \A a \in answered : /\ idempotency[a.key] = a.run
                           /\ request[a.run].payload = a.payload

LEMMA InitIndex ==
    ASSUME Init PROVE IndexMatchesRequests
BY NullsAssumption DEF Init, IndexMatchesRequests

\* A repeated request is answered with the run the index names.
LEMMA AnswerDuplicateIndex ==
    ASSUME TypeOK, IndexMatchesRequests, NEW key \in Keys, NEW p \in Payloads,
           AnswerDuplicate(key, p)
    PROVE  IndexMatchesRequests'
<1> DEFINE a == [key |-> key, payload |-> p, run |-> idempotency[key]]
<1>1. /\ answered' = answered \cup {a}
      /\ UNCHANGED <<status, request, idempotency>>
      /\ request[idempotency[key]].payload = p
  BY DEF AnswerDuplicate, Repeats
<1>2. \A b \in answered' : idempotency[b.key] = b.run /\ request[b.run].payload = b.payload
  BY <1>1 DEF IndexMatchesRequests
<1> QED
  BY <1>1, <1>2 DEF IndexMatchesRequests

\* A run that is created was absent, so no key and no answer named it.
LEMMA CreateRunIndex ==
    ASSUME TypeOK, IndexMatchesRequests, NEW r \in Runs, NEW key \in Keys \cup {NoKey},
           NEW p \in Payloads, CreateRun(r, key, p)
    PROVE  IndexMatchesRequests'
<1>1. /\ status[r] = "Absent" /\ status' = [status EXCEPT ![r] = "Running"]
      /\ request' = [request EXCEPT ![r] = [key |-> key, payload |-> p]]
      /\ idempotency' = [k \in Keys |-> IF k = key THEN r ELSE idempotency[k]]
      /\ key \in Keys => idempotency[key] = NoRun
      /\ \A a \in answered' : \/ a \in answered
                              \/ key \in Keys /\ a = [key |-> key, payload |-> p, run |-> r]
  BY DEF CreateRun
<1>2. r # NoRun /\ request[r].key = NoKey /\ NoKey \notin Keys
  BY <1>1, NullsAssumption DEF IndexMatchesRequests, Runs, NoRun
<1>3. request'[r] = [key |-> key, payload |-> p] /\ \A q \in Runs \ {r} : request'[q] = request[q]
  BY <1>1 DEF TypeOK
<1>4. \A k \in Keys : idempotency[k] # r
  BY <1>2 DEF IndexMatchesRequests
<1>5. \A q \in Runs : status'[q] = "Absent" => request'[q].key = NoKey
  BY <1>1, <1>3 DEF IndexMatchesRequests, TypeOK
<1>6. ASSUME NEW k \in Keys, idempotency'[k] # NoRun PROVE request'[idempotency'[k]].key = k
  <2>1. CASE k = key
    BY <1>1, <1>3, <2>1
  <2>2. CASE k # key
    <3>1. idempotency'[k] = idempotency[k] /\ idempotency[k] \in Runs \ {r}
      BY <1>1, <1>4, <1>6, <2>2 DEF TypeOK
    <3> QED
      BY <1>3, <1>6, <3>1 DEF IndexMatchesRequests
  <2> QED
    BY <2>1, <2>2
<1>7. ASSUME NEW q \in Runs, request'[q].key \in Keys
      PROVE  idempotency'[request'[q].key] = q
  <2>1. CASE q = r
    BY <1>1, <1>3, <1>7, <2>1
  <2>2. CASE q # r
    <3>1. request'[q] = request[q] /\ idempotency[request[q].key] = q /\ q # NoRun
      BY <1>3, <1>7, <2>2 DEF IndexMatchesRequests, Runs, NoRun
    <3>2. request[q].key # key
      BY <1>1, <1>7, <3>1
    <3> QED
      BY <1>1, <1>7, <3>1, <3>2
  <2> QED
    BY <2>1, <2>2
<1>8. ASSUME NEW a \in answered'
      PROVE  idempotency'[a.key] = a.run /\ request'[a.run].payload = a.payload
  <2>1. CASE a \in answered
    <3>1. a.key \in Keys /\ a.run \in Runs /\ idempotency[a.key] = a.run
          /\ request[a.run].payload = a.payload
      BY <2>1 DEF TypeOK, IndexMatchesRequests
    <3>2. a.run # r /\ a.run # NoRun
      BY <1>4, <3>1 DEF Runs, NoRun
    <3>3. a.key # key
      BY <1>1, <3>1, <3>2
    <3> QED
      BY <1>1, <1>3, <3>1, <3>2, <3>3
  <2>2. CASE key \in Keys /\ a = [key |-> key, payload |-> p, run |-> r]
    BY <1>1, <1>3, <2>2
  <2> QED
    BY <1>1, <1>8, <2>1, <2>2
<1> QED
  BY <1>5, <1>6, <1>7, <1>8 DEF IndexMatchesRequests

\* No other operation writes a request, the index or an answer, and none makes
\* a run absent again.
LEMMA NextIndex ==
    ASSUME TypeOK, IndexMatchesRequests, [Next]_vars PROVE IndexMatchesRequests'
<1> DEFINE Elsewhere == /\ UNCHANGED <<request, idempotency, answered>>
                        /\ \A q \in Runs : status'[q] = "Absent" => status[q] = "Absent"
<1>1. Elsewhere => IndexMatchesRequests'
  BY DEF IndexMatchesRequests
<1>2. CASE \E key \in Keys, p \in Payloads : AnswerDuplicate(key, p)
  BY <1>2, AnswerDuplicateIndex
<1>3. CASE \E r \in Runs, key \in Keys \cup {NoKey}, p \in Payloads : CreateRun(r, key, p)
  BY <1>3, CreateRunIndex
<1>4. CASE \E r \in Runs, s \in Steps, w \in Workers : ClaimStep(r, s, w)
  BY <1>1, <1>4 DEF ClaimStep
<1>5. CASE \E c \in claims : RenewStep(c) \/ \E k \in StepCompletion : CompleteStep(c, k)
  BY <1>1, <1>5 DEF RenewStep, CompleteStep
<1>6. CASE \E r \in Runs : \E e \in StepEventsOf(r) \cup RunEventsOf : RecordEvent(r, e)
  BY <1>1, <1>6 DEF RecordEvent
<1>7. ASSUME NEW r \in Runs, NEW pass \in BOOLEAN, FinishRun(r, pass)
      PROVE  IndexMatchesRequests'
  <2>1. RunVerdict(r, pass) # "Absent"
    BY <1>7 DEF FinishRun, RunVerdict
  <2> QED
    BY <1>1, <1>7, <2>1 DEF FinishRun, TypeOK
<1>8. CASE \E r \in Runs : CancelRun(r)
  BY <1>1, <1>8 DEF CancelRun, TypeOK
<1>9. CASE RecoverExpired
  BY <1>1, <1>9 DEF RecoverExpired
<1>10. CASE \E r \in Runs, s \in Steps :
               LeaseTicksDown(r, s) \/ BackoffElapses(r, s) \/ ClockStepsBack(r, s)
  BY <1>1, <1>10 DEF LeaseTicksDown, BackoffElapses, ClockStepsBack
<1>11. CASE UNCHANGED vars
  BY <1>1, <1>11 DEF vars
<1> QED
  BY <1>2, <1>3, <1>4, <1>5, <1>6, <1>7, <1>8, <1>9, <1>10, <1>11 DEF Next

\* create_run is idempotent: two answers to one key name one run, that run was
\* made from the payload each caller sent, and no two runs have one key.
THEOREM SubmissionIsIdempotent == Spec => []OneRunPerKey
<1>1. Init => IndexMatchesRequests
  BY InitIndex
<1>2. TypeOK /\ IndexMatchesRequests /\ [Next]_vars => IndexMatchesRequests'
  BY NextIndex
<1>3. TypeOK /\ IndexMatchesRequests => OneRunPerKey
  <2> SUFFICES ASSUME TypeOK, IndexMatchesRequests PROVE OneRunPerKey
    OBVIOUS
  <2>1. ASSUME NEW a \in answered
        PROVE  request[a.run] = [key |-> a.key, payload |-> a.payload]
    <3>1. a.key \in Keys /\ a.run \in Runs /\ idempotency[a.key] = a.run
          /\ request[a.run].payload = a.payload
      BY DEF TypeOK, IndexMatchesRequests
    <3>2. request[a.run].key = a.key
      BY <3>1 DEF IndexMatchesRequests, Runs, NoRun
    <3> QED
      BY <3>1, <3>2 DEF TypeOK
  <2>2. \A r \in Runs : request[r].key # NoKey => request[r].key \in Keys
    BY DEF TypeOK
  <2> QED
    BY <2>1, <2>2 DEF OneRunPerKey, IndexMatchesRequests
<1> QED
  BY <1>1, <1>2, <1>3, TypeCorrect, PTL DEF Spec

-----------------------------------------------------------------------------
(* The ways a step of the repository changes a step record *)

\* Nothing changed but deadlines.
SameAttempt(old, new) ==
    /\ new.status = old.status /\ new.task = old.task /\ new.attempts = old.attempts
    /\ new.output = old.output /\ new.fallbackUsed = old.fallbackUsed
    /\ new.history = old.history
    /\ new.lease.token = old.lease.token /\ new.lease.worker = old.lease.worker

\* What entitles complete_step or recover_expired_step to end an attempt so.
Entitled(r, s, rec, kind) ==
    \/ kind = RecoveryKind(s, rec)
    \/ \E c \in claims, k \in StepCompletion :
           /\ HoldsLease(c) /\ c.run = r /\ c.step = s
           /\ k.kind = kind /\ CompletionMatchesClaim(k, c)

\* The leased attempt ended, by its holder or by recovery.
AttemptEnded(r, s, old, new) ==
    /\ old.status = "Running"
    /\ \E kind \in CompletionKinds, output \in Outputs \cup {NoOutput}, backoff \in Backoff :
           /\ new = EndAttempt(s, old, kind, output, backoff)
           /\ kind = "StepFallbackSelected" => Fallback[s] # NoTask
           /\ kind = "StepSucceeded" => output # NoOutput
           /\ Entitled(r, s, old, kind)

StepCancelled(old, new) == new = CancelStep(old)

\* The clock and renewals move nothing but deadlines.
LEMMA LeaseMovesKeepAttempt ==
    ASSUME NEW rec \in StepRecord, rec.lease # NoLease, NEW left
    PROVE  SameAttempt(rec, [rec EXCEPT !.lease.left = left])
<1>1. rec.lease \in Lease
  BY DEF StepRecord
<1> DEFINE lease == [rec.lease EXCEPT !.left = left]
<1>2. lease.token = rec.lease.token /\ lease.worker = rec.lease.worker
  BY <1>1 DEF Lease
<1>3. [rec EXCEPT !.lease.left = left] = [rec EXCEPT !.lease = lease]
  OBVIOUS
<1> HIDE DEF lease
<1> QED
  BY <1>2, <1>3 DEF SameAttempt, StepRecord

LEMMA BackoffMovesKeepAttempt ==
    ASSUME NEW rec \in StepRecord, NEW b
    PROVE  SameAttempt(rec, [rec EXCEPT !.backoff = b])
BY DEF SameAttempt, StepRecord

LEMMA SameRecord ==
    ASSUME NEW rec, NEW new, new = rec PROVE SameAttempt(rec, new)
BY DEF SameAttempt

\* Apart from the grant of a claim, an operation keeps the claims and the token
\* counter, and each record keeps its attempt, ends it or is cancelled.
Changed(r, s) ==
    \/ SameAttempt(steps[r][s], steps'[r][s])
    \/ AttemptEnded(r, s, steps[r][s], steps'[r][s])
    \/ StepCancelled(steps[r][s], steps'[r][s])

LEMMA CompleteStepChanges ==
    ASSUME IInv, NEW c \in claims, NEW k \in StepCompletion, CompleteStep(c, k),
           NEW q \in Runs, NEW t \in Steps
    PROVE  Changed(q, t)
<1> DEFINE rec == steps[c.run][c.step]
           new == EndAttempt(c.step, rec, k.kind, k.output, k.backoff)
<1>1. c.run \in Runs /\ c.step \in Steps /\ rec.status = "Running"
  BY HolderIsRunning DEF CompleteStep
<1>2. /\ k.kind \in CompletionKinds /\ k.output \in Outputs \cup {NoOutput} /\ k.backoff \in Backoff
      /\ k.kind = "StepSucceeded" => k.output # NoOutput
  BY NullsAssumption DEF StepCompletion, CompletionKinds, StepEventKinds, Announces, Backoff
<1>3. k.kind = "StepFallbackSelected" => Fallback[c.step] # NoTask
  BY DEF CompleteStep, CompletionMatchesClaim
<1>4. Entitled(c.run, c.step, rec, k.kind)
  BY DEF CompleteStep, Entitled
<1>5. AttemptEnded(c.run, c.step, rec, new)
  <2> HIDE DEF rec
  <2> QED
    BY <1>1, <1>2, <1>3, <1>4 DEF AttemptEnded
<1>6. steps' = [steps EXCEPT ![c.run][c.step] = new]
  BY DEF CompleteStep
<1> HIDE DEF new
<1>7. /\ steps'[c.run][c.step] = new
      /\ (q # c.run \/ t # c.step) => steps'[q][t] = steps[q][t]
  BY <1>1, <1>6 DEF IInv, TypeOK
<1> QED
  BY <1>5, <1>7, SameRecord DEF Changed

LEMMA RecoverExpiredChanges ==
    ASSUME IInv, RecoverExpired, NEW q \in Runs, NEW t \in Steps
    PROVE  Changed(q, t)
<1> DEFINE rec  == steps[q][t]
           kind == RecoveryKind(t, rec)
<1>1. CASE t \in Expired(q)
  <2>1. rec.status = "Running" /\ kind \in CompletionKinds
    BY <1>1, RecoveredStep
  <2>2. rec.output \in Outputs \cup {NoOutput} /\ "None" \in Backoff
    BY DEF IInv, TypeOK, StepRecord, Backoff
  <2>3. /\ kind = "StepFallbackSelected" => Fallback[t] # NoTask
        /\ kind # "StepSucceeded"
    BY DEF RecoveryKind
  <2>4. steps'[q][t] = EndAttempt(t, rec, kind, rec.output, "None")
    BY <1>1 DEF RecoverExpired
  <2>5. Entitled(q, t, rec, kind)
    BY DEF Entitled
  <2> HIDE DEF rec, kind
  <2>6. AttemptEnded(q, t, rec, steps'[q][t])
    BY <2>1, <2>2, <2>3, <2>4, <2>5 DEF AttemptEnded
  <2> QED
    BY <2>6 DEF Changed, rec
<1>2. CASE t \notin Expired(q)
  <2>1. steps'[q][t] = steps[q][t]
    BY <1>2 DEF RecoverExpired
  <2> QED
    BY <2>1, SameRecord DEF Changed
<1> QED
  BY <1>1, <1>2

LEMMA TimeKeepsAttempts ==
    ASSUME IInv, NEW r \in Runs, NEW s \in Steps,
           LeaseTicksDown(r, s) \/ BackoffElapses(r, s) \/ ClockStepsBack(r, s),
           NEW q \in Runs, NEW t \in Steps
    PROVE  SameAttempt(steps[q][t], steps'[q][t])
<1> DEFINE rec == steps[r][s]
<1>1. rec \in StepRecord
  BY DEF IInv, TypeOK
<1>2. \E new : SameAttempt(rec, new) /\ steps' = [steps EXCEPT ![r][s] = new]
  <2>1. CASE LeaseTicksDown(r, s)
    <3>1. rec.lease # NoLease
          /\ steps' = [steps EXCEPT ![r][s] = [rec EXCEPT !.lease.left = rec.lease.left - 1]]
      BY <2>1 DEF LeaseTicksDown
    <3> QED
      BY <1>1, <3>1, LeaseMovesKeepAttempt
  <2>2. CASE BackoffElapses(r, s)
    <3>1. steps' = [steps EXCEPT ![r][s] = [rec EXCEPT !.backoff = "Elapsed"]]
      BY <2>2 DEF BackoffElapses
    <3> QED
      BY <1>1, <3>1, BackoffMovesKeepAttempt
  <2>3. CASE rec.lease # NoLease /\ steps' = [steps EXCEPT ![r][s].lease.left = @ + 1]
    <3>1. steps' = [steps EXCEPT ![r][s] = [rec EXCEPT !.lease.left = rec.lease.left + 1]]
      BY <2>3
    <3> QED
      BY <1>1, <2>3, <3>1, LeaseMovesKeepAttempt
  <2>4. CASE steps' = [steps EXCEPT ![r][s].backoff = "Pending"]
    <3>1. steps' = [steps EXCEPT ![r][s] = [rec EXCEPT !.backoff = "Pending"]]
      BY <2>4
    <3> QED
      BY <1>1, <3>1, BackoffMovesKeepAttempt
  <2> QED
    BY <2>1, <2>2, <2>3, <2>4 DEF ClockStepsBack
<1>3. PICK new : SameAttempt(rec, new) /\ steps' = [steps EXCEPT ![r][s] = new]
  BY <1>2
<1>4. /\ steps'[r][s] = new
      /\ (q # r \/ t # s) => steps'[q][t] = steps[q][t]
  BY <1>3 DEF IInv, TypeOK
<1> QED
  BY <1>3, <1>4, SameRecord

LEMMA RenewStepKeepsAttempts ==
    ASSUME IInv, NEW c \in claims, RenewStep(c), NEW q \in Runs, NEW t \in Steps
    PROVE  SameAttempt(steps[q][t], steps'[q][t])
<1> DEFINE rec == steps[c.run][c.step]
           new == [rec EXCEPT !.lease.left = LeaseTicks]
<1>1. c.run \in Runs /\ c.step \in Steps /\ rec \in StepRecord /\ rec.lease # NoLease
  BY HolderIsRunning DEF RenewStep
<1>2. SameAttempt(rec, new)
  BY <1>1, LeaseMovesKeepAttempt
<1>3. steps' = [steps EXCEPT ![c.run][c.step] = new]
  BY DEF RenewStep
<1> HIDE DEF new
<1>4. /\ steps'[c.run][c.step] = new
      /\ (q # c.run \/ t # c.step) => steps'[q][t] = steps[q][t]
  BY <1>1, <1>3 DEF IInv, TypeOK
<1> QED
  BY <1>2, <1>4, SameRecord

LEMMA NextChanges ==
    ASSUME IInv, [Next]_vars
    PROVE  \/ \E r \in Runs, s \in Steps, w \in Workers : ClaimStep(r, s, w)
           \/ /\ UNCHANGED <<claims, nextLeaseToken>>
              /\ \A q \in Runs, t \in Steps : Changed(q, t)
<1> DEFINE Elsewhere == /\ UNCHANGED <<claims, nextLeaseToken>>
                        /\ \A q \in Runs, t \in Steps : Changed(q, t)
<1>1. steps' = steps => \A q \in Runs, t \in Steps : Changed(q, t)
  BY SameRecord DEF Changed
<1>2. CASE \E key \in Keys, p \in Payloads : AnswerDuplicate(key, p)
  BY <1>1, <1>2 DEF AnswerDuplicate
<1>3. CASE \E r \in Runs, key \in Keys \cup {NoKey}, p \in Payloads : CreateRun(r, key, p)
  BY <1>1, <1>3 DEF CreateRun
<1>4. CASE \E c \in claims : RenewStep(c)
  BY <1>4, RenewStepKeepsAttempts DEF RenewStep, Changed
<1>5. CASE \E c \in claims, k \in StepCompletion : CompleteStep(c, k)
  BY <1>5, CompleteStepChanges DEF CompleteStep
<1>6. CASE \E r \in Runs : \E e \in StepEventsOf(r) \cup RunEventsOf : RecordEvent(r, e)
  BY <1>1, <1>6 DEF RecordEvent
<1>7. CASE \E r \in Runs, pass \in BOOLEAN : FinishRun(r, pass)
  BY <1>1, <1>7 DEF FinishRun
<1>8. ASSUME NEW r \in Runs, CancelRun(r) PROVE Elsewhere
  <2>1. steps' = [steps EXCEPT ![r] = [s \in Steps |-> CancelStep(steps[r][s])]]
    BY <1>8 DEF CancelRun
  <2>2. \A q \in Runs, t \in Steps :
            steps'[q][t] = IF q = r THEN CancelStep(steps[q][t]) ELSE steps[q][t]
    BY <2>1 DEF IInv, TypeOK
  <2>3. \A q \in Runs, t \in Steps : Changed(q, t)
    BY <2>2, SameRecord DEF Changed, StepCancelled
  <2> QED
    BY <1>8, <2>3 DEF CancelRun
<1>9. CASE RecoverExpired
  BY <1>9, RecoverExpiredChanges DEF RecoverExpired
<1>10. CASE \E r \in Runs, s \in Steps :
               LeaseTicksDown(r, s) \/ BackoffElapses(r, s) \/ ClockStepsBack(r, s)
  BY <1>10, TimeKeepsAttempts DEF LeaseTicksDown, BackoffElapses, ClockStepsBack, Changed
<1>11. CASE UNCHANGED vars
  BY <1>1, <1>11 DEF vars
<1> HIDE DEF Elsewhere
<1> QED
  BY <1>2, <1>3, <1>4, <1>5, <1>6, <1>7, <1>8, <1>9, <1>10, <1>11 DEF Next, Elsewhere

-----------------------------------------------------------------------------
(* Histories keep what identifies an attempt *)

LEMMA ChangedKeepsIdentities ==
    ASSUME IInv, NEW r \in Runs, NEW s \in Steps, Changed(r, s)
    PROVE  SameIdentities(steps[r][s], steps'[r][s])
<1> DEFINE old == steps[r][s]
           new == steps'[r][s]
<1>1. old \in StepRecord
  BY DEF IInv, TypeOK
<1>2. CASE SameAttempt(old, new)
  BY <1>1, <1>2 DEF SameAttempt, SameIdentities, StepRecord
<1>3. CASE AttemptEnded(r, s, old, new)
  BY <1>1, <1>3, EndKeepsIdentities DEF AttemptEnded
<1>4. CASE StepCancelled(old, new)
  BY <1>1, <1>4, CancelKeepsIdentities DEF StepCancelled
<1> QED
  BY <1>2, <1>3, <1>4 DEF Changed

-----------------------------------------------------------------------------
(* A token identifies an attempt *)

\* Of one record and the claims on it.
TokensRise(rec) ==
    /\ \A i \in 1..Len(rec.history) : rec.history[i].token <= nextLeaseToken
    /\ \A i, j \in 1..Len(rec.history) : i < j => rec.history[i].token < rec.history[j].token
ClaimInHistory(c) ==
    LET rec == steps[c.run][c.step]
    IN  /\ c.token <= nextLeaseToken
        /\ c.attempt <= rec.attempts
        /\ rec.history[c.attempt].token = c.token /\ rec.history[c.attempt].worker = c.worker

\* TokenIdentifiesAttempt with the one fact its preservation lacks: no history
\* holds a token that is still to be issued.
TokenInv ==
    /\ \A c, d \in claims : c.token = d.token => c = d
    /\ \A c \in claims : ClaimInHistory(c)
    /\ \A r \in Runs, s \in Steps : TokensRise(steps[r][s])

LEMMA InitToken ==
    ASSUME Init PROVE TokenInv
<1>1. claims = {}
  BY DEF Init
<1>2. ASSUME NEW r \in Runs, NEW s \in Steps PROVE TokensRise(steps[r][s])
  <2>1. steps[r][s].history = <<>>
    BY DEF Init, NewStep
  <2> QED
    BY <2>1 DEF TokensRise
<1> QED
  BY <1>1, <1>2 DEF TokenInv

\* What a claim's fields are.
LEMMA ClaimFields ==
    ASSUME TypeOK, NEW c \in claims
    PROVE  /\ c.run \in Runs /\ c.step \in Steps /\ c.task \in Tasks /\ c.worker \in Workers
           /\ c.token \in Nat \ {0} /\ c.attempt \in Nat \ {0} /\ c.fallbackUsed \in BOOLEAN
BY DEF TypeOK, StepClaim, ClaimOn

\* Steps that grant nothing.
LEMMA KeptRise ==
    ASSUME IInv, \A q \in Runs, t \in Steps : TokensRise(steps[q][t]),
           UNCHANGED nextLeaseToken, \A q \in Runs, t \in Steps : Changed(q, t)
    PROVE  \A q \in Runs, t \in Steps : TokensRise(steps[q][t])'
<1> SUFFICES ASSUME NEW q \in Runs, NEW t \in Steps
             PROVE  TokensRise(steps[q][t])'
  OBVIOUS
<1>1. SameIdentities(steps[q][t], steps'[q][t])
  BY ChangedKeepsIdentities
<1>2. TokensRise(steps[q][t]) /\ UNCHANGED nextLeaseToken
  OBVIOUS
<1> QED
  BY <1>1, <1>2 DEF SameIdentities, TokensRise

LEMMA KeptToken ==
    ASSUME IInv, TokenInv, UNCHANGED <<claims, nextLeaseToken>>,
           \A q \in Runs, t \in Steps : Changed(q, t)
    PROVE  TokenInv'
<1>1. \A q \in Runs, t \in Steps : SameIdentities(steps[q][t], steps'[q][t])
  BY ChangedKeepsIdentities
<1>2. ASSUME NEW c \in claims PROVE ClaimInHistory(c)'
  <2> DEFINE old == steps[c.run][c.step]
             new == steps'[c.run][c.step]
  <2>1. /\ c.run \in Runs /\ c.step \in Steps /\ c.attempt \in Nat \ {0}
        /\ Len(old.history) = old.attempts /\ ClaimInHistory(c)
    BY ClaimFields DEF IInv, LeaseMatchesOpenAttempt, LeaseIsOpenAttempt, TokenInv
  <2>2. SameIdentities(old, new)
    BY <1>1, <2>1
  <2>3. c.attempt \in 1..Len(old.history)
    BY <2>1 DEF ClaimInHistory, IInv, TypeOK, StepRecord
  <2> QED
    BY <2>1, <2>2, <2>3 DEF ClaimInHistory, SameIdentities
<1>3. ASSUME NEW r \in Runs, NEW s \in Steps PROVE TokensRise(steps[r][s])'
  BY KeptRise DEF TokenInv
<1> QED
  BY <1>2, <1>3 DEF TokenInv

\* A grant appends to one history the token that follows all issued ones.
LEMMA GrantedRise ==
    ASSUME IInv, \A q \in Runs, t \in Steps : TokensRise(steps[q][t]),
           NEW r \in Runs, NEW s \in Steps, NEW w \in Workers, ClaimStep(r, s, w)
    PROVE  \A q \in Runs, t \in Steps : TokensRise(steps[q][t])'
<1> DEFINE rec   == steps[r][s]
           n     == Len(rec.history)
           token == nextLeaseToken + 1
           new   == StartAttempt(rec, w, token)
           e     == [number |-> rec.attempts + 1, worker |-> w, token |-> token,
                     status |-> "Running"]
<1>1. /\ rec \in StepRecord /\ rec.history \in Seq(Attempt) /\ n \in Nat
      /\ rec.attempts \in Nat /\ nextLeaseToken \in Nat
  BY DEF IInv, TypeOK, StepRecord
<1>2. e \in Attempt
  BY <1>1 DEF Attempt, StepStatuses
<1>3. new.history = Append(rec.history, e)
  BY <1>1 DEF StartAttempt, StepRecord
<1>4. /\ Len(new.history) = n + 1 /\ new.history[n + 1] = e
      /\ \A i \in 1..n : new.history[i] = rec.history[i]
  <2> HIDE DEF e, new, rec
  <2> QED BY <1>1, <1>2, <1>3
<1>5. nextLeaseToken' = token /\ steps' = [steps EXCEPT ![r][s] = new]
  BY DEF ClaimStep
<1> HIDE DEF new
<1>6. /\ steps'[r][s] = new
      /\ \A q \in Runs, t \in Steps : (q # r \/ t # s) => steps'[q][t] = steps[q][t]
  BY <1>5 DEF IInv, TypeOK
<1>7. ASSUME NEW q \in Runs, NEW t \in Steps PROVE TokensRise(steps[q][t])'
  <2>1. /\ steps[q][t] \in StepRecord /\ TokensRise(steps[q][t])
        /\ \A i \in 1..Len(steps[q][t].history) : steps[q][t].history[i].token \in Nat
    BY AttemptTokens DEF IInv, TypeOK
  <2>2. CASE q # r \/ t # s
    <3>1. steps'[q][t] = steps[q][t] /\ nextLeaseToken < nextLeaseToken'
      BY <1>1, <1>5, <1>6, <2>2
    <3> DEFINE h == steps[q][t].history
    <3>2. /\ \A i \in 1..Len(h) : h[i].token \in Nat /\ h[i].token <= nextLeaseToken
          /\ \A i, j \in 1..Len(h) : i < j => h[i].token < h[j].token
      BY <2>1 DEF TokensRise
    <3> HIDE DEF h
    <3>3. nextLeaseToken \in Nat /\ nextLeaseToken' \in Nat
      BY <1>1, <1>5
    <3>4. \A i \in 1..Len(h) : h[i].token <= nextLeaseToken'
      BY <3>1, <3>2, <3>3
    <3> QED
      BY <3>1, <3>2, <3>4 DEF h, TokensRise
  <2>3. CASE q = r /\ t = s
    <3> DEFINE h == rec.history
               g == new.history
    <3>1. /\ \A i \in 1..Len(h) : h[i].token <= nextLeaseToken
          /\ \A i, j \in 1..Len(h) : i < j => h[i].token < h[j].token
      BY <2>1, <2>3 DEF TokensRise
    <3>2. h \in Seq(Attempt) /\ nextLeaseToken \in Nat
      BY <1>1
    <3>3. /\ \A i \in 1..Len(h) : g[i] = h[i]
          /\ g[Len(h) + 1].token = nextLeaseToken + 1
      BY <1>4
    <3> HIDE DEF h, g
    <3>4. /\ \A i \in 1..(Len(h) + 1) : g[i].token <= nextLeaseToken + 1
          /\ \A i, j \in 1..(Len(h) + 1) : i < j => g[i].token < g[j].token
      BY <3>1, <3>2, <3>3, AppendedToken
    <3> QED
      BY <1>4, <1>5, <1>6, <2>3, <3>4 DEF TokensRise, h, g
  <2> QED
    BY <2>2, <2>3
<1> QED
  BY <1>7

\* A grant issues a token above every other, to a new last attempt.
LEMMA GrantedToken ==
    ASSUME IInv, TokenInv, NEW r \in Runs, NEW s \in Steps, NEW w \in Workers,
           ClaimStep(r, s, w)
    PROVE  TokenInv'
<1> DEFINE rec   == steps[r][s]
           n     == Len(rec.history)
           token == nextLeaseToken + 1
           new   == StartAttempt(rec, w, token)
           e     == [number |-> rec.attempts + 1, worker |-> w, token |-> token,
                     status |-> "Running"]
<1>1. /\ rec \in StepRecord /\ rec.history \in Seq(Attempt) /\ n \in Nat
      /\ n = rec.attempts /\ nextLeaseToken \in Nat
  BY DEF IInv, TypeOK, StepRecord, LeaseMatchesOpenAttempt, LeaseIsOpenAttempt
<1>2. e \in Attempt
  BY <1>1 DEF Attempt, StepStatuses
<1>3. new.history = Append(rec.history, e) /\ new.attempts = n + 1
  BY <1>1 DEF StartAttempt, StepRecord
<1>4. /\ Len(new.history) = n + 1 /\ new.history[n + 1] = e
      /\ \A i \in 1..n : new.history[i] = rec.history[i]
  <2> HIDE DEF e, new, rec
  <2> QED BY <1>1, <1>2, <1>3
<1>5. nextLeaseToken' = token /\ steps' = [steps EXCEPT ![r][s] = new]
  BY DEF ClaimStep
<1>6. PICK c0 : /\ claims' = claims \cup {c0} /\ c0.token = token /\ c0.run = r /\ c0.step = s
                /\ c0.worker = w /\ c0.attempt = n + 1
  <2> DEFINE c0 == [run |-> r, step |-> s, task |-> rec.task, worker |-> w,
                    token |-> token, attempt |-> new.attempts,
                    fallbackUsed |-> rec.fallbackUsed,
                    input |-> [d \in Deps[s] |-> steps[r][d].output]]
  <2>1. claims' = claims \cup {c0}
    BY DEF ClaimStep
  <2> HIDE DEF new
  <2>2. c0.token = token /\ c0.run = r /\ c0.step = s /\ c0.worker = w /\ c0.attempt = n + 1
    BY <1>3
  <2> QED
    BY <2>1, <2>2
<1> HIDE DEF new
<1>7. /\ steps'[r][s] = new
      /\ \A q \in Runs, t \in Steps : (q # r \/ t # s) => steps'[q][t] = steps[q][t]
  BY <1>5 DEF IInv, TypeOK
<1>8. \A c \in claims : c.token # token
  BY <1>1, ClaimFields DEF IInv, TokenInv, ClaimInHistory
<1>9. \A c, d \in claims' : c.token = d.token => c = d
  BY <1>6, <1>8 DEF TokenInv
<1>10. ASSUME NEW c \in claims' PROVE ClaimInHistory(c)'
  <2>1. CASE c = c0
    BY <1>1, <1>3, <1>4, <1>5, <1>6, <1>7, <2>1 DEF ClaimInHistory
  <2>2. CASE c \in claims /\ (c.run # r \/ c.step # s)
    <3>1. c.run \in Runs /\ c.step \in Steps /\ ClaimInHistory(c) /\ c.token \in Nat
      BY <2>2, ClaimFields DEF IInv, TokenInv
    <3> QED
      BY <1>1, <1>5, <1>7, <2>2, <3>1 DEF ClaimInHistory
  <2>3. CASE c \in claims /\ c.run = r /\ c.step = s
    <3>1. c.attempt \in Nat \ {0} /\ ClaimInHistory(c) /\ c.token \in Nat
      BY <2>3, ClaimFields DEF IInv, TokenInv
    <3>2. c.attempt \in 1..n /\ c.attempt <= n + 1
      BY <1>1, <2>3, <3>1 DEF ClaimInHistory
    <3>3. new.history[c.attempt] = rec.history[c.attempt]
      BY <1>4, <3>2
    <3> QED
      BY <1>1, <1>3, <1>5, <1>7, <2>3, <3>1, <3>2, <3>3 DEF ClaimInHistory
  <2> QED
    BY <1>6, <2>1, <2>2, <2>3
<1>11. \A q \in Runs, t \in Steps : TokensRise(steps[q][t])'
  BY GrantedRise DEF TokenInv
<1> QED
  BY <1>9, <1>10, <1>11 DEF TokenInv

LEMMA NextToken ==
    ASSUME IInv, TokenInv, [Next]_vars PROVE TokenInv'
BY NextChanges, GrantedToken, KeptToken

\* The token invariant holds in every reachable state.
THEOREM TokenInvariant == Spec => []TokenInv
<1>1. Init => TokenInv
  BY InitToken
<1>2. IInv /\ TokenInv /\ [Next]_vars => TokenInv'
  BY NextToken
<1> QED
  BY <1>1, <1>2, InductiveInvariant, PTL DEF Spec

\* The fencing of StepClaim: no two claims share a token, tokens rise from
\* attempt to attempt, and what a claim says of its attempt is what the history
\* keeps of it, however late the claim is shown.
THEOREM TokensIdentifyAttempts == Spec => []TokenIdentifiesAttempt
<1>1. TypeOK /\ TokenInv => TokenIdentifiesAttempt
  <2> SUFFICES ASSUME TypeOK, TokenInv PROVE TokenIdentifiesAttempt
    OBVIOUS
  <2>1. \A r \in Runs, s \in Steps :
            steps[r][s].history \in Seq(Attempt)
                /\ DOMAIN steps[r][s].history = 1..Len(steps[r][s].history)
    BY DEF TypeOK, StepRecord
  <2> QED
    BY <2>1 DEF TokenInv, TokenIdentifiesAttempt, ClaimInHistory, TokensRise
<1> QED
  BY <1>1, TypeCorrect, TokenInvariant, PTL

-----------------------------------------------------------------------------
(* Fields that ending and cancelling an attempt write *)

LEMMA EndAttemptFields ==
    ASSUME NEW s \in Steps, NEW rec \in StepRecord, NEW kind \in CompletionKinds,
           NEW output \in Outputs \cup {NoOutput}, NEW backoff \in Backoff,
           kind = "StepFallbackSelected" => Fallback[s] # NoTask
    PROVE  LET new == EndAttempt(s, rec, kind, output, backoff)
               falling == kind = "StepFallbackSelected"
           IN  /\ new.status = Announces[kind] /\ new.attempts = rec.attempts
               /\ new.output = output
               /\ new.fallbackUsed = (rec.fallbackUsed \/ falling)
               /\ new.task = IF falling THEN Fallback[s] ELSE rec.task
<1> DEFINE falling == kind = "StepFallbackSelected"
           st  == Announces[kind]
           mid == [rec EXCEPT !.status       = st,
                              !.output       = output,
                              !.fallbackUsed = @ \/ falling,
                              !.task         = IF falling THEN Fallback[s] ELSE @,
                              !.lease        = NoLease,
                              !.backoff      = backoff]
<1>1. st \in StepStatuses \ {"Absent"}
  BY DEF CompletionKinds, StepEventKinds, Announces, StepStatuses
<1>2. mid \in StepRecord
  BY <1>1, WorkflowAssumption DEF StepRecord
<1>3. /\ mid.status = st /\ mid.attempts = rec.attempts /\ mid.output = output
      /\ mid.task = IF falling THEN Fallback[s] ELSE rec.task
  BY DEF StepRecord
<1>4. mid.fallbackUsed = (rec.fallbackUsed \/ falling)
  BY DEF StepRecord
<1>5. EndAttempt(s, rec, kind, output, backoff) = CloseAttempt(mid, st)
  BY DEF EndAttempt
<1> HIDE DEF mid, st
<1>6. CloseAttempt(mid, st) = [mid EXCEPT !.history = CloseAttempt(mid, st).history]
  BY <1>1, <1>2, CloseAttemptType
<1>7. /\ CloseAttempt(mid, st).status = mid.status
      /\ CloseAttempt(mid, st).attempts = mid.attempts
      /\ CloseAttempt(mid, st).output = mid.output
      /\ CloseAttempt(mid, st).fallbackUsed = mid.fallbackUsed
      /\ CloseAttempt(mid, st).task = mid.task
  BY <1>2, <1>6 DEF StepRecord
<1> QED
  BY <1>3, <1>4, <1>5, <1>7 DEF st

LEMMA CancelStepFields ==
    ASSUME NEW rec \in StepRecord
    PROVE  LET new == CancelStep(rec)
           IN  /\ new = rec \/ new.status = "Cancelled"
               /\ rec.status \in {"Absent", "Succeeded", "Failed"} => new = rec
               /\ new.attempts = rec.attempts /\ new.fallbackUsed = rec.fallbackUsed
               /\ new.task = rec.task
<1> DEFINE closed == IF Last(rec.history).status = "Running"
                     THEN CloseAttempt(rec, "Cancelled") ELSE rec
           new    == [closed EXCEPT !.status = "Cancelled", !.lease = NoLease]
<1>1. "Cancelled" \in StepStatuses \ {"Absent"}
  BY DEF StepStatuses
<1>2. /\ closed \in StepRecord
      /\ closed.attempts = rec.attempts /\ closed.fallbackUsed = rec.fallbackUsed
      /\ closed.task = rec.task
  BY <1>1, CloseAttemptType DEF StepRecord
<1>3. /\ CancelStep(rec) = IF rec.status \in {"Absent", "Succeeded", "Failed"} THEN rec ELSE new
  BY DEF CancelStep
<1> HIDE DEF closed
<1>4. /\ new.status = "Cancelled" /\ new.attempts = closed.attempts
      /\ new.fallbackUsed = closed.fallbackUsed /\ new.task = closed.task
  BY <1>2 DEF StepRecord
<1> HIDE DEF new
<1> QED
  BY <1>2, <1>3, <1>4

-----------------------------------------------------------------------------
(* The budget of attempts *)

\* The claim whose lease a step holds is the one of its last attempt.
LEMMA HolderHasLastAttempt ==
    ASSUME IInv, TokenInv, NEW c \in claims, HoldsLease(c)
    PROVE  c.attempt = steps[c.run][c.step].attempts
<1> DEFINE rec == steps[c.run][c.step]
           h   == rec.history
           n   == rec.attempts
<1>1. /\ c.run \in Runs /\ c.step \in Steps /\ rec \in StepRecord
      /\ LeaseIsOpenAttempt(rec) /\ rec.status = "Running"
  BY HolderIsRunning
<1>2. /\ n = Len(h) /\ n > 0 /\ h[n].token = rec.lease.token /\ n \in Nat
  BY <1>1 DEF LeaseIsOpenAttempt, StepRecord
<1>3. rec.lease.token = c.token
  BY DEF HoldsLease
<1>4. c.attempt \in 1..n /\ h[c.attempt].token = c.token
  BY <1>2, ClaimFields DEF IInv, TokenInv, ClaimInHistory
<1>5. ~(c.attempt < n)
  <2> SUFFICES ASSUME c.attempt < n PROVE FALSE
    OBVIOUS
  <2>1. h[c.attempt].token < h[n].token
    <3>1. TokensRise(rec)
      BY <1>1 DEF TokenInv
    <3> HIDE DEF rec
    <3> QED
      BY <1>2, <1>4, <3>1 DEF TokensRise
  <2>2. h[n].token \in Nat
    BY <1>1, <1>2, AttemptTokens
  <2> QED
    BY <1>2, <1>3, <1>4, <2>1, <2>2
<1> QED
  BY <1>2, <1>4, <1>5

ClaimsOn(r, s) == {c \in claims : c.run = r /\ c.step = s}

\* A step record accounts for the claims on it: its task follows fallbackUsed,
\* which no claim had before it; the running attempt was claimed with it; and
\* when the budget is spent but a retry is due, the fallback was only just
\* selected, by an attempt of the primary.
BudgetKept(r, s) ==
    LET rec == steps[r][s]
    IN  /\ rec.task = IF rec.fallbackUsed THEN Fallback[s] ELSE Primary[s]
        /\ rec.status = "Absent" => rec.attempts = 0
        /\ \A c \in ClaimsOn(r, s) :
               /\ c.fallbackUsed => rec.fallbackUsed
               /\ rec.status = "Running" /\ c.attempt = rec.attempts =>
                      c.fallbackUsed = rec.fallbackUsed
               /\ rec.status = "Retrying" /\ rec.attempts = Budget(s) => ~c.fallbackUsed

BudgetInv == BudgetIsShared /\ \A r \in Runs, s \in Steps : BudgetKept(r, s)

LEMMA BudgetType ==
    ASSUME NEW s \in Steps PROVE Budget(s) \in Nat \ {0}
BY WorkflowAssumption DEF Budget

LEMMA InitBudget ==
    ASSUME Init PROVE BudgetInv
<1>1. \A r \in Runs, s \in Steps : steps[r][s] = NewStep(s)
  BY DEF Init
<1>2. \A s \in Steps : NewStep(s).task = Primary[s] /\ NewStep(s).attempts = 0
                       /\ ~NewStep(s).fallbackUsed
  BY DEF NewStep
<1>3. claims = {}
  BY DEF Init
<1> QED
  BY <1>1, <1>2, <1>3 DEF BudgetInv, BudgetIsShared, BudgetKept, ClaimsOn

\* An attempt that selects the fallback was the primary's, and one that is to
\* be retried with the primary's task leaves an attempt of the budget.
LEMMA EntitledToEnd ==
    ASSUME IInv, TokenInv, BudgetInv, NEW r \in Runs, NEW s \in Steps,
           steps[r][s].status = "Running", NEW kind, Entitled(r, s, steps[r][s], kind)
    PROVE  /\ kind = "StepRetrying" => steps[r][s].attempts < Budget(s)
           /\ kind = "StepFallbackSelected" => ~steps[r][s].fallbackUsed
<1> DEFINE rec == steps[r][s]
<1>1. CASE kind = RecoveryKind(s, rec)
  BY <1>1 DEF RecoveryKind
<1>2. ASSUME NEW c \in claims, NEW k \in StepCompletion, HoldsLease(c), c.run = r, c.step = s,
             k.kind = kind, CompletionMatchesClaim(k, c)
      PROVE  /\ kind = "StepRetrying" => rec.attempts < Budget(s)
             /\ kind = "StepFallbackSelected" => ~rec.fallbackUsed
  <2>1. c.attempt = rec.attempts
    BY <1>2, HolderHasLastAttempt
  <2>2. c.fallbackUsed = rec.fallbackUsed
    BY <1>2, <2>1 DEF BudgetInv, BudgetKept, ClaimsOn
  <2> QED
    BY <1>2, <2>1, <2>2 DEF CompletionMatchesClaim
<1> QED
  BY <1>1, <1>2 DEF Entitled

\* Steps that grant nothing keep the accounts of every record.
LEMMA KeptBudget ==
    ASSUME IInv, TokenInv, BudgetInv, UNCHANGED <<claims, nextLeaseToken>>,
           NEW r \in Runs, NEW s \in Steps, Changed(r, s)
    PROVE  BudgetKept(r, s)'
<1> DEFINE old == steps[r][s]
           new == steps'[r][s]
<1>1. old \in StepRecord /\ BudgetKept(r, s) /\ ClaimsOn(r, s)' = ClaimsOn(r, s)
  BY DEF IInv, TypeOK, BudgetInv, ClaimsOn
<1>2. CASE SameAttempt(old, new)
  BY <1>1, <1>2 DEF SameAttempt, BudgetKept
<1>3. CASE AttemptEnded(r, s, old, new)
  <2>1. PICK kind \in CompletionKinds, output \in Outputs \cup {NoOutput}, backoff \in Backoff :
            /\ new = EndAttempt(s, old, kind, output, backoff)
            /\ kind = "StepFallbackSelected" => Fallback[s] # NoTask
            /\ Entitled(r, s, old, kind)
    BY <1>3 DEF AttemptEnded
  <2>2. old.status = "Running"
    BY <1>3 DEF AttemptEnded
  <2>3. /\ kind = "StepRetrying" => old.attempts < Budget(s)
        /\ kind = "StepFallbackSelected" => ~old.fallbackUsed
    BY <2>1, <2>2, EntitledToEnd
  <2> DEFINE falling == kind = "StepFallbackSelected"
  <2>4. /\ new.status = Announces[kind] /\ new.attempts = old.attempts
        /\ new.fallbackUsed = (old.fallbackUsed \/ falling)
        /\ new.task = IF falling THEN Fallback[s] ELSE old.task
    <3> HIDE DEF new, old
    <3> QED
      BY <1>1, <2>1, EndAttemptFields
  <2>5. /\ new.status \in {"Retrying", "Succeeded", "Failed"}
        /\ new.status = "Retrying" => kind \in {"StepRetrying", "StepFallbackSelected"}
    BY <2>4 DEF Announces, CompletionKinds, StepEventKinds
  <2>6. old.attempts \in Nat /\ Budget(s) \in Nat
    BY <1>1, BudgetType DEF StepRecord
  <2>7. new.task = IF new.fallbackUsed THEN Fallback[s] ELSE Primary[s]
    BY <1>1, <2>4 DEF BudgetKept
  <2>8. ASSUME NEW c \in ClaimsOn(r, s)
        PROVE  /\ c.fallbackUsed => new.fallbackUsed
               /\ new.status = "Retrying" /\ new.attempts = Budget(s) => ~c.fallbackUsed
    <3>1. c.fallbackUsed => old.fallbackUsed
      BY <1>1 DEF BudgetKept
    <3>2. c.fallbackUsed => new.fallbackUsed
      BY <2>4, <3>1
    <3>3. ASSUME new.status = "Retrying", new.attempts = Budget(s) PROVE ~c.fallbackUsed
      <4>1. kind # "StepRetrying"
        BY <2>3, <2>4, <2>6, <3>3
      <4> QED
        BY <2>3, <2>5, <3>1, <3>3, <4>1
    <3> QED
      BY <3>2, <3>3
  <2> QED
    BY <1>1, <2>5, <2>7, <2>8 DEF BudgetKept
<1>4. CASE StepCancelled(old, new)
  <2>1. /\ new = old \/ new.status = "Cancelled"
        /\ new.attempts = old.attempts /\ new.fallbackUsed = old.fallbackUsed
        /\ new.task = old.task
    BY <1>1, <1>4, CancelStepFields DEF StepCancelled
  <2> QED
    BY <1>1, <2>1 DEF BudgetKept
<1> QED
  BY <1>2, <1>3, <1>4 DEF Changed

\* A grant is the next attempt: within the budget, or the one more that a
\* fallback gets, selected after the primary spent the budget.
LEMMA GrantedClaim ==
    ASSUME IInv, TokenInv, BudgetInv, NEW r \in Runs, NEW s \in Steps, NEW w \in Workers,
           ClaimStep(r, s, w)
    PROVE  BudgetInv'
<1> DEFINE rec == steps[r][s]
           n   == rec.attempts
           new == StartAttempt(rec, w, nextLeaseToken')
<1>1. /\ rec \in StepRecord /\ n \in Nat /\ Budget(s) \in Nat \ {0} /\ BudgetKept(r, s)
      /\ rec.fallbackUsed \in BOOLEAN
  BY BudgetType DEF IInv, TypeOK, StepRecord, BudgetInv
<1>2. Available(s, rec)
  BY DEF ClaimStep, NextClaimable, Claimable
<1>3. \/ n < Budget(s)
      \/ n = Budget(s) /\ rec.fallbackUsed /\ rec.status = "Retrying"
  BY <1>1, <1>2 DEF Available, BudgetKept
<1>4. /\ new.status = "Running" /\ new.attempts = n + 1 /\ new.task = rec.task
      /\ new.fallbackUsed = rec.fallbackUsed
  BY <1>1 DEF StartAttempt, StepRecord
<1>5. PICK c0 : /\ claims' = claims \cup {c0} /\ c0.run = r /\ c0.step = s
                /\ c0.task = rec.task /\ c0.attempt = n + 1
                /\ c0.fallbackUsed = rec.fallbackUsed
  <2> DEFINE c0 == [run |-> r, step |-> s, task |-> rec.task, worker |-> w,
                    token |-> nextLeaseToken', attempt |-> new.attempts,
                    fallbackUsed |-> rec.fallbackUsed,
                    input |-> [d \in Deps[s] |-> steps[r][d].output]]
  <2>1. claims' = claims \cup {c0}
    BY DEF ClaimStep
  <2> HIDE DEF new
  <2>2. c0.run = r /\ c0.step = s /\ c0.task = rec.task /\ c0.attempt = n + 1
        /\ c0.fallbackUsed = rec.fallbackUsed
    BY <1>4
  <2> QED
    BY <2>1, <2>2
<1>6. steps' = [steps EXCEPT ![r][s] = new]
  BY DEF ClaimStep
<1> HIDE DEF new
<1>7. /\ steps'[r][s] = new
      /\ \A q \in Runs, t \in Steps : (q # r \/ t # s) => steps'[q][t] = steps[q][t]
  BY <1>6 DEF IInv, TypeOK
<1>8. \A c \in ClaimsOn(r, s) : c.attempt \in Nat /\ c.attempt <= n
  BY ClaimFields DEF IInv, TokenInv, ClaimInHistory, ClaimsOn
<1>9. BudgetKept(r, s)'
  <2>1. ASSUME NEW c \in claims', c.run = r, c.step = s
        PROVE  /\ c.fallbackUsed => new.fallbackUsed
               /\ c.attempt = n + 1 => c.fallbackUsed = new.fallbackUsed
    <3>1. CASE c = c0
      BY <1>4, <1>5, <3>1
    <3>2. CASE c \in claims
      <4>1. c \in ClaimsOn(r, s)
        BY <2>1, <3>2 DEF ClaimsOn
      <4>2. c.attempt # n + 1
        BY <1>1, <1>8, <4>1
      <4> QED
        BY <1>1, <1>4, <4>1, <4>2 DEF BudgetKept
    <3> QED
      BY <1>5, <2>1, <3>1, <3>2
  <2>2. new.task = IF new.fallbackUsed THEN Fallback[s] ELSE Primary[s]
    BY <1>1, <1>4 DEF BudgetKept
  <2> QED
    BY <1>4, <1>7, <2>1, <2>2 DEF BudgetKept, ClaimsOn
<1>10. ASSUME NEW q \in Runs, NEW t \in Steps, q # r \/ t # s
       PROVE  BudgetKept(q, t)'
  <2>1. ClaimsOn(q, t)' = ClaimsOn(q, t)
    BY <1>5, <1>10 DEF ClaimsOn
  <2>2. steps'[q][t] = steps[q][t] /\ BudgetKept(q, t)
    BY <1>7, <1>10 DEF BudgetInv
  <2> QED
    BY <2>1, <2>2 DEF BudgetKept
<1> DEFINE Alone(c) == /\ c.task = (IF c.fallbackUsed THEN Fallback[c.step] ELSE Primary[c.step])
                       /\ c.attempt <= Budget(c.step) + 1
           Pair(c, d) == d.run = c.run /\ d.step = c.step /\ d.attempt < c.attempt =>
                            /\ d.fallbackUsed => c.fallbackUsed
                            /\ c.attempt > Budget(c.step) => c.fallbackUsed /\ ~d.fallbackUsed
<1>11. \A c \in claims : Alone(c) /\ \A d \in claims : Pair(c, d)
  BY DEF BudgetInv, BudgetIsShared
<1>12. Alone(c0)
  BY <1>1, <1>3, <1>5 DEF BudgetKept
<1>13. ASSUME NEW d \in claims PROVE Pair(c0, d) /\ Pair(d, c0)
  <2>1. CASE d.run = r /\ d.step = s
    <3>1. d \in ClaimsOn(r, s)
      BY <2>1 DEF ClaimsOn
    <3>2. d.fallbackUsed => c0.fallbackUsed
      BY <1>1, <1>5, <3>1 DEF BudgetKept
    <3>3. ASSUME c0.attempt > Budget(s) PROVE c0.fallbackUsed /\ ~d.fallbackUsed
      <4>1. n = Budget(s) /\ rec.fallbackUsed /\ rec.status = "Retrying"
        BY <1>1, <1>3, <1>5, <3>3
      <4> QED
        BY <1>1, <1>5, <3>1, <4>1 DEF BudgetKept
    <3>4. ~(c0.attempt < d.attempt)
      BY <1>1, <1>5, <1>8, <3>1
    <3> QED
      BY <1>5, <3>2, <3>3, <3>4
  <2>2. CASE d.run # r \/ d.step # s
    BY <1>5, <2>2
  <2> QED
    BY <2>1, <2>2
<1>14. Pair(c0, c0)
  <2>1. ~(c0.attempt < c0.attempt)
    BY <1>1, <1>5
  <2> QED
    BY <2>1
<1> HIDE DEF Alone, Pair
<1>15. \A c \in claims' : Alone(c) /\ \A d \in claims' : Pair(c, d)
  BY <1>5, <1>11, <1>12, <1>13, <1>14
<1>16. BudgetIsShared'
  BY <1>15 DEF BudgetIsShared, Alone, Pair
<1> QED
  BY <1>9, <1>10, <1>16 DEF BudgetInv

LEMMA NextBudget ==
    ASSUME IInv, TokenInv, BudgetInv, [Next]_vars PROVE BudgetInv'
<1>1. CASE \E r \in Runs, s \in Steps, w \in Workers : ClaimStep(r, s, w)
  BY <1>1, GrantedClaim
<1>2. CASE /\ UNCHANGED <<claims, nextLeaseToken>>
           /\ \A q \in Runs, t \in Steps : Changed(q, t)
  <2>1. BudgetIsShared'
    BY <1>2 DEF BudgetInv, BudgetIsShared
  <2> QED
    BY <1>2, <2>1, KeptBudget DEF BudgetInv
<1> QED
  BY <1>1, <1>2, NextChanges

\* The accounts of all records and claims, on top of leases and tokens.
THEOREM BudgetInvariant == Spec => []BudgetInv
<1>1. Init => BudgetInv
  BY InitBudget
<1>2. IInv /\ TokenInv /\ BudgetInv /\ [Next]_vars => BudgetInv'
  BY NextBudget
<1> QED
  BY <1>1, <1>2, InductiveInvariant, TokenInvariant, PTL DEF Spec

\* RetryPolicy's promise: primary and fallback share max_attempts, the one
\* attempt more belongs to a fallback that was selected when the primary had
\* spent it, and a fallback once selected is never left.
THEOREM BudgetsAreShared == Spec => []BudgetIsShared
<1>1. BudgetInv => BudgetIsShared
  BY DEF BudgetInv
<1> QED
  BY <1>1, BudgetInvariant, PTL

-----------------------------------------------------------------------------
(* The input of a claim *)

\* A succeeded step has an output.
SucceededHasOutput ==
    \A r \in Runs, s \in Steps :
        steps[r][s].status = "Succeeded" => steps[r][s].output # NoOutput

InputInv == ClaimInputIsStable /\ SucceededHasOutput

LEMMA InitInput ==
    ASSUME Init PROVE InputInv
<1>1. claims = {} /\ \A r \in Runs, s \in Steps : steps[r][s].status = "Absent"
  BY DEF Init, NewStep
<1> QED
  BY <1>1 DEF InputInv, ClaimInputIsStable, SucceededHasOutput

\* Only a running attempt ends, so a succeeded step stays as it is, and a step
\* that becomes Succeeded does so with the output of a StepSucceeded.
LEMMA ChangedOutput ==
    ASSUME IInv, InputInv, NEW r \in Runs, NEW s \in Steps, Changed(r, s)
    PROVE  /\ steps[r][s].status = "Succeeded" =>
                  steps'[r][s].status = "Succeeded" /\ steps'[r][s].output = steps[r][s].output
           /\ steps'[r][s].status = "Succeeded" => steps'[r][s].output # NoOutput
<1> DEFINE old == steps[r][s]
           new == steps'[r][s]
<1>1. old \in StepRecord /\ (old.status = "Succeeded" => old.output # NoOutput)
  BY DEF IInv, TypeOK, InputInv, SucceededHasOutput
<1>2. CASE SameAttempt(old, new)
  BY <1>1, <1>2 DEF SameAttempt
<1>3. CASE AttemptEnded(r, s, old, new)
  <2>1. PICK kind \in CompletionKinds, output \in Outputs \cup {NoOutput}, backoff \in Backoff :
            /\ new = EndAttempt(s, old, kind, output, backoff)
            /\ kind = "StepFallbackSelected" => Fallback[s] # NoTask
            /\ kind = "StepSucceeded" => output # NoOutput
    BY <1>3 DEF AttemptEnded
  <2>2. old.status = "Running"
    BY <1>3 DEF AttemptEnded
  <2>3. new.status = Announces[kind] /\ new.output = output
    <3> HIDE DEF new, old
    <3> QED
      BY <1>1, <2>1, EndAttemptFields
  <2>4. new.status = "Succeeded" => kind = "StepSucceeded"
    BY <2>3 DEF Announces, CompletionKinds, StepEventKinds
  <2> QED
    BY <2>1, <2>2, <2>3, <2>4
<1>4. CASE StepCancelled(old, new)
  <2>1. /\ new = old \/ new.status = "Cancelled"
        /\ old.status = "Succeeded" => new = old
    BY <1>1, <1>4, CancelStepFields DEF StepCancelled
  <2> QED
    BY <1>1, <2>1
<1> QED
  BY <1>2, <1>3, <1>4 DEF Changed

LEMMA InputDomain ==
    ASSUME TypeOK, NEW c \in claims, NEW d \in DOMAIN c.input
    PROVE  c.run \in Runs /\ d \in Steps
<1>1. c.input \in UNION {[D -> Outputs \cup {NoOutput}] : D \in SUBSET Steps}
  BY DEF TypeOK, StepClaim, ClaimOn
<1>2. PICK D \in SUBSET Steps : c.input \in [D -> Outputs \cup {NoOutput}]
  BY <1>1
<1> QED
  BY <1>2, ClaimFields

\* A grant hands out the outputs of succeeded steps, and starts another one.
LEMMA GrantedInput ==
    ASSUME IInv, InputInv, NEW r \in Runs, NEW s \in Steps, NEW w \in Workers,
           ClaimStep(r, s, w)
    PROVE  InputInv'
<1> DEFINE new   == StartAttempt(steps[r][s], w, nextLeaseToken')
           given == [d \in Deps[s] |-> steps[r][d].output]
<1>1. /\ steps[r][s].status # "Succeeded"
      /\ \A d \in Deps[s] : steps[r][d].status = "Succeeded"
  BY DEF ClaimStep, NextClaimable, Claimable, Available, Ready
<1>2. new.status = "Running" /\ steps' = [steps EXCEPT ![r][s] = new]
  BY DEF ClaimStep, IInv, TypeOK, StepRecord, StartAttempt
<1>3. PICK c0 : claims' = claims \cup {c0} /\ c0.run = r /\ c0.input = given
  <2> DEFINE c0 == [run |-> r, step |-> s, task |-> steps[r][s].task, worker |-> w,
                    token |-> nextLeaseToken', attempt |-> new.attempts,
                    fallbackUsed |-> steps[r][s].fallbackUsed, input |-> given]
  <2>1. claims' = claims \cup {c0}
    BY DEF ClaimStep
  <2> HIDE DEF new, given
  <2>2. c0.run = r /\ c0.input = given
    OBVIOUS
  <2> QED
    BY <2>1, <2>2
<1> HIDE DEF new
<1>4. /\ steps'[r][s].status = "Running"
      /\ \A q \in Runs, t \in Steps : (q # r \/ t # s) => steps'[q][t] = steps[q][t]
  BY <1>2 DEF IInv, TypeOK
<1>5. \A q \in Runs, t \in Steps :
          steps[q][t].status = "Succeeded" => steps'[q][t] = steps[q][t]
  BY <1>1, <1>4
<1>6. SucceededHasOutput'
  BY <1>4 DEF InputInv, SucceededHasOutput
<1>7. ASSUME NEW c \in claims', NEW d \in DOMAIN c.input
      PROVE  /\ steps'[c.run][d].status = "Succeeded"
             /\ steps'[c.run][d].output = c.input[d]
             /\ c.input[d] # NoOutput
  <2>1. CASE c = c0
    <3>1. d \in Deps[s] /\ d \in Steps /\ c.input[d] = steps[r][d].output /\ c.run = r
      BY <1>3, <1>7, <2>1, WorkflowAssumption
    <3> QED
      BY <1>1, <1>5, <3>1 DEF InputInv, SucceededHasOutput
  <2>2. CASE c \in claims
    <3>1. /\ c.run \in Runs /\ d \in Steps
          /\ steps[c.run][d].status = "Succeeded" /\ steps[c.run][d].output = c.input[d]
          /\ c.input[d] # NoOutput
      BY <1>7, <2>2, InputDomain DEF IInv, InputInv, ClaimInputIsStable
    <3> QED
      BY <1>5, <3>1
  <2> QED
    BY <1>3, <1>7, <2>1, <2>2
<1> QED
  BY <1>6, <1>7 DEF InputInv, ClaimInputIsStable

LEMMA NextInput ==
    ASSUME IInv, InputInv, [Next]_vars PROVE InputInv'
<1>1. CASE \E r \in Runs, s \in Steps, w \in Workers : ClaimStep(r, s, w)
  BY <1>1, GrantedInput
<1>2. CASE /\ UNCHANGED <<claims, nextLeaseToken>>
           /\ \A q \in Runs, t \in Steps : Changed(q, t)
  <2>1. SucceededHasOutput'
    BY <1>2, ChangedOutput DEF SucceededHasOutput
  <2>2. ASSUME NEW c \in claims, NEW d \in DOMAIN c.input
        PROVE  /\ steps'[c.run][d].status = "Succeeded"
               /\ steps'[c.run][d].output = c.input[d]
               /\ c.input[d] # NoOutput
    <3>1. /\ c.run \in Runs /\ d \in Steps
          /\ steps[c.run][d].status = "Succeeded" /\ steps[c.run][d].output = c.input[d]
          /\ c.input[d] # NoOutput
      BY <2>2, InputDomain DEF IInv, InputInv, ClaimInputIsStable
    <3> QED
      BY <1>2, <3>1, ChangedOutput
  <2> QED
    BY <1>2, <2>1, <2>2 DEF InputInv, ClaimInputIsStable
<1> QED
  BY <1>1, <1>2, NextChanges

\* StepClaim's promise that "a retry or recovery cannot observe a different
\* dependency graph": the outputs a claim was given are still what its
\* dependencies hold, whatever happened since.
THEOREM ClaimInputsAreStable == Spec => []ClaimInputIsStable
<1>1. Init => InputInv
  BY InitInput
<1>2. IInv /\ InputInv /\ [Next]_vars => InputInv'
  BY NextInput
<1>3. InputInv => ClaimInputIsStable
  BY DEF InputInv
<1> QED
  BY <1>1, <1>2, <1>3, InductiveInvariant, PTL DEF Spec

-----------------------------------------------------------------------------
(* The ledger of one step record *)

Closed(h) == {m \in DOMAIN h : h[m].status # "Running"}
Outcome(a) == [token |-> a.token, outcome |-> a.status]
LedgerOf(rec) == {Outcome(rec.history[n]) : n \in Closed(rec.history)}
VerdictOf(rec) == IF rec.status \in Settled THEN rec.status ELSE "Open"

\* Histories whose attempts agree one by one give the same ledger.
LEMMA SameHistorySameLedger ==
    ASSUME NEW a, NEW b, DOMAIN a.history = DOMAIN b.history,
           \A i \in DOMAIN a.history : a.history[i] = b.history[i]
    PROVE  LedgerOf(a) = LedgerOf(b)
BY DEF LedgerOf, Closed, Outcome

\* Closing the leased attempt enters its outcome under the lease's token.
LEMMA CloseEntersOutcome ==
    ASSUME NEW rec \in StepRecord, LeaseIsOpenAttempt(rec), rec.status = "Running",
           NEW st \in StepStatuses \ {"Absent", "Running"},
           NEW new, new.history = CloseAttempt(rec, st).history
    PROVE  LedgerOf(new) = LedgerOf(rec) \cup {[token |-> rec.lease.token, outcome |-> st]}
<1> DEFINE h == rec.history
           g == new.history
           n == Len(h)
           entry == [token |-> rec.lease.token, outcome |-> st]
<1>1. /\ h \in Seq(Attempt) /\ n \in Nat /\ n > 0 /\ DOMAIN h = 1..n
      /\ h[n].status = "Running" /\ h[n].token = rec.lease.token
      /\ \A i \in 1..n : h[i].status = "Running" => i = n
  BY DEF LeaseIsOpenAttempt, StepRecord
<1>2. /\ g \in Seq(Attempt) /\ Len(g) = n
      /\ \A i \in 1..n : g[i] = IF i = n THEN [h[i] EXCEPT !.status = st] ELSE h[i]
  BY CloseAttemptHistory
<1>3. DOMAIN g = 1..n
  BY <1>2
<1>4. h[n] \in Attempt /\ n \in 1..n
  BY <1>1
<1>5. g[n].status = st /\ g[n].token = rec.lease.token
  BY <1>1, <1>2, <1>4 DEF Attempt
<1>6. \A i \in 1..n : i # n => g[i] = h[i]
  BY <1>2
<1> HIDE DEF g, h, n
<1>7. Closed(h) = (1..n) \ {n}
  BY <1>1 DEF Closed
<1>8. Closed(g) = 1..n
  BY <1>1, <1>3, <1>5, <1>6 DEF Closed
<1>9. Outcome(g[n]) = entry
  BY <1>5 DEF Outcome
<1>10. {Outcome(g[i]) : i \in 1..n} = {Outcome(h[i]) : i \in (1..n) \ {n}} \cup {entry}
  BY <1>4, <1>6, <1>9
<1> QED
  BY <1>7, <1>8, <1>10 DEF LedgerOf, g, h

\* Cancelling a step that nobody holds enters nothing.
LEMMA CancelUnheldEntersNothing ==
    ASSUME NEW rec \in StepRecord, LeaseIsOpenAttempt(rec), rec.status # "Running"
    PROVE  LedgerOf(CancelStep(rec)) = LedgerOf(rec)
<1> DEFINE h      == rec.history
           n      == Len(h)
           closed == IF Last(h).status = "Running" THEN CloseAttempt(rec, "Cancelled") ELSE rec
           new    == [closed EXCEPT !.status = "Cancelled", !.lease = NoLease]
<1>1. /\ h \in Seq(Attempt) /\ n \in Nat /\ DOMAIN h = 1..n
      /\ \A i \in 1..n : h[i].status # "Running"
  BY DEF LeaseIsOpenAttempt, StepRecord
<1>2. "Cancelled" \in StepStatuses \ {"Absent"}
  BY DEF StepStatuses
<1>3. closed \in StepRecord /\ DOMAIN closed.history = 1..n
      /\ \A i \in 1..n : closed.history[i] = h[i]
  <2>1. CASE Last(h).status = "Running"
    <3>1. n = 0
      BY <1>1, <2>1 DEF Last
    <3>2. closed = CloseAttempt(rec, "Cancelled") /\ closed \in StepRecord
      BY <1>2, <2>1, CloseAttemptType
    <3>3. closed.history \in Seq(Attempt) /\ Len(closed.history) = n
      BY <1>2, <3>2, CloseAttemptHistory
    <3> QED
      BY <3>1, <3>2, <3>3
  <2>2. CASE Last(h).status # "Running"
    BY <1>1, <2>2
  <2> QED
    BY <2>1, <2>2
<1> HIDE DEF closed
<1>4. new.history = closed.history
  BY <1>3 DEF StepRecord
<1>5. LedgerOf(new) = LedgerOf(rec)
  <2> HIDE DEF new
  <2> QED
    BY <1>1, <1>3, <1>4, SameHistorySameLedger
<1>6. CancelStep(rec) = rec \/ CancelStep(rec) = new
  BY DEF CancelStep, closed
<1> QED
  BY <1>5, <1>6

-----------------------------------------------------------------------------
(* What each change of a record is to the ledger *)

\* The part of StepLedger's Resolve that concerns one item.
Resolved(old, new) ==
    /\ old.status \in {"Running", "Retrying"}
    /\ new.status \in Settled \cup {"Retrying"}
    /\ new.lease.token = 0
    /\ old.status = "Retrying" => new.status = "Cancelled"
    /\ LedgerOf(new) = IF old.status = "Running"
                       THEN LedgerOf(old) \cup {[token |-> old.lease.token, outcome |-> new.status]}
                       ELSE LedgerOf(old)

\* A lease's token is positive, the absent lease's is 0.
LEMMA HeldToken ==
    ASSUME NEW rec \in StepRecord, LeaseIsOpenAttempt(rec)
    PROVE  /\ rec.status = "Running" => rec.lease.token \in Nat \ {0}
           /\ rec.status # "Running" => rec.lease.token = 0
BY DEF LeaseIsOpenAttempt, StepRecord, Lease, NoLease

LEMMA ChangedLedger ==
    ASSUME IInv, IInv', NEW r \in Runs, NEW s \in Steps, Changed(r, s)
    PROVE  IF steps'[r][s].status = steps[r][s].status
           THEN /\ steps'[r][s].lease.token = steps[r][s].lease.token
                /\ LedgerOf(steps'[r][s]) = LedgerOf(steps[r][s])
           ELSE Resolved(steps[r][s], steps'[r][s])
<1> DEFINE old == steps[r][s]
           new == steps'[r][s]
           Goal == IF new.status = old.status
                   THEN new.lease.token = old.lease.token /\ LedgerOf(new) = LedgerOf(old)
                   ELSE Resolved(old, new)
<1>1. old \in StepRecord /\ LeaseIsOpenAttempt(old) /\ new \in StepRecord /\ LeaseIsOpenAttempt(new)
  BY DEF IInv, TypeOK, LeaseMatchesOpenAttempt
<1>2. CASE SameAttempt(old, new)
  <2>1. new.status = old.status /\ new.history = old.history
        /\ new.lease.token = old.lease.token
    BY <1>2 DEF SameAttempt
  <2> QED
    BY <2>1 DEF LedgerOf
<1>3. CASE AttemptEnded(r, s, old, new)
  <2>1. PICK kind \in CompletionKinds, output \in Outputs \cup {NoOutput}, backoff \in Backoff :
            /\ new = EndAttempt(s, old, kind, output, backoff)
            /\ kind = "StepFallbackSelected" => Fallback[s] # NoTask
    BY <1>3 DEF AttemptEnded
  <2>2. old.status = "Running"
    BY <1>3 DEF AttemptEnded
  <2> HIDE DEF old, new
  <2>3. /\ new.status \in {"Retrying", "Succeeded", "Failed"} /\ new.lease = NoLease
        /\ new.history = CloseAttempt(old, new.status).history
    BY <1>1, <2>1, EndAttemptType
  <2>4. new.status \in StepStatuses \ {"Absent", "Running"}
    BY <2>3 DEF StepStatuses
  <2>5. LedgerOf(new) = LedgerOf(old) \cup {[token |-> old.lease.token, outcome |-> new.status]}
    BY <1>1, <2>2, <2>3, <2>4, CloseEntersOutcome
  <2>6. new.status # old.status /\ Resolved(old, new)
    BY <2>2, <2>3, <2>5 DEF Resolved, Settled, NoLease
  <2> QED
    BY <2>6 DEF old, new
<1>4. CASE StepCancelled(old, new)
  <2>1. /\ old.status \in {"Absent", "Succeeded", "Failed"} => new = old
        /\ old.status \notin {"Absent", "Succeeded", "Failed"} => new.status = "Cancelled"
    BY <1>1, <1>4, CancelStepFenced DEF StepCancelled
  <2>2. new = CancelStep(old)
    BY <1>4 DEF StepCancelled
  <2> HIDE DEF old, new
  <2>3. ASSUME old.status \in {"Absent", "Succeeded", "Failed"} PROVE Goal
    BY <2>1, <2>3
  <2>4. ASSUME old.status = "Cancelled" PROVE Goal
    <3>1. new.lease.token = 0 /\ old.lease.token = 0 /\ new.status = old.status
      BY <1>1, <2>1, <2>4, HeldToken
    <3> QED
      BY <1>1, <2>2, <2>4, <3>1, CancelUnheldEntersNothing
  <2>5. ASSUME old.status = "Retrying" PROVE Goal
    <3>1. new.status = "Cancelled" /\ new.lease.token = 0
      BY <1>1, <2>1, <2>5, HeldToken
    <3>2. LedgerOf(new) = LedgerOf(old)
      BY <1>1, <2>2, <2>5, CancelUnheldEntersNothing
    <3> QED
      BY <2>5, <3>1, <3>2 DEF Resolved, Settled
  <2>6. ASSUME old.status = "Running" PROVE Goal
    <3>1. new.status = "Cancelled" /\ new.lease.token = 0
      BY <1>1, <2>1, <2>6, HeldToken
    <3>2. Last(old.history).status = "Running"
      BY <1>1, <2>6 DEF LeaseIsOpenAttempt, Last
    <3>3. "Cancelled" \in StepStatuses \ {"Absent", "Running"}
      BY DEF StepStatuses
    <3>4. CloseAttempt(old, "Cancelled") \in StepRecord
      BY <1>1, <3>3, CloseAttemptType
    <3> DEFINE closed == CloseAttempt(old, "Cancelled")
    <3>5. new = [closed EXCEPT !.status = "Cancelled", !.lease = NoLease]
      BY <2>2, <2>6, <3>2 DEF CancelStep
    <3> HIDE DEF closed
    <3>6. new.history = closed.history
      BY <3>4, <3>5 DEF closed, StepRecord
    <3>7. LedgerOf(new) = LedgerOf(old) \cup {[token |-> old.lease.token, outcome |-> "Cancelled"]}
      BY <1>1, <2>6, <3>3, <3>6, CloseEntersOutcome DEF closed
    <3> QED
      BY <2>6, <3>1, <3>7 DEF Resolved, Settled
  <2>7. old.status \in StepStatuses
    BY <1>1 DEF StepRecord
  <2>8. Goal
    BY <2>3, <2>4, <2>5, <2>6, <2>7 DEF StepStatuses
  <2> QED
    BY <2>8 DEF old, new
<1> QED
  BY <1>2, <1>3, <1>4 DEF Changed

-----------------------------------------------------------------------------
(* Refinement *)

\* The mapping of RunRepository's instance, item by item.
MappedHolder  == [i \in Items |-> steps[i[1]][i[2]].lease.token]
MappedVerdict == [i \in Items |-> VerdictOf(steps[i[1]][i[2]])]
MappedLedger  == [i \in Items |-> LedgerOf(steps[i[1]][i[2]])]

LEMMA InitLedger ==
    ASSUME Init PROVE Ledger!Init
<1>1. ASSUME NEW i \in Items
      PROVE  /\ steps[i[1]][i[2]].lease.token = 0 /\ steps[i[1]][i[2]].status = "Absent"
             /\ steps[i[1]][i[2]].history = <<>>
  BY DEF Init, NewStep, NoLease, Items
<1>2. MappedHolder = [i \in Items |-> 0]
  BY <1>1 DEF MappedHolder
<1>3. MappedVerdict = [i \in Items |-> "Open"]
  BY <1>1 DEF MappedVerdict, VerdictOf, Settled
<1>4. MappedLedger = [i \in Items |-> {}]
  BY <1>1 DEF MappedLedger, LedgerOf, Closed
<1>5. nextLeaseToken = 0
  BY DEF Init
<1> QED
  BY <1>2, <1>3, <1>4, <1>5
  DEF Ledger!Init, MappedHolder, MappedVerdict, MappedLedger, VerdictOf, LedgerOf, Closed, Outcome

\* A claim is a grant of its step under the next token.
LEMMA ClaimGrants ==
    ASSUME IInv, NEW r \in Runs, NEW s \in Steps, NEW w \in Workers, ClaimStep(r, s, w)
    PROVE  /\ <<r, s>> \in Items
           /\ MappedHolder[<<r, s>>] = 0 /\ MappedVerdict[<<r, s>>] = "Open"
           /\ nextLeaseToken' = nextLeaseToken + 1
           /\ MappedHolder' = [MappedHolder EXCEPT ![<<r, s>>] = nextLeaseToken']
           /\ MappedVerdict' = MappedVerdict /\ MappedLedger' = MappedLedger
<1> DEFINE rec == steps[r][s]
           h   == rec.history
           n   == Len(h)
           token == nextLeaseToken'
           e   == [number |-> rec.attempts + 1, worker |-> w, token |-> token,
                   status |-> "Running"]
           new == StartAttempt(rec, w, token)
<1>1. rec \in StepRecord /\ LeaseIsOpenAttempt(rec) /\ rec.status \in {"Absent", "Retrying"}
  BY DEF IInv, TypeOK, LeaseMatchesOpenAttempt, ClaimStep, NextClaimable, Claimable, Available
<1>2. /\ nextLeaseToken \in Nat /\ token = nextLeaseToken + 1
      /\ steps' = [steps EXCEPT ![r][s] = new]
  BY DEF ClaimStep, IInv, TypeOK
<1>3. rec.lease.token = 0
  BY <1>1, HeldToken
<1>4. h \in Seq(Attempt) /\ n \in Nat /\ e \in Attempt
  BY <1>1, <1>2 DEF StepRecord, Attempt, StepStatuses
<1>5. new.status = "Running" /\ new.lease.token = token /\ new.history = Append(h, e)
  BY <1>1 DEF StartAttempt, StepRecord
<1>6. LedgerOf(new) = LedgerOf(rec)
  <2> DEFINE g == Append(h, e)
  <2>1. e.status = "Running"
    OBVIOUS
  <2> HIDE DEF e, h
  <2>2. DOMAIN g = 1..(n + 1) /\ DOMAIN h = 1..n /\ g[n + 1] = e
        /\ \A i \in 1..n : g[i] = h[i]
    BY <1>4
  <2> HIDE DEF g, n
  <2>3. Closed(g) = Closed(h) /\ \A i \in Closed(h) : g[i] = h[i]
    BY <1>4, <2>1, <2>2 DEF Closed
  <2> QED
    BY <1>5, <2>3 DEF LedgerOf, g, h
<1> HIDE DEF new
<1>7. /\ steps'[r][s] = new
      /\ \A q \in Runs, t \in Steps : (q # r \/ t # s) => steps'[q][t] = steps[q][t]
  BY <1>2 DEF IInv, TypeOK
<1>8. <<r, s>> \in Items /\ \A i \in Items :
          /\ i = <<i[1], i[2]>> /\ i[1] \in Runs /\ i[2] \in Steps
  BY DEF Items
<1>9. \A i \in Items : i # <<r, s>> => steps'[i[1]][i[2]] = steps[i[1]][i[2]]
  BY <1>7, <1>8
<1>10. MappedHolder[<<r, s>>] = 0 /\ MappedVerdict[<<r, s>>] = "Open"
  BY <1>1, <1>3, <1>8 DEF MappedHolder, MappedVerdict, VerdictOf, Settled
<1>11. MappedHolder' = [MappedHolder EXCEPT ![<<r, s>>] = token]
  <2>1. \A i \in Items : steps'[i[1]][i[2]].lease.token =
            IF i = <<r, s>> THEN token ELSE steps[i[1]][i[2]].lease.token
    BY <1>5, <1>7, <1>9
  <2> HIDE DEF token
  <2> QED
    BY <2>1 DEF MappedHolder
<1>12. MappedVerdict' = MappedVerdict
  <2>1. \A i \in Items : VerdictOf(steps'[i[1]][i[2]]) = VerdictOf(steps[i[1]][i[2]])
    <3>1. VerdictOf(new) = "Open" /\ VerdictOf(rec) = "Open"
      BY <1>1, <1>5 DEF VerdictOf, Settled
    <3> QED
      BY <1>7, <1>9, <3>1
  <2> QED
    BY <2>1 DEF MappedVerdict
<1>13. MappedLedger' = MappedLedger
  <2>1. \A i \in Items : LedgerOf(steps'[i[1]][i[2]]) = LedgerOf(steps[i[1]][i[2]])
    BY <1>6, <1>7, <1>9
  <2> QED
    BY <2>1 DEF MappedLedger
<1> QED
  BY <1>2, <1>8, <1>10, <1>11, <1>12, <1>13

\* The items a step resolves, and how.
ChangedItems == {i \in Items : steps'[i[1]][i[2]].status # steps[i[1]][i[2]].status}
NewStatus    == [i \in ChangedItems |-> steps'[i[1]][i[2]].status]

\* Any other step resolves the items whose status it changes, and no more.
LEMMA ChangesResolve ==
    ASSUME IInv, IInv', nextLeaseToken' = nextLeaseToken,
           \A q \in Runs, t \in Steps : Changed(q, t)
    PROVE  /\ NewStatus \in [ChangedItems -> Settled \cup {"Retrying"}]
           /\ \A i \in ChangedItems : /\ MappedVerdict[i] = "Open"
                                      /\ MappedHolder[i] = 0 => NewStatus[i] = "Cancelled"
           /\ MappedHolder' = [i \in Items |-> IF i \in ChangedItems THEN 0 ELSE MappedHolder[i]]
           /\ MappedVerdict' = [i \in Items |->
                  IF i \in ChangedItems /\ NewStatus[i] \in Settled
                  THEN NewStatus[i] ELSE MappedVerdict[i]]
           /\ MappedLedger' = [i \in Items |->
                  IF i \in ChangedItems /\ MappedHolder[i] # 0
                  THEN MappedLedger[i] \cup {[token |-> MappedHolder[i], outcome |-> NewStatus[i]]}
                  ELSE MappedLedger[i]]
<1> DEFINE old(i) == steps[i[1]][i[2]]
           new(i) == steps'[i[1]][i[2]]
           S == ChangedItems
           outcome == NewStatus
<1>1. ASSUME NEW i \in Items
      PROVE  /\ old(i) \in StepRecord /\ LeaseIsOpenAttempt(old(i))
             /\ i \notin S => /\ new(i).status = old(i).status
                             /\ new(i).lease.token = old(i).lease.token
                             /\ LedgerOf(new(i)) = LedgerOf(old(i))
             /\ i \in S => Resolved(old(i), new(i))
  <2>1. i[1] \in Runs /\ i[2] \in Steps
    BY DEF Items
  <2>2. old(i) \in StepRecord /\ LeaseIsOpenAttempt(old(i))
    BY <2>1 DEF IInv, TypeOK, LeaseMatchesOpenAttempt
  <2>3. IF new(i).status = old(i).status
        THEN new(i).lease.token = old(i).lease.token /\ LedgerOf(new(i)) = LedgerOf(old(i))
        ELSE Resolved(old(i), new(i))
    BY <2>1, ChangedLedger
  <2> QED
    BY <2>2, <2>3 DEF ChangedItems
<1>2. /\ \A i \in S : i \in Items /\ outcome[i] = new(i).status
      /\ outcome = [i \in S |-> new(i).status]
  BY DEF ChangedItems, NewStatus
<1>3. /\ MappedHolder = [i \in Items |-> old(i).lease.token]
      /\ MappedHolder' = [i \in Items |-> new(i).lease.token]
      /\ MappedVerdict = [i \in Items |-> VerdictOf(old(i))]
      /\ MappedVerdict' = [i \in Items |-> VerdictOf(new(i))]
      /\ MappedLedger = [i \in Items |-> LedgerOf(old(i))]
      /\ MappedLedger' = [i \in Items |-> LedgerOf(new(i))]
  BY DEF MappedHolder, MappedVerdict, MappedLedger
<1>4. outcome \in [S -> Settled \cup {"Retrying"}]
  BY <1>1, <1>2 DEF Resolved
<1>5. ASSUME NEW i \in Items
      PROVE  old(i).lease.token = 0 <=> old(i).status # "Running"
  BY <1>1, HeldToken
<1> HIDE DEF old, new
<1>6. \A i \in S : /\ MappedVerdict[i] = "Open"
                   /\ MappedHolder[i] = 0 => outcome[i] = "Cancelled"
  BY <1>1, <1>2, <1>3, <1>5 DEF Resolved, VerdictOf, Settled
<1>7. MappedHolder' = [i \in Items |-> IF i \in S THEN 0 ELSE MappedHolder[i]]
  BY <1>1, <1>3 DEF Resolved
<1>8. MappedVerdict' = [i \in Items |->
          IF i \in S /\ outcome[i] \in Settled THEN outcome[i] ELSE MappedVerdict[i]]
  <2>1. ASSUME NEW i \in Items
        PROVE  VerdictOf(new(i)) = IF i \in S /\ outcome[i] \in Settled THEN outcome[i]
                                   ELSE VerdictOf(old(i))
    <3>1. CASE i \in S
      BY <1>1, <1>2, <3>1 DEF Resolved, VerdictOf, Settled
    <3>2. CASE i \notin S
      BY <1>1, <3>2 DEF VerdictOf
    <3> QED
      BY <3>1, <3>2
  <2> QED
    BY <1>3, <2>1
<1>9. MappedLedger' = [i \in Items |->
          IF i \in S /\ MappedHolder[i] # 0
          THEN MappedLedger[i] \cup {[token |-> MappedHolder[i], outcome |-> outcome[i]]}
          ELSE MappedLedger[i]]
  <2>1. ASSUME NEW i \in Items
        PROVE  LedgerOf(new(i)) =
                   IF i \in S /\ old(i).lease.token # 0
                   THEN LedgerOf(old(i)) \cup {[token |-> old(i).lease.token, outcome |-> outcome[i]]}
                   ELSE LedgerOf(old(i))
    <3>1. CASE i \in S
      BY <1>1, <1>2, <1>5, <3>1 DEF Resolved
    <3>2. CASE i \notin S
      BY <1>1, <3>2
    <3> QED
      BY <3>1, <3>2
  <2> QED
    BY <1>3, <2>1
<1> QED
  BY <1>4, <1>6, <1>7, <1>8, <1>9

LEMMA NextLedger ==
    ASSUME IInv, [Next]_vars PROVE [Ledger!Next]_(Ledger!ledgerVars)
<1>1. IInv'
  BY NextIInv
<1>2. /\ MappedVerdict = [i \in Items |-> IF steps[i[1]][i[2]].status \in Settled
                                         THEN steps[i[1]][i[2]].status ELSE "Open"]
      /\ MappedHolder = [i \in Items |-> steps[i[1]][i[2]].lease.token]
      /\ MappedLedger = [i \in Items |->
             {[token |-> steps[i[1]][i[2]].history[n].token,
               outcome |-> steps[i[1]][i[2]].history[n].status] :
                 n \in {m \in DOMAIN steps[i[1]][i[2]].history :
                            steps[i[1]][i[2]].history[m].status # "Running"}}]
  BY DEF MappedVerdict, MappedHolder, MappedLedger, VerdictOf, LedgerOf, Closed, Outcome
<1>3. CASE \E r \in Runs, s \in Steps, w \in Workers : ClaimStep(r, s, w)
  <2>1. PICK r \in Runs, s \in Steps, w \in Workers : ClaimStep(r, s, w)
    BY <1>3
  <2>2. Ledger!Grant(<<r, s>>)
    BY <2>1, ClaimGrants
    DEF Ledger!Grant, MappedVerdict, MappedHolder, MappedLedger, VerdictOf, LedgerOf, Closed, Outcome
  <2> QED
    BY <2>1, <2>2, ClaimGrants DEF Ledger!Next
<1>4. CASE UNCHANGED <<claims, nextLeaseToken>> /\ \A q \in Runs, t \in Steps : Changed(q, t)
  <2>1. CASE ChangedItems = {}
    <3>1. UNCHANGED <<MappedHolder, MappedVerdict, nextLeaseToken, MappedLedger>>
      BY <1>1, <1>4, <2>1, ChangesResolve DEF MappedHolder, MappedVerdict, MappedLedger
    <3> QED
      BY <3>1 DEF Ledger!ledgerVars, MappedVerdict, MappedHolder, MappedLedger, VerdictOf,
                  LedgerOf, Closed, Outcome
  <2>2. CASE ChangedItems # {}
    <3>1. ChangedItems \in SUBSET Items /\ NewStatus \in [ChangedItems -> Ledger!Outcomes]
      BY <1>1, <1>4, ChangesResolve DEF ChangedItems, Ledger!Outcomes, Ledger!Verdicts, Settled
    <3>2. PICK S \in SUBSET Items : S = ChangedItems
      BY <3>1
    <3>3. PICK outcome \in [S -> Ledger!Outcomes] : outcome = NewStatus
      BY <3>1, <3>2
    <3>4. /\ S # {} /\ nextLeaseToken' = nextLeaseToken
          /\ \A i \in S : /\ MappedVerdict[i] = "Open"
                          /\ MappedHolder[i] = 0 => outcome[i] = "Cancelled"
          /\ MappedHolder' = [i \in Items |-> IF i \in S THEN 0 ELSE MappedHolder[i]]
          /\ MappedVerdict' = [i \in Items |->
                 IF i \in S /\ outcome[i] \in Settled THEN outcome[i] ELSE MappedVerdict[i]]
          /\ MappedLedger' = [i \in Items |->
                 IF i \in S /\ MappedHolder[i] # 0
                 THEN MappedLedger[i] \cup {[token |-> MappedHolder[i], outcome |-> outcome[i]]}
                 ELSE MappedLedger[i]]
      BY <1>1, <1>4, <2>2, <3>2, <3>3, ChangesResolve
    <3>5. Ledger!Resolve(S, outcome)
      BY <3>4 DEF Ledger!Resolve, Ledger!Verdicts, Settled, MappedVerdict, MappedHolder,
                  MappedLedger, VerdictOf, LedgerOf, Closed, Outcome
    <3> QED
      BY <3>5 DEF Ledger!Next
  <2> QED
    BY <2>1, <2>2
<1> QED
  BY <1>3, <1>4, NextChanges

\* The repository implements the ledger: leases are exclusive, each token gets
\* at most one outcome and keeps it, and a verdict on a step is final.
THEOREM ImplementsLedger == Spec => LedgerSpec
<1>1. Init => Ledger!Init
  BY InitLedger
<1>2. IInv /\ [Next]_vars => [Ledger!Next]_(Ledger!ledgerVars)
  BY NextLedger
<1> QED
  BY <1>1, <1>2, InductiveInvariant, PTL DEF Spec, LedgerSpec, Ledger!Spec

-----------------------------------------------------------------------------
(* How a step of the repository extends the logs *)

\* The positions a step adds to a log, and the events it puts there.
Fresh(r)     == (Len(log[r]) + 1)..Len(log'[r])
NewEvents(r) == {log'[r][i].event : i \in Fresh(r)}

KeepsLog(r) ==
    /\ Len(log[r]) <= Len(log'[r])
    /\ \A i \in 1..Len(log[r]) : log'[r][i] = log[r][i]

\* New envelopes of one run rise, above all sequence numbers in use, and tell
\* different events.
FreshRise(r) ==
    \A i \in Fresh(r) :
        /\ nextEventSequence < log'[r][i].sequence
        /\ log'[r][i].sequence <= nextEventSequence'
        /\ \A j \in Fresh(r) : i < j => /\ log'[r][i].sequence < log'[r][j].sequence
                                        /\ log'[r][i].event # log'[r][j].event

FreshApart(r, q) ==
    \A i \in Fresh(r), j \in Fresh(q) : log'[r][i].sequence # log'[q][j].sequence

LogsGrow ==
    /\ nextEventSequence <= nextEventSequence'
    /\ \A r \in Runs : KeepsLog(r) /\ FreshRise(r)
    /\ \A r \in Runs : \A q \in Runs \ {r} : FreshApart(r, q)

LEMMA QuietLogs ==
    ASSUME TypeOK, UNCHANGED <<log, nextEventSequence>>
    PROVE  LogsGrow /\ \A r \in Runs : NewEvents(r) = {}
<1>1. \A r \in Runs : Len(log[r]) \in Nat
  BY DEF TypeOK
<1>2. \A r \in Runs : Fresh(r) = {}
  BY <1>1 DEF Fresh
<1>3. \A r \in Runs : KeepsLog(r) /\ FreshRise(r)
  BY <1>1, <1>2 DEF KeepsLog, FreshRise
<1>4. nextEventSequence <= nextEventSequence'
  BY DEF TypeOK
<1> QED
  BY <1>2, <1>3, <1>4 DEF LogsGrow, FreshApart, NewEvents

LEMMA AppendedLogs ==
    ASSUME TypeOK, NEW r \in Runs, NEW e, AppendEvent(r, e)
    PROVE  LogsGrow /\ \A q \in Runs : NewEvents(q) = IF q = r THEN {e} ELSE {}
<1> DEFINE envelope == [sequence |-> nextEventSequence', event |-> e]
           n == Len(log[r])
<1>1. /\ log[r] \in Seq(EventEnvelope) /\ log'[r] = Append(log[r], envelope)
      /\ \A q \in Runs \ {r} : log'[q] = log[q]
      /\ \A q \in Runs : Len(log[q]) \in Nat
  BY DEF TypeOK, AppendEvent
<1>2. /\ nextEventSequence' = nextEventSequence + 1
      /\ nextEventSequence \in Nat /\ nextEventSequence' \in Nat
  BY DEF TypeOK, AppendEvent
<1>3. envelope.sequence = nextEventSequence' /\ envelope.event = e
  OBVIOUS
<1> HIDE DEF envelope
<1>4. /\ Len(log'[r]) = n + 1 /\ log'[r][n + 1] = envelope
      /\ \A i \in 1..n : log'[r][i] = log[r][i]
  BY <1>1
<1>5. Fresh(r) = {n + 1} /\ \A q \in Runs \ {r} : Fresh(q) = {}
  BY <1>1, <1>4 DEF Fresh
<1>6. ASSUME NEW q \in Runs PROVE KeepsLog(q) /\ FreshRise(q)
  <2>1. KeepsLog(q)
    BY <1>1, <1>4 DEF KeepsLog
  <2>2. CASE q = r
    <3>1. ~(n + 1 < n + 1)
      BY <1>1
    <3> QED
      BY <1>2, <1>3, <1>4, <1>5, <2>1, <2>2, <3>1 DEF FreshRise
  <2>3. CASE q # r
    BY <1>5, <2>1, <2>3 DEF FreshRise
  <2> QED
    BY <2>2, <2>3
<1>7. \A p \in Runs : \A q \in Runs \ {p} : FreshApart(p, q)
  BY <1>5 DEF FreshApart
<1>8. ASSUME NEW q \in Runs PROVE NewEvents(q) = IF q = r THEN {e} ELSE {}
  BY <1>3, <1>4, <1>5 DEF NewEvents
<1> QED
  BY <1>2, <1>6, <1>7, <1>8 DEF LogsGrow

\* The leases that expired in the runs before r, in key order.
ExpiredBefore(r) == {e \in Runs \X Steps : e[1] < r /\ e[2] \in Expired(e[1])}

\* recover_expired numbers the events of a run after those of all runs before.
LEMMA CountBefore ==
    ASSUME NEW r \in Runs, NEW q \in Nat, r < q
    PROVE  /\ Cardinality(Expired(r)) \in Nat
           /\ Cardinality(ExpiredBefore(r)) \in Nat /\ Cardinality(ExpiredBefore(q)) \in Nat
           /\ Cardinality(ExpiredBefore(r)) + Cardinality(Expired(r))
                  <= Cardinality(ExpiredBefore(q))
<1> DEFINE A == ExpiredBefore(r)
           B == ExpiredBefore(q)
           E == Expired(r)
           T == {r} \X E
<1>1. r \in Nat /\ Runs \subseteq Nat
  BY RunsAssumption DEF Runs
<1>2. IsFiniteSet(Runs) /\ IsFiniteSet(Steps)
  BY CountsAssumption, RunsAssumption, FS_Interval DEF Runs, Steps
<1>3. IsFiniteSet(Runs \X Steps)
  BY <1>2, FS_Product
<1>4. E \subseteq Steps /\ A \subseteq Runs \X Steps /\ B \subseteq Runs \X Steps
  BY DEF Expired, ExpiredBefore
<1>5. IsFiniteSet(E) /\ IsFiniteSet(A) /\ IsFiniteSet(B)
  BY <1>2, <1>3, <1>4, FS_Subset
<1>6. Cardinality(E) \in Nat /\ Cardinality(A) \in Nat /\ Cardinality(B) \in Nat
  BY <1>5, FS_CardinalityType
<1>7. IsFiniteSet({r}) /\ Cardinality({r}) = 1
  BY FS_Singleton
<1>8. IsFiniteSet(T) /\ Cardinality(T) = Cardinality(E)
  <2> HIDE DEF E
  <2>1. IsFiniteSet(T) /\ Cardinality(T) = Cardinality({r}) * Cardinality(E)
    BY <1>5, <1>7, FS_Product
  <2> QED
    BY <1>6, <1>7, <2>1
<1>9. A \cap T = {}
  <2>1. \A e \in T : e[1] = r
    OBVIOUS
  <2>2. \A e \in A : e[1] < r
    BY DEF ExpiredBefore
  <2>3. ~(r < r)
    BY <1>1
  <2> QED
    BY <2>1, <2>2, <2>3
<1>10. A \cup T \subseteq B
  <2>1. ASSUME NEW e \in A PROVE e \in B
    <3>1. e \in Runs \X Steps /\ e[1] < r /\ e[2] \in Expired(e[1])
      BY DEF ExpiredBefore
    <3>2. e[1] \in Nat
      BY <1>1, <3>1
    <3>3. \A p \in Nat : p < r => p < q
      BY <1>1
    <3>4. e[1] < q
      BY <3>1, <3>2, <3>3
    <3> QED
      BY <3>1, <3>4 DEF ExpiredBefore
  <2>2. ASSUME NEW e \in T PROVE e \in B
    BY <1>4 DEF ExpiredBefore
  <2> QED
    BY <2>1, <2>2
<1> HIDE DEF A, B, T, E
<1>11. IsFiniteSet(A \cup T) /\ Cardinality(A \cup T) = Cardinality(A) + Cardinality(T) - 0
  BY <1>5, <1>8, <1>9, FS_Union, FS_EmptySet
<1>12. Cardinality(A \cup T) <= Cardinality(B)
  BY <1>5, <1>10, FS_Subset
<1> QED
  BY <1>6, <1>8, <1>11, <1>12 DEF A, B, E

\* One event for each expired lease.
RecoveryEvent(r, s) == StepEvent(RecoveryKind(s, steps[r][s]), s, steps[r][s].attempts)

LEMMA RecoveredLogs ==
    ASSUME IInv, RecoverExpired
    PROVE  /\ LogsGrow
           /\ \A r \in Runs : NewEvents(r) = {RecoveryEvent(r, s) : s \in Expired(r)}
<1> DEFINE before(r) == Cardinality(ExpiredBefore(r))
           m(r)      == Cardinality(Expired(r))
           nth(r, i) == NthStep(Expired(r), i)
           envelope(r, i) == [sequence |-> nextEventSequence + before(r) + i,
                              event    |-> RecoveryEvent(r, nth(r, i))]
           n(r)      == Len(log[r])
<1>1. /\ log' = [r \in Runs |-> log[r] \o [i \in 1..m(r) |-> envelope(r, i)]]
      /\ nextEventSequence' = nextEventSequence + before(NumRuns + 1)
  BY DEF RecoverExpired, ExpiredBefore, RecoveryEvent
<1>2. NumRuns \in Nat /\ NumRuns + 1 \in Nat /\ \A r \in Runs : r \in Nat /\ r < NumRuns + 1
  BY RunsAssumption DEF Runs
<1>3. before(NumRuns + 1) \in Nat
  <2>1. IsFiniteSet(Runs \X Steps)
    <3>1. IsFiniteSet(Runs) /\ IsFiniteSet(Steps)
      BY CountsAssumption, RunsAssumption, FS_Interval DEF Runs, Steps
    <3> QED
      BY <3>1, FS_Product
  <2>2. ExpiredBefore(NumRuns + 1) \subseteq Runs \X Steps
    BY DEF ExpiredBefore
  <2> QED
    BY <2>1, <2>2, FS_Subset, FS_CardinalityType
<1>4. \A r \in Runs : /\ m(r) \in Nat /\ before(r) \in Nat
                      /\ before(r) + m(r) <= before(NumRuns + 1)
  BY <1>2, CountBefore
<1>5. \A r \in Runs, q \in Runs : r < q => before(r) + m(r) <= before(q)
  BY <1>2, CountBefore
<1>6. /\ \A r \in Runs : log[r] \in Seq(EventEnvelope) /\ n(r) \in Nat
      /\ nextEventSequence \in Nat
  BY DEF IInv, TypeOK
<1>7. \A r \in Runs : \A i, j \in 1..m(r) :
          /\ nth(r, i) \in Expired(r)
          /\ i # j => nth(r, i) # nth(r, j)
  <2> SUFFICES ASSUME NEW r \in Runs, NEW i \in 1..m(r), NEW j \in 1..m(r)
               PROVE  nth(r, i) \in Expired(r) /\ (i # j => nth(r, i) # nth(r, j))
    OBVIOUS
  <2> DEFINE rank(s) == Cardinality({t \in Expired(r) : t < s})
  <2>1. Expired(r) \in SUBSET Steps
    BY DEF Expired
  <2>2. nth(r, i) \in Expired(r) /\ rank(nth(r, i)) = i - 1 /\ rank(nth(r, j)) = j - 1
    BY <2>1, NthStepExists
  <2>3. i # j => i - 1 # j - 1
    BY <1>4
  <2> HIDE DEF rank, nth
  <2> QED
    BY <2>2, <2>3
<1>8. \A r \in Runs : \A s \in Expired(r) : \E i \in 1..m(r) : nth(r, i) = s
  <2>1. \A r \in Runs : Expired(r) \in SUBSET Steps
    BY DEF Expired
  <2> QED
    BY <2>1, StepIsNth
<1>9. \A r \in Runs, s, t \in Steps : s # t => RecoveryEvent(r, s) # RecoveryEvent(r, t)
  <2>1. \A r \in Runs, s \in Steps : RecoveryEvent(r, s).step = s
    BY DEF RecoveryEvent, StepEvent
  <2> QED
    BY <2>1
<1>10. \A r \in Runs : Expired(r) \subseteq Steps
  BY DEF Expired
<1>11. \A r \in Runs : \A i \in 1..m(r) :
           /\ envelope(r, i).sequence = nextEventSequence + before(r) + i
           /\ envelope(r, i).event = RecoveryEvent(r, nth(r, i))
  OBVIOUS
<1> HIDE DEF envelope, nth, m, before
<1>12. ASSUME NEW r \in Runs
       PROVE  /\ Len(log'[r]) = n(r) + m(r)
              /\ \A i \in 1..n(r) : log'[r][i] = log[r][i]
              /\ \A i \in 1..m(r) : log'[r][n(r) + i] = envelope(r, i)
  <2> DEFINE added == [i \in 1..m(r) |-> envelope(r, i)]
             All   == EventEnvelope \cup {envelope(r, i) : i \in 1..m(r)}
  <2>1. log'[r] = log[r] \o added
    BY <1>1
  <2>2. added \in [1..m(r) -> All] /\ \A i \in 1..m(r) : added[i] = envelope(r, i)
    OBVIOUS
  <2>3. Len(added) = m(r) /\ added \in Seq(All) /\ log[r] \in Seq(All)
    BY <1>4, <1>6, <2>2
  <2> HIDE DEF added, All
  <2> DEFINE both == log[r] \o added
  <2>4. /\ Len(both) = Len(log[r]) + Len(added)
        /\ \A i \in 1..(Len(log[r]) + Len(added)) :
               both[i] = IF i <= Len(log[r]) THEN log[r][i] ELSE added[i - Len(log[r])]
    BY <2>3, ConcatProperties
  <2> HIDE DEF both
  <2>5. log'[r] = both
    BY <2>1 DEF both
  <2>6. /\ Len(log'[r]) = n(r) + m(r)
        /\ \A i \in 1..(n(r) + m(r)) :
               log'[r][i] = IF i <= n(r) THEN log[r][i] ELSE added[i - n(r)]
    BY <2>3, <2>4, <2>5
  <2>7. ASSUME NEW i \in 1..m(r) PROVE log'[r][n(r) + i] = envelope(r, i)
    <3>1. /\ n(r) + i \in 1..(n(r) + m(r)) /\ ~(n(r) + i <= n(r)) /\ (n(r) + i) - n(r) = i
      BY <1>4, <1>6
    <3> QED
      BY <2>2, <2>6, <3>1
  <2>8. ASSUME NEW i \in 1..n(r) PROVE log'[r][i] = log[r][i]
    BY <1>4, <1>6, <2>6
  <2> QED
    BY <2>6, <2>7, <2>8
<1>13. \A r \in Runs : \A j \in Fresh(r) :
           \E i \in 1..m(r) : j = n(r) + i /\ log'[r][j] = envelope(r, i)
  <2> SUFFICES ASSUME NEW r \in Runs, NEW j \in Fresh(r)
               PROVE  \E i \in 1..m(r) : j = n(r) + i /\ log'[r][j] = envelope(r, i)
    OBVIOUS
  <2>1. j - n(r) \in 1..m(r) /\ j = n(r) + (j - n(r))
    BY <1>4, <1>6, <1>12 DEF Fresh
  <2> QED
    BY <1>12, <2>1
<1>14. ASSUME NEW r \in Runs PROVE KeepsLog(r)
  BY <1>4, <1>6, <1>12 DEF KeepsLog
<1>15. ASSUME NEW r \in Runs PROVE FreshRise(r)
  <2>1. ASSUME NEW i \in Fresh(r)
        PROVE  /\ nextEventSequence < log'[r][i].sequence
               /\ log'[r][i].sequence <= nextEventSequence'
    <3>1. PICK k \in 1..m(r) : log'[r][i] = envelope(r, k)
      BY <1>13
    <3>2. log'[r][i].sequence = nextEventSequence + before(r) + k
      BY <1>11, <3>1
    <3>3. k > 0 /\ before(r) + k <= before(NumRuns + 1)
      BY <1>3, <1>4
    <3>4. before(r) \in Nat /\ k \in Nat
      BY <1>4
    <3>5. /\ nextEventSequence < nextEventSequence + before(r) + k
          /\ nextEventSequence + before(r) + k <= nextEventSequence + before(NumRuns + 1)
      BY <1>3, <1>6, <3>3, <3>4
    <3> QED
      BY <1>1, <3>2, <3>5
  <2>2. ASSUME NEW i \in Fresh(r), NEW j \in Fresh(r), i < j
        PROVE  /\ log'[r][i].sequence < log'[r][j].sequence
               /\ log'[r][i].event # log'[r][j].event
    <3>1. PICK k \in 1..m(r) : i = n(r) + k /\ log'[r][i] = envelope(r, k)
      BY <1>13
    <3>2. PICK l \in 1..m(r) : j = n(r) + l /\ log'[r][j] = envelope(r, l)
      BY <1>13
    <3>3. k < l
      BY <1>4, <1>6, <2>2, <3>1, <3>2
    <3>4. nextEventSequence + before(r) + k < nextEventSequence + before(r) + l
      BY <1>4, <1>6, <3>3
    <3>5. nth(r, k) # nth(r, l) /\ nth(r, k) \in Steps /\ nth(r, l) \in Steps
      BY <1>4, <1>7, <1>10, <3>3
    <3> QED
      BY <1>9, <1>11, <3>1, <3>2, <3>4, <3>5
  <2> QED
    BY <2>1, <2>2 DEF FreshRise
<1>16. ASSUME NEW r \in Runs, NEW q \in Runs \ {r} PROVE FreshApart(r, q)
  <2> SUFFICES ASSUME NEW i \in Fresh(r), NEW j \in Fresh(q)
               PROVE  log'[r][i].sequence # log'[q][j].sequence
    BY DEF FreshApart
  <2>1. PICK k \in 1..m(r) : log'[r][i] = envelope(r, k)
    BY <1>13
  <2>2. PICK l \in 1..m(q) : log'[q][j] = envelope(q, l)
    BY <1>13
  <2>3. \/ before(r) + m(r) <= before(q)
        \/ before(q) + m(q) <= before(r)
    BY <1>2, <1>5
  <2>4. k \in Nat /\ l \in Nat /\ before(r) \in Nat /\ before(q) \in Nat
    BY <1>4
  <2>5. before(r) + k # before(q) + l
    BY <1>4, <2>3
  <2>6. /\ log'[r][i].sequence = nextEventSequence + before(r) + k
        /\ log'[q][j].sequence = nextEventSequence + before(q) + l
    BY <1>11, <2>1, <2>2
  <2>7. nextEventSequence + before(r) + k # nextEventSequence + before(q) + l
    BY <1>6, <2>4, <2>5
  <2> QED
    BY <2>6, <2>7
<1>17. ASSUME NEW r \in Runs
       PROVE  NewEvents(r) = {RecoveryEvent(r, s) : s \in Expired(r)}
  <2>1. ASSUME NEW e \in NewEvents(r) PROVE \E s \in Expired(r) : e = RecoveryEvent(r, s)
    <3>1. PICK j \in Fresh(r) : e = log'[r][j].event
      BY DEF NewEvents
    <3>2. PICK i \in 1..m(r) : log'[r][j] = envelope(r, i)
      BY <1>13
    <3> QED
      BY <1>7, <1>11, <3>1, <3>2
  <2>2. ASSUME NEW s \in Expired(r) PROVE RecoveryEvent(r, s) \in NewEvents(r)
    <3>1. PICK i \in 1..m(r) : nth(r, i) = s
      BY <1>8
    <3>2. n(r) + i \in Fresh(r)
      BY <1>4, <1>6, <1>12 DEF Fresh
    <3>3. log'[r][n(r) + i].event = RecoveryEvent(r, s)
      BY <1>11, <1>12, <3>1
    <3> QED
      BY <3>2, <3>3 DEF NewEvents
  <2> QED
    BY <2>1, <2>2
<1> QED
  BY <1>1, <1>3, <1>6, <1>14, <1>15, <1>16, <1>17 DEF LogsGrow

-----------------------------------------------------------------------------
(* What a step does with a step record and what it logs about it *)

EventsOn(r, s) == {e \in NewEvents(r) : e.step = s}

\* Recorded: nothing but deadlines changes, and the event is one record_event
\* accepts.
Recorded(r, s, old, new) ==
    /\ SameAttempt(old, new)
    /\ \A e \in EventsOn(r, s) : e.kind \in StepEventKinds /\ StepEventIsValid(r, e)

\* The attempt ended, and the log says how.
EndLogged(r, s, old, new) ==
    /\ old.status = "Running"
    /\ \E kind \in CompletionKinds, output \in Outputs \cup {NoOutput}, backoff \in Backoff :
           /\ new = EndAttempt(s, old, kind, output, backoff)
           /\ kind = "StepFallbackSelected" => Fallback[s] # NoTask /\ ~old.fallbackUsed
           /\ EventsOn(r, s) = {StepEvent(kind, s, old.attempts)}

CancelledSilently(r, s, old, new) == StepCancelled(old, new) /\ EventsOn(r, s) = {}

StartedSilently(r, s, old, new) ==
    /\ \E w \in Workers, token \in Nat : new = StartAttempt(old, w, token)
    /\ EventsOn(r, s) = {}

Told(r, s) ==
    LET old == steps[r][s]
        new == steps'[r][s]
    IN  \/ Recorded(r, s, old, new)
        \/ EndLogged(r, s, old, new)
        \/ CancelledSilently(r, s, old, new)
        \/ StartedSilently(r, s, old, new)

\* The other events are the run's own.
RunTold(r) ==
    \A e \in NewEvents(r) :
        \/ e.kind \in StepEventKinds /\ e.step \in Steps
        \/ e.kind = "RunStarted" /\ ~LoggedKind(r, "RunStarted")
        \/ e.kind = "RunFinished"

\* A run that was not created has no events and no step records.
AbsentRunsAreEmpty ==
    \A r \in Runs : status[r] = "Absent" =>
        /\ log[r] = <<>>
        /\ \A s \in Steps : steps[r][s].status = "Absent"

Tells == LogsGrow /\ \A r \in Runs : RunTold(r) /\ \A s \in Steps : Told(r, s)

\* Step events name a step, run events none.
LEMMA StepEventFields ==
    ASSUME NEW kind \in StepEventKinds, NEW s \in Steps, NEW n
    PROVE  LET e == StepEvent(kind, s, n)
           IN  /\ e.kind = kind /\ e.step = s /\ e.status = "None"
               /\ e.attempt = IF kind = "StepFallbackSelected" THEN 0 ELSE n
BY DEF StepEvent

LEMMA RunEventFields ==
    ASSUME NEW kind, NEW st
    PROVE  LET e == RunEvent(kind, st)
           IN  e.kind = kind /\ e.step = 0 /\ e.step \notin Steps /\ e.status = st
BY CountsAssumption DEF RunEvent, Steps

\* An operation that logs nothing and moves at most deadlines.
LEMMA QuietTells ==
    ASSUME IInv, UNCHANGED <<log, nextEventSequence>>,
           \A r \in Runs, s \in Steps : SameAttempt(steps[r][s], steps'[r][s])
    PROVE  Tells
<1>1. LogsGrow /\ \A r \in Runs : NewEvents(r) = {}
  BY QuietLogs DEF IInv
<1>2. \A r \in Runs : RunTold(r)
  BY <1>1 DEF RunTold
<1>3. \A r \in Runs, s \in Steps : EventsOn(r, s) = {}
  BY <1>1 DEF EventsOn
<1> QED
  BY <1>1, <1>2, <1>3 DEF Tells, Told, Recorded

\* An operation that logs an event of a run and cancels steps or leaves them.
LEMMA RunEventTells ==
    ASSUME IInv, NEW r \in Runs, NEW kind, NEW st, AppendEvent(r, RunEvent(kind, st)),
           kind = "RunFinished" \/ (kind = "RunStarted" /\ ~LoggedKind(r, "RunStarted")),
           \A q \in Runs, t \in Steps : \/ SameAttempt(steps[q][t], steps'[q][t])
                                        \/ StepCancelled(steps[q][t], steps'[q][t])
    PROVE  Tells
<1> DEFINE e == RunEvent(kind, st)
<1>1. LogsGrow /\ \A q \in Runs : NewEvents(q) = IF q = r THEN {e} ELSE {}
  <2> HIDE DEF e
  <2> QED
    BY AppendedLogs DEF IInv, e
<1>2. e.kind = kind /\ e.step \notin Steps
  BY RunEventFields
<1> HIDE DEF e
<1>3. \A q \in Runs : RunTold(q)
  BY <1>1, <1>2 DEF RunTold
<1>4. \A q \in Runs, t \in Steps : EventsOn(q, t) = {}
  BY <1>1, <1>2 DEF EventsOn
<1> QED
  BY <1>1, <1>3, <1>4 DEF Tells, Told, Recorded, CancelledSilently

LEMMA ClaimStepTells ==
    ASSUME IInv, NEW r \in Runs, NEW s \in Steps, NEW w \in Workers, ClaimStep(r, s, w)
    PROVE  Tells
<1> DEFINE new == StartAttempt(steps[r][s], w, nextLeaseToken')
<1>1. LogsGrow /\ \A q \in Runs : NewEvents(q) = {}
  BY QuietLogs DEF IInv, ClaimStep
<1>2. \A q \in Runs : RunTold(q)
  BY <1>1 DEF RunTold
<1>3. \A q \in Runs, t \in Steps : EventsOn(q, t) = {}
  BY <1>1 DEF EventsOn
<1>4. nextLeaseToken' \in Nat /\ steps' = [steps EXCEPT ![r][s] = new]
  BY DEF ClaimStep, IInv, TypeOK
<1>5. StartedSilently(r, s, steps[r][s], new)
  BY <1>3, <1>4 DEF StartedSilently
<1> HIDE DEF new
<1>6. /\ steps'[r][s] = new
      /\ \A q \in Runs, t \in Steps : (q # r \/ t # s) => steps'[q][t] = steps[q][t]
  BY <1>4 DEF IInv, TypeOK
<1>7. ASSUME NEW q \in Runs, NEW t \in Steps PROVE Told(q, t)
  BY <1>3, <1>5, <1>6, SameRecord DEF Told, Recorded
<1> QED
  BY <1>1, <1>2, <1>7 DEF Tells

LEMMA CompleteStepTells ==
    ASSUME IInv, TokenInv, BudgetInv, NEW c \in claims, NEW k \in StepCompletion,
           CompleteStep(c, k)
    PROVE  Tells
<1> DEFINE r   == c.run
           s   == c.step
           rec == steps[r][s]
           new == EndAttempt(s, rec, k.kind, k.output, k.backoff)
           e   == StepEvent(k.kind, s, c.attempt)
<1>1. r \in Runs /\ s \in Steps /\ rec.status = "Running"
  BY HolderIsRunning DEF CompleteStep
<1>2. /\ k.kind \in CompletionKinds /\ k.output \in Outputs \cup {NoOutput}
      /\ k.backoff \in Backoff /\ k.kind \in StepEventKinds
  BY DEF StepCompletion, CompletionKinds, StepEventKinds, Announces, Backoff
<1>3. k.kind = "StepFallbackSelected" => Fallback[s] # NoTask /\ ~rec.fallbackUsed
  <2>1. Entitled(r, s, rec, k.kind)
    BY DEF CompleteStep, Entitled
  <2>2. k.kind = "StepFallbackSelected" => ~rec.fallbackUsed
    BY <1>1, <2>1, EntitledToEnd
  <2> QED
    BY <2>2 DEF CompleteStep, CompletionMatchesClaim
<1>4. c.attempt = rec.attempts
  BY HolderHasLastAttempt DEF CompleteStep
<1>5. LogsGrow /\ \A q \in Runs : NewEvents(q) = IF q = r THEN {e} ELSE {}
  <2>1. AppendEvent(r, e)
    BY DEF CompleteStep
  <2> HIDE DEF e, r
  <2> QED
    BY <1>1, <2>1, AppendedLogs DEF IInv
<1>6. e.kind = k.kind /\ e.step = s
  BY <1>1, <1>2, StepEventFields
<1>7. steps' = [steps EXCEPT ![r][s] = new]
  BY DEF CompleteStep
<1>8. \A q \in Runs : RunTold(q)
  <2> HIDE DEF e, r, s
  <2> QED
    BY <1>1, <1>2, <1>5, <1>6 DEF RunTold
<1>9. \A q \in Runs, t \in Steps : EventsOn(q, t) = IF q = r /\ t = s THEN {e} ELSE {}
  <2> HIDE DEF e, r, s
  <2> QED
    BY <1>1, <1>5, <1>6 DEF EventsOn
<1>10. EndLogged(r, s, rec, new)
  <2>1. EventsOn(r, s) = {StepEvent(k.kind, s, rec.attempts)}
    BY <1>1, <1>4, <1>9
  <2> HIDE DEF rec, r, s
  <2> QED
    BY <1>1, <1>2, <1>3, <2>1 DEF EndLogged
<1> HIDE DEF new
<1>11. /\ steps'[r][s] = new
       /\ \A q \in Runs, t \in Steps : (q # r \/ t # s) => steps'[q][t] = steps[q][t]
  BY <1>1, <1>7 DEF IInv, TypeOK
<1>12. ASSUME NEW q \in Runs, NEW t \in Steps PROVE Told(q, t)
  <2>1. CASE q = r /\ t = s
    BY <1>10, <1>11, <2>1 DEF Told
  <2>2. CASE q # r \/ t # s
    BY <1>9, <1>11, <2>2, SameRecord DEF Told, Recorded
  <2> QED
    BY <2>1, <2>2
<1> QED
  BY <1>5, <1>8, <1>12 DEF Tells

LEMMA RecordEventTells ==
    ASSUME IInv, NEW r \in Runs, NEW e \in StepEventsOf(r) \cup RunEventsOf, RecordEvent(r, e)
    PROVE  Tells
<1>1. \A q \in Runs, t \in Steps : SameAttempt(steps[q][t], steps'[q][t])
  BY SameRecord DEF RecordEvent
<1>2. CASE e \in RunEventsOf
  <2>1. PICK kind, st : e = RunEvent(kind, st) /\ kind \in {"RunStarted", "RunFinished"}
    BY <1>2 DEF RunEventsOf
  <2>2. e.kind = kind
    BY <2>1, RunEventFields
  <2>3. e.kind \notin StepEventKinds
    BY <2>1, <2>2 DEF StepEventKinds, Announces
  <2>4. ~LoggedKind(r, kind)
    BY <2>2, <2>3 DEF RecordEvent, EventIsValid, RunEventIsValid
  <2>5. AppendEvent(r, RunEvent(kind, st))
    BY <2>1 DEF RecordEvent
  <2> QED
    BY <1>1, <2>1, <2>4, <2>5, RunEventTells
<1>3. CASE e \in StepEventsOf(r)
  <2>1. PICK kind \in StepEventKinds, s \in Steps : e = StepEvent(kind, s, steps[r][s].attempts)
    BY <1>3 DEF StepEventsOf
  <2>2. e.kind = kind /\ e.step = s
    BY <2>1, StepEventFields
  <2>3. StepEventIsValid(r, e)
    BY <2>2 DEF RecordEvent, EventIsValid
  <2>4. LogsGrow /\ \A q \in Runs : NewEvents(q) = IF q = r THEN {e} ELSE {}
    BY AppendedLogs DEF IInv, RecordEvent
  <2>5. \A q \in Runs : RunTold(q)
    BY <2>2, <2>4 DEF RunTold
  <2>6. \A q \in Runs, t \in Steps : \A f \in EventsOn(q, t) :
            f.kind \in StepEventKinds /\ StepEventIsValid(q, f)
    <3> SUFFICES ASSUME NEW q \in Runs, NEW t \in Steps, NEW f \in EventsOn(q, t)
                 PROVE  f.kind \in StepEventKinds /\ StepEventIsValid(q, f)
      OBVIOUS
    <3>1. q = r /\ f = e
      BY <2>4 DEF EventsOn
    <3> QED
      BY <2>2, <2>3, <3>1
  <2> QED
    BY <1>1, <2>4, <2>5, <2>6 DEF Tells, Told, Recorded
<1> QED
  BY <1>2, <1>3

LEMMA CreateRunTells ==
    ASSUME IInv, AbsentRunsAreEmpty, NEW r \in Runs, NEW key, NEW p, CreateRun(r, key, p)
    PROVE  Tells
<1>1. log[r] = <<>>
  BY DEF CreateRun, AbsentRunsAreEmpty
<1>2. ~LoggedKind(r, "RunStarted")
  BY <1>1 DEF LoggedKind
<1>3. \A q \in Runs, t \in Steps : SameAttempt(steps[q][t], steps'[q][t])
  BY SameRecord DEF CreateRun
<1>4. AppendEvent(r, RunEvent("RunStarted", "Running"))
  BY DEF CreateRun
<1> QED
  BY <1>2, <1>3, <1>4, RunEventTells

LEMMA FinishRunTells ==
    ASSUME IInv, NEW r \in Runs, NEW pass, FinishRun(r, pass)
    PROVE  Tells
<1>1. \A q \in Runs, t \in Steps : SameAttempt(steps[q][t], steps'[q][t])
  BY SameRecord DEF FinishRun
<1>2. CASE UNCHANGED <<log, nextEventSequence>>
  BY <1>1, <1>2, QuietTells
<1>3. CASE AppendEvent(r, RunEvent("RunFinished", RunVerdict(r, pass)))
  BY <1>1, <1>3, RunEventTells
<1> QED
  BY <1>2, <1>3 DEF FinishRun

LEMMA CancelRunTells ==
    ASSUME IInv, NEW r \in Runs, CancelRun(r)
    PROVE  Tells
<1>1. steps' = [steps EXCEPT ![r] = [s \in Steps |-> CancelStep(steps[r][s])]]
  BY DEF CancelRun
<1>2. \A q \in Runs, t \in Steps :
          steps'[q][t] = IF q = r THEN CancelStep(steps[q][t]) ELSE steps[q][t]
  BY <1>1 DEF IInv, TypeOK
<1>3. \A q \in Runs, t \in Steps : \/ SameAttempt(steps[q][t], steps'[q][t])
                                   \/ StepCancelled(steps[q][t], steps'[q][t])
  BY <1>2, SameRecord DEF StepCancelled
<1>4. AppendEvent(r, RunEvent("RunFinished", "Cancelled"))
  BY DEF CancelRun
<1> QED
  BY <1>3, <1>4, RunEventTells

LEMMA RecoverExpiredTells ==
    ASSUME IInv, TokenInv, BudgetInv, RecoverExpired
    PROVE  Tells
<1>1. /\ LogsGrow
      /\ \A r \in Runs : NewEvents(r) = {RecoveryEvent(r, s) : s \in Expired(r)}
  BY RecoveredLogs
<1>2. \A r \in Runs : \A s \in Expired(r) :
          /\ s \in Steps /\ steps[r][s].status = "Running"
          /\ RecoveryKind(s, steps[r][s]) \in CompletionKinds
  <2>1. \A r \in Runs : Expired(r) \subseteq Steps
    BY DEF Expired
  <2> QED
    BY <2>1, RecoveredStep
<1>3. \A r \in Runs : \A s \in Expired(r) :
          RecoveryEvent(r, s).kind \in StepEventKinds /\ RecoveryEvent(r, s).step = s
  BY <1>2, StepEventFields DEF RecoveryEvent, CompletionKinds
<1>4. \A r \in Runs : RunTold(r)
  BY <1>1, <1>2, <1>3 DEF RunTold
<1>5. \A r \in Runs, s \in Steps :
          EventsOn(r, s) = IF s \in Expired(r) THEN {RecoveryEvent(r, s)} ELSE {}
  BY <1>1, <1>3 DEF EventsOn
<1>6. ASSUME NEW r \in Runs, NEW s \in Steps, s \in Expired(r) PROVE Told(r, s)
  <2> DEFINE rec  == steps[r][s]
             kind == RecoveryKind(s, rec)
  <2>1. rec.status = "Running" /\ kind \in CompletionKinds
    BY <1>2, <1>6
  <2>2. rec.output \in Outputs \cup {NoOutput} /\ "None" \in Backoff
    BY DEF IInv, TypeOK, StepRecord, Backoff
  <2>3. kind = "StepFallbackSelected" => Fallback[s] # NoTask /\ ~rec.fallbackUsed
    BY DEF RecoveryKind
  <2>4. steps'[r][s] = EndAttempt(s, rec, kind, rec.output, "None")
    BY <1>6 DEF RecoverExpired
  <2>5. EventsOn(r, s) = {StepEvent(kind, s, rec.attempts)}
    BY <1>5, <1>6 DEF RecoveryEvent
  <2> HIDE DEF rec, kind
  <2>6. EndLogged(r, s, rec, steps'[r][s])
    BY <2>1, <2>2, <2>3, <2>4, <2>5 DEF EndLogged
  <2> QED
    BY <2>6 DEF Told, rec
<1>7. ASSUME NEW r \in Runs, NEW s \in Steps, s \notin Expired(r) PROVE Told(r, s)
  <2>1. steps'[r][s] = steps[r][s]
    BY <1>7 DEF RecoverExpired
  <2> QED
    BY <1>5, <1>7, <2>1, SameRecord DEF Told, Recorded
<1> QED
  BY <1>1, <1>4, <1>6, <1>7 DEF Tells

LEMMA NextTells ==
    ASSUME IInv, TokenInv, BudgetInv, AbsentRunsAreEmpty, [Next]_vars
    PROVE  Tells
<1>1. steps' = steps => \A q \in Runs, t \in Steps : SameAttempt(steps[q][t], steps'[q][t])
  BY SameRecord
<1>2. CASE \E key \in Keys, p \in Payloads : AnswerDuplicate(key, p)
  BY <1>1, <1>2, QuietTells DEF AnswerDuplicate
<1>3. CASE \E r \in Runs, key \in Keys \cup {NoKey}, p \in Payloads : CreateRun(r, key, p)
  BY <1>3, CreateRunTells
<1>4. CASE \E r \in Runs, s \in Steps, w \in Workers : ClaimStep(r, s, w)
  BY <1>4, ClaimStepTells
<1>5. CASE \E c \in claims : RenewStep(c)
  <2>1. UNCHANGED <<log, nextEventSequence>>
    BY <1>5 DEF RenewStep
  <2> QED
    BY <1>5, <2>1, RenewStepKeepsAttempts, QuietTells
<1>6. CASE \E c \in claims, k \in StepCompletion : CompleteStep(c, k)
  BY <1>6, CompleteStepTells
<1>7. CASE \E r \in Runs : \E e \in StepEventsOf(r) \cup RunEventsOf : RecordEvent(r, e)
  BY <1>7, RecordEventTells
<1>8. CASE \E r \in Runs, pass \in BOOLEAN : FinishRun(r, pass)
  BY <1>8, FinishRunTells
<1>9. CASE \E r \in Runs : CancelRun(r)
  BY <1>9, CancelRunTells
<1>10. CASE RecoverExpired
  BY <1>10, RecoverExpiredTells
<1>11. CASE \E r \in Runs, s \in Steps :
               LeaseTicksDown(r, s) \/ BackoffElapses(r, s) \/ ClockStepsBack(r, s)
  <2>1. UNCHANGED <<log, nextEventSequence>>
    BY <1>11 DEF LeaseTicksDown, BackoffElapses, ClockStepsBack
  <2> QED
    BY <1>11, <2>1, TimeKeepsAttempts, QuietTells
<1>12. CASE UNCHANGED vars
  BY <1>1, <1>12, QuietTells DEF vars
<1> QED
  BY <1>2, <1>3, <1>4, <1>5, <1>6, <1>7, <1>8, <1>9, <1>10, <1>11, <1>12 DEF Next

-----------------------------------------------------------------------------
(* Runs that were not created *)

LEMMA AbsentRunUntouched ==
    ASSUME IInv, AbsentRunsAreEmpty, NEW r \in Runs, status[r] = "Absent", RecoverExpired
    PROVE  UNCHANGED <<log[r], steps[r]>>
<1>1. \A s \in Steps : steps[r][s].status # "Running"
  BY DEF AbsentRunsAreEmpty
<1>2. Expired(r) = {}
  <2>1. Expired(r) \subseteq Steps
    BY DEF Expired
  <2> QED
    BY <1>1, <2>1, RecoveredStep
<1>3. steps'[r] = [s \in Steps |-> steps[r][s]]
  BY <1>2 DEF RecoverExpired
<1>4. steps[r] \in [Steps -> StepRecord] /\ log[r] = <<>>
  BY DEF IInv, TypeOK, AbsentRunsAreEmpty
<1>5. /\ KeepsLog(r) /\ NewEvents(r) = {}
  BY <1>2, RecoveredLogs DEF LogsGrow
<1>6. log'[r] \in Seq(EventEnvelope)
  BY RecoverExpiredIInv DEF IInv, TypeOK
<1>7. Fresh(r) = {}
  BY <1>5 DEF NewEvents
<1>8. Len(log'[r]) = 0
  <2>1. Len(log'[r]) \in Nat /\ Len(log[r]) = 0
    BY <1>4, <1>6
  <2>2. ~(1 \in Fresh(r))
    BY <1>7
  <2> QED
    BY <2>1, <2>2 DEF Fresh
<1> QED
  BY <1>3, <1>4, <1>6, <1>8

LEMMA NextAbsent ==
    ASSUME IInv, AbsentRunsAreEmpty, [Next]_vars PROVE AbsentRunsAreEmpty'
<1> DEFINE Keeps(r) == /\ status[r] = "Absent"
                       /\ log'[r] = log[r]
                       /\ \A s \in Steps : steps'[r][s].status = steps[r][s].status
<1> SUFFICES ASSUME NEW r \in Runs, status'[r] = "Absent" PROVE Keeps(r)
  BY DEF AbsentRunsAreEmpty
<1>1. UNCHANGED <<status, log, steps>> => Keeps(r)
  OBVIOUS
<1>2. CASE \E key \in Keys, p \in Payloads : AnswerDuplicate(key, p)
  BY <1>1, <1>2 DEF AnswerDuplicate
<1>3. ASSUME NEW q \in Runs, NEW key, NEW p, CreateRun(q, key, p) PROVE Keeps(r)
  <2>1. q # r
    BY <1>3 DEF CreateRun, IInv, TypeOK
  <2> QED
    BY <1>3, <2>1 DEF CreateRun, AppendEvent, IInv, TypeOK
<1>4. ASSUME NEW q \in Runs, NEW s \in Steps, NEW w \in Workers, ClaimStep(q, s, w)
      PROVE  Keeps(r)
  <2>1. q # r /\ status' = status /\ log' = log
    BY <1>4 DEF ClaimStep, NextClaimable
  <2>2. steps'[r] = steps[r]
    BY <1>4, <2>1 DEF ClaimStep, IInv, TypeOK
  <2> QED
    BY <2>1, <2>2
<1>5. CASE \E c \in claims : RenewStep(c)
  <2>1. UNCHANGED <<status, log>>
    BY <1>5 DEF RenewStep
  <2> QED
    BY <1>5, <2>1, RenewStepKeepsAttempts DEF SameAttempt
<1>6. ASSUME NEW c \in claims, NEW k \in StepCompletion, CompleteStep(c, k) PROVE Keeps(r)
  <2>1. c.run \in Runs /\ c.step \in Steps /\ steps[c.run][c.step].status = "Running"
    BY <1>6, HolderIsRunning DEF CompleteStep
  <2>2. status' = status
    BY <1>6 DEF CompleteStep
  <2>3. c.run # r
    BY <2>1, <2>2 DEF AbsentRunsAreEmpty
  <2>4. steps'[r] = steps[r] /\ log'[r] = log[r]
    BY <1>6, <2>1, <2>3 DEF CompleteStep, AppendEvent, IInv, TypeOK
  <2> QED
    BY <2>2, <2>4
<1>7. ASSUME NEW q \in Runs, NEW e \in StepEventsOf(q) \cup RunEventsOf, RecordEvent(q, e)
      PROVE  Keeps(r)
  <2>1. status' = status /\ steps' = steps
    BY <1>7 DEF RecordEvent
  <2>2. status[q] # "Absent"
    BY <1>7 DEF RecordEvent, EventIsValid, StepEventIsValid, RunEventIsValid, Terminal
  <2>3. log'[r] = log[r]
    BY <1>7, <2>1, <2>2 DEF RecordEvent, AppendEvent, IInv, TypeOK
  <2> QED
    BY <2>1, <2>3
<1>8. ASSUME NEW q \in Runs, NEW pass \in BOOLEAN, FinishRun(q, pass) PROVE Keeps(r)
  <2>1. status'[q] # "Absent" /\ steps' = steps
    BY <1>8 DEF FinishRun, RunVerdict, IInv, TypeOK
  <2>2. q # r
    BY <2>1
  <2>3. status'[r] = status[r] /\ log'[r] = log[r]
    BY <1>8, <2>2 DEF FinishRun, AppendEvent, IInv, TypeOK
  <2> QED
    BY <2>1, <2>3
<1>9. ASSUME NEW q \in Runs, CancelRun(q) PROVE Keeps(r)
  <2>1. q # r
    BY <1>9 DEF CancelRun, IInv, TypeOK
  <2> QED
    BY <1>9, <2>1 DEF CancelRun, AppendEvent, IInv, TypeOK
<1>10. CASE RecoverExpired
  <2>1. status' = status
    BY <1>10 DEF RecoverExpired
  <2> QED
    BY <1>10, <2>1, AbsentRunUntouched
<1>11. CASE \E q \in Runs, s \in Steps :
               LeaseTicksDown(q, s) \/ BackoffElapses(q, s) \/ ClockStepsBack(q, s)
  <2>1. UNCHANGED <<status, log>>
    BY <1>11 DEF LeaseTicksDown, BackoffElapses, ClockStepsBack
  <2> QED
    BY <1>11, <2>1, TimeKeepsAttempts DEF SameAttempt
<1>12. CASE UNCHANGED vars
  BY <1>1, <1>12 DEF vars
<1> HIDE DEF Keeps
<1> QED
  BY <1>2, <1>3, <1>4, <1>5, <1>6, <1>7, <1>8, <1>9, <1>10, <1>11, <1>12 DEF Next

-----------------------------------------------------------------------------
(* Events are deduplicable *)

\* What a logged end of an attempt says of its step from then on: the fallback
\* is in use, or the attempt is over.
PastEvent(rec, e) ==
    IF e.kind = "StepFallbackSelected" THEN rec.fallbackUsed
    ELSE /\ e.attempt <= rec.attempts
         /\ e.attempt = rec.attempts => rec.status # "Running"

LogIsPast ==
    \A r \in Runs : \A i \in DOMAIN log[r] :
        LET e == log[r][i].event
        IN  e.kind \in CompletionKinds => PastEvent(steps[r][e.step], e)

EventInv == EventsAreDeduplicable /\ LogIsPast /\ AbsentRunsAreEmpty

LEMMA CompletionEventType ==
    ASSUME NEW e \in Event, e.kind \in CompletionKinds
    PROVE  e.step \in Steps /\ e.attempt \in Nat
BY DEF Event, CompletionKinds, StepEventKinds, Announces

LEMMA LoggedEventType ==
    ASSUME TypeOK, NEW r \in Runs, NEW i \in DOMAIN log[r]
    PROVE  log[r][i].event \in Event /\ log[r][i].sequence \in Nat /\ i \in Nat
<1>1. log[r] \in Seq(EventEnvelope)
  BY DEF TypeOK
<1>2. log[r][i] \in EventEnvelope /\ i \in Nat
  BY <1>1
<1> QED
  BY <1>2 DEF EventEnvelope

\* No step takes back what a logged event says.
LEMMA PastStays ==
    ASSUME IInv, NEW r \in Runs, NEW s \in Steps, Told(r, s), NEW e, e.attempt \in Nat,
           PastEvent(steps[r][s], e)
    PROVE  PastEvent(steps'[r][s], e)
<1> DEFINE old == steps[r][s]
           new == steps'[r][s]
<1>1. old \in StepRecord /\ old.attempts \in Nat
  BY DEF IInv, TypeOK, StepRecord
<1>2. CASE Recorded(r, s, old, new)
  BY <1>2 DEF Recorded, SameAttempt, PastEvent
<1>3. CASE EndLogged(r, s, old, new)
  <2>1. PICK kind \in CompletionKinds, output \in Outputs \cup {NoOutput}, backoff \in Backoff :
            /\ new = EndAttempt(s, old, kind, output, backoff)
            /\ kind = "StepFallbackSelected" => Fallback[s] # NoTask
    BY <1>3 DEF EndLogged
  <2>2. /\ new.status = Announces[kind] /\ new.attempts = old.attempts
        /\ new.fallbackUsed = (old.fallbackUsed \/ kind = "StepFallbackSelected")
    <3> HIDE DEF new, old
    <3> QED
      BY <1>1, <2>1, EndAttemptFields
  <2>3. new.status # "Running"
    BY <2>2 DEF Announces, CompletionKinds, StepEventKinds
  <2> QED
    BY <2>2, <2>3 DEF PastEvent
<1>4. CASE CancelledSilently(r, s, old, new)
  <2>1. /\ new = old \/ new.status = "Cancelled"
        /\ new.attempts = old.attempts /\ new.fallbackUsed = old.fallbackUsed
    BY <1>1, <1>4, CancelStepFields DEF CancelledSilently, StepCancelled
  <2> QED
    BY <2>1 DEF PastEvent
<1>5. CASE StartedSilently(r, s, old, new)
  <2>1. new.attempts = old.attempts + 1 /\ new.fallbackUsed = old.fallbackUsed
    BY <1>1, <1>5 DEF StartedSilently, StartAttempt, StepRecord
  <2>2. e.attempt <= old.attempts =>
            e.attempt <= old.attempts + 1 /\ e.attempt # old.attempts + 1
    BY <1>1
  <2> QED
    BY <2>1, <2>2 DEF PastEvent
<1> QED
  BY <1>2, <1>3, <1>4, <1>5 DEF Told

\* A new event of a step is in no log yet, and what it says is past.
LEMMA NewStepEvent ==
    ASSUME IInv, LogIsPast, NEW r \in Runs, NEW s \in Steps, Told(r, s),
           NEW e \in EventsOn(r, s)
    PROVE  /\ ~Logged(r, e)
           /\ e.kind \in CompletionKinds => PastEvent(steps'[r][s], e)
<1> DEFINE old == steps[r][s]
           new == steps'[r][s]
<1>1. old \in StepRecord /\ old.attempts \in Nat /\ e.step = s
  BY DEF IInv, TypeOK, StepRecord, EventsOn
<1>2. CASE Recorded(r, s, old, new)
  <2>1. e.kind \in StepEventKinds /\ StepEventIsValid(r, e)
    BY <1>2 DEF Recorded
  <2>2. /\ old.status = Announces[e.kind]
        /\ IF e.kind = "StepFallbackSelected" THEN old.fallbackUsed
                                              ELSE old.attempts = e.attempt
        /\ ~Logged(r, e)
    BY <1>1, <2>1 DEF StepEventIsValid
  <2>3. /\ new.status = old.status /\ new.attempts = old.attempts
        /\ new.fallbackUsed = old.fallbackUsed
    BY <1>2 DEF Recorded, SameAttempt
  <2>4. e.kind \in CompletionKinds => old.status # "Running"
    BY <2>2 DEF Announces, CompletionKinds, StepEventKinds
  <2>5. e.kind # "StepFallbackSelected" => e.attempt <= new.attempts
    BY <1>1, <2>2, <2>3
  <2> QED
    BY <2>2, <2>3, <2>4, <2>5 DEF PastEvent
<1>3. CASE EndLogged(r, s, old, new)
  <2>1. PICK kind \in CompletionKinds, output \in Outputs \cup {NoOutput}, backoff \in Backoff :
            /\ new = EndAttempt(s, old, kind, output, backoff)
            /\ kind = "StepFallbackSelected" => Fallback[s] # NoTask /\ ~old.fallbackUsed
            /\ EventsOn(r, s) = {StepEvent(kind, s, old.attempts)}
    BY <1>3 DEF EndLogged
  <2>2. /\ new.status = Announces[kind] /\ new.attempts = old.attempts
        /\ new.fallbackUsed = (old.fallbackUsed \/ kind = "StepFallbackSelected")
    <3> HIDE DEF new, old
    <3> QED
      BY <1>1, <2>1, EndAttemptFields
  <2>3. new.status # "Running" /\ old.status = "Running"
    BY <1>3, <2>2 DEF Announces, CompletionKinds, StepEventKinds, EndLogged
  <2>4. kind \in StepEventKinds
    BY DEF CompletionKinds
  <2>5. /\ e.kind = kind
        /\ kind # "StepFallbackSelected" => e.attempt = old.attempts
    BY <2>1, <2>4, StepEventFields
  <2>6. PastEvent(new, e)
    <3>1. old.attempts <= old.attempts
      BY <1>1
    <3> QED
      BY <2>2, <2>3, <2>5, <3>1 DEF PastEvent
  <2>7. ~PastEvent(old, e)
    BY <2>1, <2>3, <2>5 DEF PastEvent
  <2>8. ~Logged(r, e)
    BY <1>1, <2>5, <2>7 DEF Logged, LogIsPast
  <2> QED
    BY <2>6, <2>8
<1>4. CASE CancelledSilently(r, s, old, new) \/ StartedSilently(r, s, old, new)
  BY <1>4 DEF CancelledSilently, StartedSilently
<1> QED
  BY <1>2, <1>3, <1>4 DEF Told

LEMMA FreshEventIsNew ==
    ASSUME IInv, LogIsPast, Tells, NEW r \in Runs, NEW i \in Fresh(r)
    PROVE  LET e == log'[r][i].event
           IN  /\ e.kind # "RunFinished" => ~Logged(r, e)
               /\ e.kind \in CompletionKinds => PastEvent(steps'[r][e.step], e)
<1> DEFINE e == log'[r][i].event
<1>1. e \in NewEvents(r) /\ RunTold(r)
  BY DEF NewEvents, Tells
<1>2. CASE e.step \in Steps
  <2>1. e \in EventsOn(r, e.step)
    BY <1>1 DEF EventsOn
  <2>2. Told(r, e.step)
    BY <1>2 DEF Tells
  <2> HIDE DEF e
  <2>3. PICK s \in Steps : s = e.step
    BY <1>2
  <2> QED
    BY <2>1, <2>2, <2>3, NewStepEvent DEF e
<1>3. CASE e.kind = "RunFinished" \/ (e.kind = "RunStarted" /\ ~LoggedKind(r, "RunStarted"))
  BY <1>3 DEF Logged, LoggedKind, CompletionKinds, StepEventKinds, Announces
<1> QED
  BY <1>1, <1>2, <1>3 DEF RunTold

\* A position of the new log is one of the old log or a fresh one.
LEMMA Positions ==
    ASSUME TypeOK, TypeOK', NEW r \in Runs, KeepsLog(r), NEW i \in DOMAIN log'[r]
    PROVE  /\ i \in Nat
           /\ \/ i \in DOMAIN log[r] /\ log'[r][i] = log[r][i] /\ i <= Len(log[r])
              \/ i \in Fresh(r) /\ i > Len(log[r])
<1>1. log[r] \in Seq(EventEnvelope) /\ log'[r] \in Seq(EventEnvelope)
  BY DEF TypeOK
<1>2. DOMAIN log[r] = 1..Len(log[r]) /\ DOMAIN log'[r] = 1..Len(log'[r])
      /\ Len(log[r]) \in Nat /\ Len(log'[r]) \in Nat
  BY <1>1
<1> QED
  BY <1>2 DEF KeepsLog, Fresh

LEMMA PastIsKept ==
    ASSUME IInv, IInv', LogIsPast, Tells PROVE LogIsPast'
<1> SUFFICES ASSUME NEW r \in Runs, NEW i \in DOMAIN log'[r],
                    log'[r][i].event.kind \in CompletionKinds
             PROVE  PastEvent(steps'[r][log'[r][i].event.step], log'[r][i].event)
  BY DEF LogIsPast
<1>1. KeepsLog(r)
  BY DEF Tells, LogsGrow
<1>2. CASE i \in Fresh(r)
  BY <1>2, FreshEventIsNew
<1>3. CASE i \in DOMAIN log[r] /\ log'[r][i] = log[r][i]
  <2> DEFINE e == log[r][i].event
  <2>1. e \in Event /\ e.kind \in CompletionKinds
    BY <1>3, LoggedEventType DEF IInv
  <2>2. e.step \in Steps /\ e.attempt \in Nat
    BY <2>1, CompletionEventType
  <2>3. PastEvent(steps[r][e.step], e)
    BY <1>3, <2>1 DEF LogIsPast
  <2>4. Told(r, e.step)
    BY <2>2 DEF Tells
  <2> HIDE DEF e
  <2>5. PICK s \in Steps : s = e.step
    BY <2>2
  <2>6. PICK f : f = e
    OBVIOUS
  <2>7. PastEvent(steps'[r][s], f)
    BY <2>2, <2>3, <2>4, <2>5, <2>6, PastStays
  <2> QED
    BY <1>3, <2>5, <2>6, <2>7 DEF e
<1> QED
  BY <1>1, <1>2, <1>3, Positions DEF IInv

LEMMA DeduplicationIsKept ==
    ASSUME IInv, IInv', LogIsPast, EventsAreDeduplicable, Tells
    PROVE  EventsAreDeduplicable'
<1> DEFINE seq(r, i)  == log[r][i].sequence
           seqP(r, i) == log'[r][i].sequence
<1>1. /\ nextEventSequence \in Nat /\ nextEventSequence' \in Nat
      /\ nextEventSequence <= nextEventSequence'
  BY DEF IInv, TypeOK, Tells, LogsGrow
<1>2. \A r \in Runs : \A i \in DOMAIN log[r] : seq(r, i) \in Nat /\ seq(r, i) <= nextEventSequence
  BY LoggedEventType DEF IInv, EventsAreDeduplicable
<1>3. \A r \in Runs : \A i \in DOMAIN log'[r] : seqP(r, i) \in Nat
  <2> SUFFICES ASSUME NEW r \in Runs, NEW i \in DOMAIN log'[r] PROVE seqP(r, i) \in Nat
    OBVIOUS
  <2>1. log'[r] \in Seq(EventEnvelope)
    BY DEF IInv, TypeOK
  <2>2. log'[r][i] \in EventEnvelope
    BY <2>1
  <2> QED
    BY <2>2 DEF EventEnvelope
<1>4. \A r \in Runs : \A i \in DOMAIN log'[r] :
          /\ i \in Nat
          /\ \/ i \in DOMAIN log[r] /\ log'[r][i] = log[r][i] /\ i <= Len(log[r])
             \/ i \in Fresh(r) /\ i > Len(log[r])
  BY Positions DEF Tells, LogsGrow, IInv
<1>5. \A r \in Runs : \A i \in DOMAIN log[r], j \in DOMAIN log[r] : i < j =>
          /\ seq(r, i) < seq(r, j)
          /\ log[r][i].event.kind # "RunFinished" => log[r][i].event # log[r][j].event
  BY DEF EventsAreDeduplicable
<1>6. \A r \in Runs : \A q \in Runs \ {r} : \A i \in DOMAIN log[r], j \in DOMAIN log[q] :
          seq(r, i) # seq(q, j)
  BY DEF EventsAreDeduplicable
<1>7. \A r \in Runs : \A i \in Fresh(r) :
          /\ nextEventSequence < seqP(r, i) /\ seqP(r, i) <= nextEventSequence'
          /\ \A j \in Fresh(r) : i < j => /\ seqP(r, i) < seqP(r, j)
                                          /\ log'[r][i].event # log'[r][j].event
          /\ \A q \in Runs \ {r} : \A j \in Fresh(q) : seqP(r, i) # seqP(q, j)
  BY DEF Tells, LogsGrow, FreshRise, FreshApart
<1>8. \A r \in Runs : \A j \in Fresh(r) : \A i \in DOMAIN log[r] :
          log'[r][j].event.kind # "RunFinished" => log[r][i].event # log'[r][j].event
  BY FreshEventIsNew DEF Logged
<1>9. ASSUME NEW r \in Runs, NEW i \in DOMAIN log'[r]
      PROVE  seqP(r, i) <= nextEventSequence'
  <2>1. CASE i \in Fresh(r)
    BY <1>7, <2>1
  <2>2. CASE i \in DOMAIN log[r] /\ seqP(r, i) = seq(r, i)
    BY <1>1, <1>2, <2>2
  <2> HIDE DEF seq, seqP
  <2> QED
    BY <1>4, <2>1, <2>2 DEF seq, seqP
<1>10. ASSUME NEW r \in Runs, NEW i \in DOMAIN log'[r], NEW j \in DOMAIN log'[r], i < j
       PROVE  /\ seqP(r, i) < seqP(r, j)
              /\ log'[r][i].event.kind # "RunFinished" => log'[r][i].event # log'[r][j].event
  <2>1. CASE i \in Fresh(r) /\ j \in Fresh(r)
    BY <1>7, <1>10, <2>1
  <2>2. CASE /\ i \in DOMAIN log[r] /\ log'[r][i] = log[r][i]
             /\ j \in DOMAIN log[r] /\ log'[r][j] = log[r][j]
    BY <1>5, <1>10, <2>2
  <2>3. CASE i \in DOMAIN log[r] /\ log'[r][i] = log[r][i] /\ j \in Fresh(r)
    <3>1. seqP(r, i) \in Nat /\ seqP(r, j) \in Nat
      BY <1>3
    <3>2. seqP(r, i) <= nextEventSequence /\ nextEventSequence < seqP(r, j)
      BY <1>2, <1>7, <2>3
    <3>3. seqP(r, i) < seqP(r, j)
      <4> HIDE DEF seqP
      <4> QED
        BY <1>1, <3>1, <3>2
    <3>4. log'[r][i].event.kind # "RunFinished" => log'[r][i].event # log'[r][j].event
      <4>1. CASE log'[r][j].event.kind = "RunFinished"
        BY <4>1
      <4>2. CASE log'[r][j].event.kind # "RunFinished"
        BY <1>8, <2>3, <4>2
      <4> QED
        BY <4>1, <4>2
    <3> QED
      BY <3>3, <3>4
  <2>4. ~(i > Len(log[r]) /\ j <= Len(log[r]))
    <3>1. i \in Nat /\ j \in Nat /\ Len(log[r]) \in Nat
      BY <1>4 DEF IInv, TypeOK
    <3> QED
      BY <1>10, <3>1
  <2> HIDE DEF seqP
  <2> QED
    BY <1>4, <2>1, <2>2, <2>3, <2>4
<1>11. ASSUME NEW r \in Runs, NEW i \in DOMAIN log'[r], NEW q \in Runs \ {r},
              NEW j \in DOMAIN log'[q]
       PROVE  seqP(r, i) # seqP(q, j)
  <2>1. \/ i \in Fresh(r)
        \/ i \in DOMAIN log[r] /\ seqP(r, i) = seq(r, i)
    BY <1>4
  <2>2. \/ j \in Fresh(q)
        \/ j \in DOMAIN log[q] /\ seqP(q, j) = seq(q, j)
    BY <1>4
  <2>3. i \in Fresh(r) => nextEventSequence < seqP(r, i)
    BY <1>7
  <2>4. j \in Fresh(q) => nextEventSequence < seqP(q, j)
    BY <1>7
  <2>5. i \in Fresh(r) /\ j \in Fresh(q) => seqP(r, i) # seqP(q, j)
    BY <1>7
  <2>6. i \in DOMAIN log[r] /\ j \in DOMAIN log[q] => seq(r, i) # seq(q, j)
    BY <1>6
  <2>7. /\ i \in DOMAIN log[r] => seq(r, i) \in Nat /\ seq(r, i) <= nextEventSequence
        /\ j \in DOMAIN log[q] => seq(q, j) \in Nat /\ seq(q, j) <= nextEventSequence
    BY <1>2
  <2> HIDE DEF seq, seqP
  <2> QED
    BY <1>1, <2>1, <2>2, <2>3, <2>4, <2>5, <2>6, <2>7
<1> QED
  BY <1>9, <1>10, <1>11 DEF EventsAreDeduplicable

LEMMA InitEvents ==
    ASSUME Init PROVE EventInv
<1>1. /\ \A r \in Runs : log[r] = <<>>
      /\ \A r \in Runs, s \in Steps : steps[r][s].status = "Absent"
  BY DEF Init, NewStep
<1> QED
  BY <1>1 DEF EventInv, EventsAreDeduplicable, LogIsPast, AbsentRunsAreEmpty

LEMMA NextEvents ==
    ASSUME IInv, TokenInv, BudgetInv, EventInv, [Next]_vars PROVE EventInv' /\ Tells
<1>1. IInv'
  BY NextIInv
<1>2. Tells
  BY NextTells DEF EventInv
<1>3. AbsentRunsAreEmpty'
  BY NextAbsent DEF EventInv
<1> QED
  BY <1>1, <1>2, <1>3, PastIsKept, DeduplicationIsKept DEF EventInv

\* The event invariant on top of those of leases, tokens and budgets.
THEOREM EventInvariant == Spec => []EventInv
<1>1. Init => EventInv
  BY InitEvents
<1>2. IInv /\ TokenInv /\ BudgetInv /\ EventInv /\ [Next]_vars => EventInv'
  BY NextEvents
<1> QED
  BY <1>1, <1>2, InductiveInvariant, TokenInvariant, BudgetInvariant, PTL DEF Spec

\* "Ordered, deduplicable" event envelopes: sequence numbers rise along every
\* log and are shared by no two runs, and no step event is logged twice,
\* whoever of record_event, complete_step and recover_expired appends it.
THEOREM LogsAreDeduplicable == Spec => []EventsAreDeduplicable
<1>1. EventInv => EventsAreDeduplicable
  BY DEF EventInv
<1> QED
  BY <1>1, EventInvariant, PTL

-----------------------------------------------------------------------------
(* What each change of a record does to the outcomes in its history *)

LEMMA EndedOutcomes ==
    ASSUME NEW s \in Steps, NEW rec \in StepRecord, NEW kind \in CompletionKinds,
           NEW output \in Outputs \cup {NoOutput}, NEW backoff \in Backoff,
           kind = "StepFallbackSelected" => Fallback[s] # NoTask,
           LeaseIsOpenAttempt(rec), rec.status = "Running"
    PROVE  LET new == EndAttempt(s, rec, kind, output, backoff)
               n   == rec.attempts
           IN  /\ n \in 1..n /\ DOMAIN new.history = 1..n /\ DOMAIN rec.history = 1..n
               /\ new.attempts = n /\ new.status = Announces[kind]
               /\ \A i \in 1..n : new.history[i].status =
                      IF i = n THEN Announces[kind] ELSE rec.history[i].status
<1> DEFINE new == EndAttempt(s, rec, kind, output, backoff)
           n   == rec.attempts
           st  == Announces[kind]
<1>1. /\ rec.history \in Seq(Attempt) /\ n = Len(rec.history) /\ n \in Nat /\ n > 0
      /\ DOMAIN rec.history = 1..n
  BY DEF LeaseIsOpenAttempt, StepRecord
<1>2. /\ new.status = st /\ st \in {"Retrying", "Succeeded", "Failed"}
      /\ new.attempts = n /\ new.history = CloseAttempt(rec, st).history
  BY EndAttemptType
<1>3. st \in StepStatuses \ {"Absent"}
  BY <1>2 DEF StepStatuses
<1> HIDE DEF new, n, st
<1>4. /\ new.history \in Seq(Attempt) /\ Len(new.history) = n
      /\ \A i \in 1..n : new.history[i] = IF i = n THEN [rec.history[i] EXCEPT !.status = st]
                                                   ELSE rec.history[i]
  BY <1>1, <1>2, <1>3, CloseAttemptHistory
<1>5. DOMAIN new.history = 1..n /\ n \in 1..n
  BY <1>1, <1>4
<1>6. \A i \in 1..n : rec.history[i] \in Attempt
  BY <1>1
<1>7. \A i \in 1..n : new.history[i].status = IF i = n THEN st ELSE rec.history[i].status
  BY <1>4, <1>6 DEF Attempt
<1> QED
  BY <1>1, <1>2, <1>5, <1>7 DEF new, n, st

LEMMA CancelledOutcomes ==
    ASSUME NEW rec \in StepRecord
    PROVE  LET new == CancelStep(rec)
               n   == Len(rec.history)
           IN  /\ DOMAIN new.history = 1..n /\ DOMAIN rec.history = 1..n
               /\ \A i \in 1..n :
                      \/ new.history[i].status = rec.history[i].status
                      \/ rec.history[i].status = "Running" /\ new.history[i].status = "Cancelled"
<1> DEFINE h      == rec.history
           n      == Len(h)
           closed == IF Last(h).status = "Running" THEN CloseAttempt(rec, "Cancelled") ELSE rec
           new    == [closed EXCEPT !.status = "Cancelled", !.lease = NoLease]
           Outcomes(g) == /\ DOMAIN g = 1..n
                          /\ \A i \in 1..n :
                                 \/ g[i].status = h[i].status
                                 \/ h[i].status = "Running" /\ g[i].status = "Cancelled"
<1>1. h \in Seq(Attempt) /\ n \in Nat /\ DOMAIN h = 1..n /\ \A i \in 1..n : h[i] \in Attempt
  BY DEF StepRecord
<1>2. "Cancelled" \in StepStatuses \ {"Absent"}
  BY DEF StepStatuses
<1>3. Outcomes(h)
  BY <1>1
<1>4. closed \in StepRecord /\ Outcomes(closed.history)
  <2>1. CASE Last(h).status = "Running"
    <3> DEFINE g == CloseAttempt(rec, "Cancelled").history
    <3>1. /\ g \in Seq(Attempt) /\ Len(g) = n
          /\ \A i \in 1..n : g[i] = IF i = n THEN [h[i] EXCEPT !.status = "Cancelled"] ELSE h[i]
      BY <1>2, CloseAttemptHistory
    <3>2. CloseAttempt(rec, "Cancelled") \in StepRecord
      BY <1>2, CloseAttemptType
    <3> HIDE DEF g, h, n
    <3>3. DOMAIN g = 1..n
      BY <3>1
    <3>4. \A i \in 1..n : g[i].status = IF i = n THEN "Cancelled" ELSE h[i].status
      BY <1>1, <3>1 DEF Attempt
    <3>5. n \in 1..n => h[n].status = "Running"
      BY <2>1 DEF Last, n
    <3>6. Outcomes(g)
      BY <3>3, <3>4, <3>5
    <3> QED
      BY <2>1, <3>2, <3>6 DEF g, h, n
  <2>2. CASE Last(h).status # "Running"
    BY <1>3, <2>2
  <2> QED
    BY <2>1, <2>2
<1>5. CancelStep(rec) = rec \/ CancelStep(rec) = new
  BY DEF CancelStep
<1> HIDE DEF closed
<1>6. new.history = closed.history
  BY <1>4 DEF StepRecord
<1> HIDE DEF new
<1> QED
  BY <1>1, <1>3, <1>4, <1>5, <1>6

LEMMA StartedOutcomes ==
    ASSUME NEW rec \in StepRecord, LeaseIsOpenAttempt(rec), NEW w \in Workers, NEW token \in Nat
    PROVE  LET new == StartAttempt(rec, w, token)
               n   == rec.attempts
           IN  /\ n \in Nat /\ DOMAIN new.history = 1..(n + 1) /\ DOMAIN rec.history = 1..n
               /\ new.attempts = n + 1 /\ new.status = "Running"
               /\ new.history[n + 1].status = "Running"
               /\ \A i \in 1..n : new.history[i] = rec.history[i]
<1> DEFINE h == rec.history
           n == rec.attempts
           e == [number |-> n + 1, worker |-> w, token |-> token, status |-> "Running"]
           g == Append(h, e)
           new == StartAttempt(rec, w, token)
<1>1. h \in Seq(Attempt) /\ n \in Nat /\ Len(h) = n /\ DOMAIN h = 1..n
  BY DEF StepRecord, LeaseIsOpenAttempt
<1>2. new.history = g /\ new.attempts = n + 1 /\ new.status = "Running"
  BY DEF StartAttempt, StepRecord
<1>3. e.status = "Running"
  OBVIOUS
<1> HIDE DEF e, h, n, new
<1>4. DOMAIN g = 1..(n + 1) /\ g[n + 1] = e /\ \A i \in 1..n : g[i] = h[i]
  BY <1>1
<1> QED
  BY <1>1, <1>2, <1>3, <1>4 DEF h, n, new

-----------------------------------------------------------------------------
(* The log tells the history *)

Ends == {"StepSucceeded", "StepFailed"}

\* What LogTellsHistory says of the n-th attempt of a step.
AttemptTold(r, s, n) ==
    LET st == steps[r][s].history[n].status
    IN  /\ \A kind \in Ends : Logged(r, StepEvent(kind, s, n)) <=> st = Announces[kind]
        /\ st = "Retrying" => \/ Logged(r, StepEvent("StepRetrying", s, n))
                              \/ Logged(r, StepEvent("StepFallbackSelected", s, n))

\* A settled step has the status of its last attempt, so that a late
\* record_event repeats what the history says.
HistoryTold(r, s) ==
    LET rec == steps[r][s]
    IN  /\ rec.status \in {"Succeeded", "Failed"} =>
               /\ rec.attempts \in DOMAIN rec.history
               /\ rec.history[rec.attempts].status = rec.status
        /\ \A n \in DOMAIN rec.history : AttemptTold(r, s, n)

HistoryInv == \A r \in Runs, s \in Steps : HistoryTold(r, s)

LEMMA EndsAnnounce ==
    /\ Ends \subseteq StepEventKinds /\ Ends \subseteq CompletionKinds
    /\ \A kind \in Ends : kind # "StepFallbackSelected"
    /\ \A kind \in Ends : Announces[kind] \in {"Succeeded", "Failed"}
    /\ \A kind \in Ends, k \in StepEventKinds : Announces[k] = Announces[kind] => k = kind
    /\ \A k \in CompletionKinds :
           Announces[k] = "Retrying" => k \in {"StepRetrying", "StepFallbackSelected"}
BY DEF Ends, CompletionKinds, StepEventKinds, Announces

\* A log holds afterwards what it held and what the step added.
LEMMA LoggedNow ==
    ASSUME IInv, IInv', Tells, NEW r \in Runs, NEW e
    PROVE  /\ Logged(r, e) => Logged(r, e)'
           /\ e \in NewEvents(r) => Logged(r, e)'
           /\ Logged(r, e)' => Logged(r, e) \/ e \in NewEvents(r)
<1>1. KeepsLog(r)
  BY DEF Tells, LogsGrow
<1>2. /\ log[r] \in Seq(EventEnvelope) /\ log'[r] \in Seq(EventEnvelope)
      /\ DOMAIN log[r] = 1..Len(log[r]) /\ DOMAIN log'[r] = 1..Len(log'[r])
      /\ Len(log[r]) \in Nat /\ Len(log'[r]) \in Nat
  BY DEF IInv, TypeOK
<1>3. \A i \in DOMAIN log[r] : i \in DOMAIN log'[r] /\ log'[r][i] = log[r][i]
  BY <1>1, <1>2 DEF KeepsLog
<1>4. Fresh(r) \subseteq DOMAIN log'[r]
  BY <1>2 DEF Fresh
<1>5. Logged(r, e)' <=> \E i \in DOMAIN log'[r] : log'[r][i].event = e
  BY DEF Logged
<1>6. Logged(r, e) => Logged(r, e)'
  BY <1>3, <1>5 DEF Logged
<1>7. e \in NewEvents(r) => Logged(r, e)'
  BY <1>4, <1>5 DEF NewEvents
<1>8. ASSUME Logged(r, e)' PROVE Logged(r, e) \/ e \in NewEvents(r)
  <2>1. PICK i \in DOMAIN log'[r] : log'[r][i].event = e
    BY <1>5, <1>8
  <2>2. \/ i \in DOMAIN log[r] /\ log'[r][i] = log[r][i]
        \/ i \in Fresh(r)
    BY <1>1, Positions DEF IInv
  <2> QED
    BY <2>1, <2>2 DEF Logged, NewEvents
<1> QED
  BY <1>6, <1>7, <1>8

\* Of events about one step, the log gains those the step logged about it.
LEMMA LoggedOn ==
    ASSUME IInv, IInv', Tells, NEW r \in Runs, NEW s \in Steps,
           NEW kind \in StepEventKinds, NEW n
    PROVE  LET e == StepEvent(kind, s, n)
           IN  Logged(r, e)' <=> Logged(r, e) \/ e \in EventsOn(r, s)
<1> DEFINE e == StepEvent(kind, s, n)
<1>1. e.step = s
  BY StepEventFields
<1>2. e \in EventsOn(r, s) <=> e \in NewEvents(r)
  BY <1>1 DEF EventsOn
<1>3. PICK f : f = e
  OBVIOUS
<1>4. Logged(r, f)' <=> Logged(r, f) \/ f \in NewEvents(r)
  BY LoggedNow
<1> QED
  BY <1>2, <1>3, <1>4

\* No end is logged of an attempt that is running or still to come.
LEMMA EndNotLogged ==
    ASSUME LogIsPast, NEW r \in Runs, NEW s \in Steps, NEW kind \in Ends, NEW n,
           \/ n = steps[r][s].attempts /\ steps[r][s].status = "Running"
           \/ ~(n <= steps[r][s].attempts)
    PROVE  ~Logged(r, StepEvent(kind, s, n))
<1> DEFINE e == StepEvent(kind, s, n)
<1>1. /\ e.kind = kind /\ e.step = s /\ e.attempt = n
      /\ kind \in CompletionKinds /\ kind # "StepFallbackSelected"
  BY EndsAnnounce, StepEventFields
<1>2. ~PastEvent(steps[r][s], e)
  BY <1>1 DEF PastEvent
<1> HIDE DEF e
<1>3. ~Logged(r, e)
  BY <1>1, <1>2 DEF Logged, LogIsPast
<1> QED
  BY <1>3 DEF e

\* An attempt whose outcome stays is told as before when nothing is logged of
\* it, or only what record_event accepts.
LEMMA AttemptToldKept ==
    ASSUME IInv, IInv', Tells, NEW r \in Runs, NEW s \in Steps, NEW n, AttemptTold(r, s, n),
           steps'[r][s].history[n].status = steps[r][s].history[n].status,
           \A kind \in Ends : StepEvent(kind, s, n) \in EventsOn(r, s) =>
                                  steps[r][s].history[n].status = Announces[kind]
    PROVE  AttemptTold(r, s, n)'
<1>1. \A kind \in Ends : /\ Logged(r, StepEvent(kind, s, n))'
                                <=> Logged(r, StepEvent(kind, s, n))
                                      \/ StepEvent(kind, s, n) \in EventsOn(r, s)
  BY EndsAnnounce, LoggedOn
<1>2. \A kind \in {"StepRetrying", "StepFallbackSelected"} :
          Logged(r, StepEvent(kind, s, n)) => Logged(r, StepEvent(kind, s, n))'
  <2>1. {"StepRetrying", "StepFallbackSelected"} \subseteq StepEventKinds
    BY DEF StepEventKinds, Announces
  <2> QED
    BY <2>1, LoggedOn
<1> QED
  BY <1>1, <1>2 DEF AttemptTold

LEMMA RecordedHistory ==
    ASSUME IInv, IInv', Tells, NEW r \in Runs, NEW s \in Steps, HistoryTold(r, s),
           Recorded(r, s, steps[r][s], steps'[r][s])
    PROVE  HistoryTold(r, s)'
<1> DEFINE old == steps[r][s]
           new == steps'[r][s]
<1>1. /\ new.status = old.status /\ new.attempts = old.attempts /\ new.history = old.history
      /\ \A e \in EventsOn(r, s) : e.kind \in StepEventKinds /\ StepEventIsValid(r, e)
  BY DEF Recorded, SameAttempt
<1>2. ASSUME NEW n \in DOMAIN old.history PROVE AttemptTold(r, s, n)'
  <2>1. ASSUME NEW kind \in Ends, StepEvent(kind, s, n) \in EventsOn(r, s)
        PROVE  old.history[n].status = Announces[kind]
    <3> DEFINE e == StepEvent(kind, s, n)
    <3>1. /\ e.kind = kind /\ e.step = s /\ e.attempt = n
      BY EndsAnnounce, StepEventFields
    <3> HIDE DEF e
    <3>2. StepEventIsValid(r, e)
      BY <1>1, <2>1 DEF e
    <3>3. old.status = Announces[kind] /\ old.attempts = n
      BY <3>1, <3>2, EndsAnnounce DEF StepEventIsValid
    <3> QED
      BY <3>3, EndsAnnounce DEF HistoryTold
  <2>2. AttemptTold(r, s, n)
    BY DEF HistoryTold
  <2> QED
    BY <1>1, <2>1, <2>2, AttemptToldKept
<1> QED
  BY <1>1, <1>2 DEF HistoryTold

LEMMA CancelledHistory ==
    ASSUME IInv, IInv', Tells, LogIsPast, NEW r \in Runs, NEW s \in Steps, HistoryTold(r, s),
           CancelledSilently(r, s, steps[r][s], steps'[r][s])
    PROVE  HistoryTold(r, s)'
<1> DEFINE old == steps[r][s]
           new == steps'[r][s]
           N   == Len(old.history)
<1>1. /\ old \in StepRecord /\ LeaseIsOpenAttempt(old)
      /\ new = CancelStep(old) /\ EventsOn(r, s) = {}
  BY DEF IInv, TypeOK, LeaseMatchesOpenAttempt, CancelledSilently, StepCancelled
<1>2. /\ DOMAIN new.history = 1..N /\ DOMAIN old.history = 1..N
      /\ \A i \in 1..N :
             \/ new.history[i].status = old.history[i].status
             \/ old.history[i].status = "Running" /\ new.history[i].status = "Cancelled"
  <2> HIDE DEF old, new
  <2> QED
    BY <1>1, CancelledOutcomes DEF N
<1>3. new = old \/ new.status = "Cancelled"
  <2> HIDE DEF old, new
  <2> QED
    BY <1>1, CancelStepFields
<1>4. ASSUME NEW n \in 1..N PROVE AttemptTold(r, s, n)'
  <2>1. AttemptTold(r, s, n)
    BY <1>2 DEF HistoryTold
  <2>2. CASE new.history[n].status = old.history[n].status
    BY <1>1, <2>1, <2>2, AttemptToldKept
  <2>3. CASE old.history[n].status = "Running" /\ new.history[n].status = "Cancelled"
    <3>1. ASSUME NEW kind \in Ends PROVE ~Logged(r, StepEvent(kind, s, n))'
      <4>1. Announces[kind] # "Running"
        BY EndsAnnounce
      <4>2. ~Logged(r, StepEvent(kind, s, n))
        BY <2>1, <2>3, <4>1 DEF AttemptTold
      <4> QED
        BY <1>1, <4>2, LoggedOn, EndsAnnounce
    <3>2. \A kind \in Ends : Announces[kind] # "Cancelled"
      BY EndsAnnounce
    <3> QED
      BY <2>3, <3>1, <3>2 DEF AttemptTold
  <2> QED
    BY <1>2, <2>2, <2>3
<1> QED
  BY <1>2, <1>3, <1>4 DEF HistoryTold

LEMMA StartedHistory ==
    ASSUME IInv, IInv', Tells, LogIsPast, NEW r \in Runs, NEW s \in Steps, HistoryTold(r, s),
           StartedSilently(r, s, steps[r][s], steps'[r][s])
    PROVE  HistoryTold(r, s)'
<1> DEFINE old == steps[r][s]
           new == steps'[r][s]
           N   == old.attempts
<1>1. PICK w \in Workers, token \in Nat : new = StartAttempt(old, w, token)
  BY DEF StartedSilently
<1>2. old \in StepRecord /\ LeaseIsOpenAttempt(old) /\ EventsOn(r, s) = {}
  BY DEF IInv, TypeOK, LeaseMatchesOpenAttempt, StartedSilently
<1>3. /\ N \in Nat /\ DOMAIN new.history = 1..(N + 1) /\ DOMAIN old.history = 1..N
      /\ new.status = "Running" /\ new.history[N + 1].status = "Running"
      /\ \A i \in 1..N : new.history[i] = old.history[i]
  <2> HIDE DEF old, new
  <2> QED
    BY <1>1, <1>2, StartedOutcomes DEF N
<1>4. ASSUME NEW n \in 1..N PROVE AttemptTold(r, s, n)'
  <2>1. AttemptTold(r, s, n)
    BY <1>3 DEF HistoryTold
  <2> QED
    BY <1>2, <1>3, <2>1, AttemptToldKept
<1>5. ASSUME NEW n, n = N + 1 PROVE AttemptTold(r, s, n)'
  <2>1. ~(n <= N)
    BY <1>3, <1>5
  <2>2. ASSUME NEW kind \in Ends PROVE ~Logged(r, StepEvent(kind, s, n))'
    BY <1>2, <2>1, EndNotLogged, LoggedOn, EndsAnnounce
  <2>3. \A kind \in Ends : Announces[kind] # "Running"
    BY EndsAnnounce
  <2>4. new.history[n].status = "Running"
    BY <1>3, <1>5
  <2> QED
    BY <2>2, <2>3, <2>4 DEF AttemptTold
<1>6. \A n \in 1..(N + 1) : n \in 1..N \/ n = N + 1
  BY <1>3
<1>7. \A n \in DOMAIN new.history : AttemptTold(r, s, n)'
  BY <1>3, <1>4, <1>5, <1>6
<1> QED
  BY <1>3, <1>7 DEF HistoryTold

LEMMA EndedHistory ==
    ASSUME IInv, IInv', Tells, LogIsPast, NEW r \in Runs, NEW s \in Steps, HistoryTold(r, s),
           EndLogged(r, s, steps[r][s], steps'[r][s])
    PROVE  HistoryTold(r, s)'
<1> DEFINE old == steps[r][s]
           new == steps'[r][s]
           N   == old.attempts
<1>1. PICK k \in CompletionKinds, output \in Outputs \cup {NoOutput}, backoff \in Backoff :
          /\ new = EndAttempt(s, old, k, output, backoff)
          /\ k = "StepFallbackSelected" => Fallback[s] # NoTask
          /\ EventsOn(r, s) = {StepEvent(k, s, N)}
  BY DEF EndLogged
<1>2. old \in StepRecord /\ LeaseIsOpenAttempt(old) /\ old.status = "Running"
  BY DEF IInv, TypeOK, LeaseMatchesOpenAttempt, EndLogged
<1>3. /\ N \in 1..N /\ DOMAIN new.history = 1..N /\ DOMAIN old.history = 1..N
      /\ new.attempts = N /\ new.status = Announces[k]
      /\ \A i \in 1..N : new.history[i].status =
             IF i = N THEN Announces[k] ELSE old.history[i].status
  <2> HIDE DEF old, new
  <2> QED
    BY <1>1, <1>2, EndedOutcomes DEF N
<1>4. k \in StepEventKinds
  BY DEF CompletionKinds
<1>5. ASSUME NEW kind \in Ends, NEW n
      PROVE  StepEvent(kind, s, n) \in EventsOn(r, s) <=> kind = k /\ n = N
  <2>1. kind \in StepEventKinds /\ kind # "StepFallbackSelected"
    BY EndsAnnounce
  <2>2. StepEvent(kind, s, n).kind = kind /\ StepEvent(kind, s, n).attempt = n
    BY <2>1, StepEventFields
  <2>3. /\ StepEvent(k, s, N).kind = k
        /\ k # "StepFallbackSelected" => StepEvent(k, s, N).attempt = N
    BY <1>4, StepEventFields
  <2>4. ASSUME StepEvent(kind, s, n) = StepEvent(k, s, N) PROVE kind = k /\ n = N
    BY <2>1, <2>2, <2>3, <2>4
  <2>5. kind = k /\ n = N => StepEvent(kind, s, n) = StepEvent(k, s, N)
    OBVIOUS
  <2> QED
    BY <1>1, <2>4, <2>5
<1>6. ASSUME NEW n \in 1..N, n # N PROVE AttemptTold(r, s, n)'
  <2>1. AttemptTold(r, s, n)
    BY <1>3 DEF HistoryTold
  <2>2. new.history[n].status = old.history[n].status
    BY <1>3, <1>6
  <2>3. \A kind \in Ends : StepEvent(kind, s, n) \notin EventsOn(r, s)
    BY <1>5, <1>6
  <2> QED
    BY <2>1, <2>2, <2>3, AttemptToldKept
<1>7. ASSUME NEW n, n = N PROVE AttemptTold(r, s, n)'
  <2>1. new.history[n].status = Announces[k]
    BY <1>3, <1>7
  <2>2. ASSUME NEW kind \in Ends
        PROVE  Logged(r, StepEvent(kind, s, n))' <=> Announces[k] = Announces[kind]
    <3>1. kind \in StepEventKinds /\ (Announces[k] = Announces[kind] => k = kind)
      BY <1>4, EndsAnnounce
    <3>2. ~Logged(r, StepEvent(kind, s, n))
      BY <1>2, <1>7, EndNotLogged
    <3>3. Logged(r, StepEvent(kind, s, n))'
              <=> Logged(r, StepEvent(kind, s, n)) \/ StepEvent(kind, s, n) \in EventsOn(r, s)
      BY <3>1, LoggedOn
    <3>4. StepEvent(kind, s, n) \in EventsOn(r, s) <=> kind = k
      BY <1>5, <1>7
    <3> QED
      BY <3>1, <3>2, <3>3, <3>4
  <2>3. ASSUME Announces[k] = "Retrying"
        PROVE  \/ Logged(r, StepEvent("StepRetrying", s, n))'
               \/ Logged(r, StepEvent("StepFallbackSelected", s, n))'
    <3>1. k \in {"StepRetrying", "StepFallbackSelected"}
      BY <2>3, EndsAnnounce
    <3>2. StepEvent(k, s, n) \in EventsOn(r, s)
      BY <1>1, <1>7
    <3>3. Logged(r, StepEvent(k, s, n))'
      BY <1>4, <3>2, LoggedOn
    <3> QED
      BY <3>1, <3>3
  <2> QED
    BY <2>1, <2>2, <2>3 DEF AttemptTold
<1>8. \A n \in DOMAIN new.history : AttemptTold(r, s, n)'
  BY <1>3, <1>6, <1>7
<1>9. new.status \in {"Succeeded", "Failed"} =>
          new.attempts \in DOMAIN new.history /\ new.history[new.attempts].status = new.status
  <2> HIDE DEF new, N
  <2> QED
    BY <1>3
<1> QED
  BY <1>8, <1>9 DEF HistoryTold

LEMMA InitHistory ==
    ASSUME Init PROVE HistoryInv
<1>1. \A r \in Runs, s \in Steps : steps[r][s] = NewStep(s)
  BY DEF Init
<1>2. \A s \in Steps : NewStep(s).status = "Absent" /\ NewStep(s).history = <<>>
  BY DEF NewStep
<1> QED
  BY <1>1, <1>2 DEF HistoryInv, HistoryTold

LEMMA NextHistory ==
    ASSUME IInv, TokenInv, BudgetInv, EventInv, HistoryInv, [Next]_vars
    PROVE  HistoryInv'
<1>1. IInv' /\ Tells /\ LogIsPast
  BY NextIInv, NextEvents DEF EventInv
<1>2. ASSUME NEW r \in Runs, NEW s \in Steps PROVE HistoryTold(r, s)'
  <2>1. Told(r, s) /\ HistoryTold(r, s)
    BY <1>1 DEF Tells, HistoryInv
  <2> QED
    BY <1>1, <2>1, RecordedHistory, EndedHistory, CancelledHistory, StartedHistory DEF Told
<1> QED
  BY <1>2 DEF HistoryInv

\* Events and state are committed together: an attempt's history entry is
\* Succeeded or Failed exactly when the log has that event of it, and sent back
\* for retry only with an event that says so.
THEOREM LogsTellHistory == Spec => []LogTellsHistory
<1>1. Init => HistoryInv
  BY InitHistory
<1>2. IInv /\ TokenInv /\ BudgetInv /\ EventInv /\ HistoryInv /\ [Next]_vars => HistoryInv'
  BY NextHistory
<1>3. HistoryInv => LogTellsHistory
  BY DEF HistoryInv, HistoryTold, AttemptTold, LogTellsHistory, Ends
<1> QED
  BY <1>1, <1>2, <1>3, InductiveInvariant, TokenInvariant, BudgetInvariant, EventInvariant,
     PTL DEF Spec

-----------------------------------------------------------------------------
(* The end of a lease *)

\* complete_step, recover_expired and cancel_run each take a lease away, close
\* the attempt and, but for cancel_run, push one event, in three places of the
\* code: one new position of the log names step, outcome and attempt.
LeaseEndIsTold(r, s) ==
    LET old == steps[r][s]
        new == steps'[r][s]
        e(i) == log'[r][i].event
    IN  old.lease # NoLease /\ new.lease = NoLease =>
            /\ new.attempts = old.attempts
            /\ new.history[new.attempts].status = new.status
            /\ \/ new.status = "Cancelled" /\ \A i \in Fresh(r) : e(i).step # s
               \/ \E i \in Fresh(r) :
                      /\ e(i).step = s /\ e(i).kind \in CompletionKinds
                      /\ Announces[e(i).kind] = new.status
                      /\ IF e(i).kind = "StepFallbackSelected"
                         THEN new.fallbackUsed /\ ~old.fallbackUsed
                         ELSE /\ e(i).attempt = new.attempts
                              /\ new.fallbackUsed = old.fallbackUsed
                      /\ \A j \in Fresh(r) \ {i} : e(j).step # s

\* recover_expired takes every expired lease, of whatever run, and tells of no
\* other step.
RecoveryIsComplete ==
    RecoverExpired => \A r \in Runs, s \in Steps :
        IF s \in Expired(r)
        THEN steps'[r][s].lease = NoLease /\ steps'[r][s].status # "Cancelled"
        ELSE steps'[r][s] = steps[r][s] /\ EventsOn(r, s) = {}

LeaseEndsAreTold ==
    [][RecoveryIsComplete /\ \A r \in Runs, s \in Steps : LeaseEndIsTold(r, s)]_vars

\* An attempt that ends is announced at one fresh position.
LEMMA EndIsTold ==
    ASSUME IInv, IInv', Tells, NEW r \in Runs, NEW s \in Steps,
           EndLogged(r, s, steps[r][s], steps'[r][s])
    PROVE  LeaseEndIsTold(r, s)
<1> DEFINE old == steps[r][s]
           new == steps'[r][s]
           n   == old.attempts
<1>1. PICK kind \in CompletionKinds, output \in Outputs \cup {NoOutput}, backoff \in Backoff :
          /\ new = EndAttempt(s, old, kind, output, backoff)
          /\ kind = "StepFallbackSelected" => Fallback[s] # NoTask /\ ~old.fallbackUsed
          /\ EventsOn(r, s) = {StepEvent(kind, s, n)}
  BY DEF EndLogged
<1>2. old \in StepRecord /\ LeaseIsOpenAttempt(old) /\ old.status = "Running"
  BY DEF IInv, TypeOK, LeaseMatchesOpenAttempt, EndLogged
<1>3. /\ new.attempts = n /\ new.status = Announces[kind] /\ new.history[n].status = Announces[kind]
  <2> HIDE DEF old, new
  <2> QED
    BY <1>1, <1>2, EndedOutcomes DEF old
<1>4. new.fallbackUsed = (old.fallbackUsed \/ kind = "StepFallbackSelected")
  <2> HIDE DEF old, new
  <2> QED
    BY <1>1, <1>2, EndAttemptFields
<1> DEFINE ev   == StepEvent(kind, s, n)
           e(i) == log'[r][i].event
<1>5. /\ ev.step = s /\ ev.kind = kind
      /\ kind # "StepFallbackSelected" => ev.attempt = n
  BY StepEventFields DEF CompletionKinds
<1> HIDE DEF ev
<1>6. \A i \in Fresh(r) : e(i).step = s => e(i) = ev
  BY <1>1 DEF EventsOn, NewEvents, ev
<1>7. PICK i \in Fresh(r) : e(i) = ev
  <2>1. ev \in EventsOn(r, s)
    BY <1>1 DEF ev
  <2> QED
    BY <2>1 DEF EventsOn, NewEvents
<1>8. ASSUME NEW j \in Fresh(r), j # i, e(j) = ev PROVE FALSE
  <2>1. i \in Int /\ j \in Int /\ (i < j \/ j < i)
    <3>1. Len(log[r]) \in Nat /\ Len(log'[r]) \in Nat
      BY DEF IInv, TypeOK
    <3> QED
      BY <1>8, <3>1 DEF Fresh
  <2>2. FreshRise(r)
    BY DEF Tells, LogsGrow
  <2> QED
    BY <1>7, <1>8, <2>1, <2>2 DEF FreshRise
<1>9. \A j \in Fresh(r) \ {i} : e(j).step # s
  BY <1>6, <1>8
<1>10. /\ e(i).step = s /\ e(i).kind = kind
       /\ kind # "StepFallbackSelected" => e(i).attempt = n
  BY <1>5, <1>7
<1>11. IF kind = "StepFallbackSelected" THEN new.fallbackUsed /\ ~old.fallbackUsed
       ELSE new.fallbackUsed = old.fallbackUsed
  BY <1>1, <1>2, <1>4 DEF StepRecord
<1> HIDE DEF old, new, e
<1> QED
  BY <1>3, <1>9, <1>10, <1>11 DEF LeaseEndIsTold, old, new, e

\* A cancelled step closes its open attempt as Cancelled.
LEMMA CancelIsTold ==
    ASSUME IInv, IInv', NEW r \in Runs, NEW s \in Steps,
           CancelledSilently(r, s, steps[r][s], steps'[r][s])
    PROVE  LeaseEndIsTold(r, s)
<1> DEFINE old == steps[r][s]
           new == steps'[r][s]
           n   == old.attempts
<1>1. new = CancelStep(old) /\ EventsOn(r, s) = {}
  BY DEF CancelledSilently, StepCancelled
<1>2. /\ old \in StepRecord /\ LeaseIsOpenAttempt(old) /\ LeaseIsOpenAttempt(new)
  BY DEF IInv, TypeOK, LeaseMatchesOpenAttempt
<1>3. \A i \in Fresh(r) : log'[r][i].event.step # s
  BY <1>1 DEF EventsOn, NewEvents
<1>4. ASSUME old.lease # NoLease
      PROVE  /\ new.attempts = n /\ new.status = "Cancelled"
             /\ new.history[n].status = "Cancelled"
  <2> HIDE DEF new
  <2>1. /\ old.status = "Running" /\ n = Len(old.history) /\ n \in Nat /\ n > 0
        /\ old.history[n].status = "Running"
    BY <1>2, <1>4 DEF LeaseIsOpenAttempt, StepRecord
  <2>2. new.attempts = n /\ new.status = "Cancelled"
    BY <1>1, <1>2, <2>1, CancelStepFenced
  <2>3. DOMAIN new.history = 1..n /\ n \in 1..n
    BY <1>1, <1>2, <2>1, CancelledOutcomes
  <2>4. new.history[n].status \in {"Running", "Cancelled"}
    BY <1>1, <1>2, <2>1, <2>3, CancelledOutcomes
  <2>5. Len(new.history) = n
    BY <1>2, <2>2 DEF LeaseIsOpenAttempt
  <2>6. new.history[n].status # "Running"
    BY <1>2, <2>2, <2>3, <2>5 DEF LeaseIsOpenAttempt
  <2> QED
    BY <2>2, <2>4, <2>6
<1> HIDE DEF old, new
<1> QED
  BY <1>3, <1>4 DEF LeaseEndIsTold, old, new

\* Starting an attempt, renewing and the clock take no lease away.
LEMMA OthersKeepLease ==
    ASSUME IInv, IInv', NEW r \in Runs, NEW s \in Steps,
           \/ Recorded(r, s, steps[r][s], steps'[r][s])
           \/ StartedSilently(r, s, steps[r][s], steps'[r][s])
    PROVE  LeaseEndIsTold(r, s)
<1> DEFINE old == steps[r][s]
           new == steps'[r][s]
<1>1. /\ old \in StepRecord /\ LeaseIsOpenAttempt(old) /\ LeaseIsOpenAttempt(new)
  BY DEF IInv, TypeOK, LeaseMatchesOpenAttempt
<1>2. CASE Recorded(r, s, old, new)
  <2>1. new.status = old.status
    BY <1>2 DEF Recorded, SameAttempt
  <2>2. old.lease # NoLease => new.lease # NoLease
    BY <1>1, <2>1 DEF LeaseIsOpenAttempt
  <2> QED
    BY <2>2 DEF LeaseEndIsTold
<1>3. CASE StartedSilently(r, s, old, new)
  <2>1. PICK w \in Workers, token \in Nat : new = StartAttempt(old, w, token)
    BY <1>3 DEF StartedSilently
  <2>2. new.status = "Running"
    BY <1>1, <2>1 DEF StartAttempt, StepRecord
  <2>3. new.lease # NoLease
    BY <1>1, <2>2 DEF LeaseIsOpenAttempt
  <2> QED
    BY <2>3 DEF LeaseEndIsTold
<1> QED
  BY <1>2, <1>3

\* Every expired lease is taken, by a retry, a fallback or a failure.
LEMMA RecoveryTakesExpired ==
    ASSUME IInv PROVE RecoveryIsComplete
<1> SUFFICES ASSUME RecoverExpired, NEW r \in Runs, NEW s \in Steps
             PROVE  IF s \in Expired(r)
                    THEN steps'[r][s].lease = NoLease /\ steps'[r][s].status # "Cancelled"
                    ELSE steps'[r][s] = steps[r][s] /\ EventsOn(r, s) = {}
  BY DEF RecoveryIsComplete
<1> DEFINE rec  == steps[r][s]
           kind == RecoveryKind(s, rec)
<1>1. CASE s \in Expired(r)
  <2>1. steps'[r][s] = EndAttempt(s, rec, kind, rec.output, "None")
    BY <1>1 DEF RecoverExpired
  <2>2. kind \in CompletionKinds
    BY <1>1, RecoveredStep
  <2>3. /\ rec \in StepRecord /\ rec.output \in Outputs \cup {NoOutput} /\ "None" \in Backoff
        /\ kind = "StepFallbackSelected" => Fallback[s] # NoTask
    BY DEF IInv, TypeOK, StepRecord, Backoff, RecoveryKind
  <2> HIDE DEF rec, kind
  <2> QED
    BY <1>1, <2>1, <2>2, <2>3, EndAttemptType
<1>2. CASE s \notin Expired(r)
  <2>1. steps'[r][s] = steps[r][s]
    BY <1>2 DEF RecoverExpired
  <2>2. \A t \in Expired(r) : RecoveryEvent(r, t).step # s
    <3>1. \A t \in Expired(r) : RecoveryEvent(r, t).step = t
      BY DEF RecoveryEvent, StepEvent
    <3> QED
      BY <1>2, <3>1
  <2>3. EventsOn(r, s) = {}
    BY <2>2, RecoveredLogs DEF EventsOn
  <2> QED
    BY <1>2, <2>1, <2>3
<1> QED
  BY <1>1, <1>2

\* A lease never ends in silence but by cancel_run, and never with two events:
\* whichever operation takes it, under every interleaving, one new entry of the
\* log names the step, the outcome its record and history now show and the
\* attempt that held the lease.  recover_expired does so for every expired lease.
THEOREM LeasesEndWithEvents == Spec => LeaseEndsAreTold
<1>1. IInv /\ TokenInv /\ BudgetInv /\ EventInv /\ [Next]_vars =>
          [RecoveryIsComplete /\ \A r \in Runs, s \in Steps : LeaseEndIsTold(r, s)]_vars
  <2> SUFFICES ASSUME IInv, TokenInv, BudgetInv, EventInv, [Next]_vars
               PROVE  RecoveryIsComplete /\ \A r \in Runs, s \in Steps : LeaseEndIsTold(r, s)
    OBVIOUS
  <2>1. IInv' /\ Tells
    BY NextIInv, NextTells DEF EventInv
  <2>2. ASSUME NEW r \in Runs, NEW s \in Steps PROVE LeaseEndIsTold(r, s)
    <3>1. Told(r, s)
      BY <2>1 DEF Tells
    <3> QED
      BY <2>1, <3>1, EndIsTold, CancelIsTold, OthersKeepLease DEF Told
  <2> QED
    BY <2>2, RecoveryTakesExpired
<1> QED
  BY <1>1, InductiveInvariant, TokenInvariant, BudgetInvariant, EventInvariant,
     PTL DEF Spec, LeaseEndsAreTold
=============================================================================
