--------------------------- MODULE RunRepository ---------------------------
(***************************************************************************)
(* The RunRepository contract as InMemoryRunStore implements it: the       *)
(* durable state machine of runs, steps, leases and events that workers    *)
(* drive.  Each operation takes the store's write lock once, so each is    *)
(* one atomic action.  Nothing is assumed of the callers: any claim ever   *)
(* issued may be presented again, late or twice, by anyone who holds it.   *)
(*                                                                         *)
(* Time.  The code compares wall-clock deadlines with SystemTime::now().   *)
(* Here a lease keeps a number of ticks left, 0 meaning                    *)
(* expires_at_ms <= now, and a retry backoff is pending or elapsed.        *)
(* Deadlines pass in any order (each worker chooses its own lease_ms), and *)
(* ClockStepsBack lets the wall clock be set back.                         *)
(***************************************************************************)
EXTENDS RunRecords

CONSTANT NumRuns        \* run ids are 1..NumRuns, in the BTreeMap's key order

ASSUME RunsAssumption == NumRuns \in Nat

Runs == 1..NumRuns
StepClaim == ClaimOn(Runs)

VARIABLES
    status,             \* status[r]: RunRecord.status
    steps,              \* steps[r][s]: RunRecord.steps
    log,                \* log[r]: RunRecord.event_log
    gatesPassed,        \* gatesPassed[r]: whether every recorded gate decision passed
    request,            \* request[r]: the idempotency key and payload r was created with
    idempotency,        \* the store's index from idempotency keys to runs
    nextLeaseToken,
    nextEventSequence,
    claims,             \* every StepClaim issued so far: callers keep them for ever
    answered            \* every successful create_run answer to a keyed request

vars == <<status, steps, log, gatesPassed, request, idempotency,
          nextLeaseToken, nextEventSequence, claims, answered>>

-----------------------------------------------------------------------------
(* Guards *)

Ready(r, s) == \A d \in Deps[s] : steps[r][d].status = "Succeeded"

Claimable(r, s, w) ==
    /\ Ready(r, s)
    /\ Available(s, steps[r][s])
    /\ <<s, steps[r][s].task>> \in Supports[w]

\* Mutant: claim_next_step does not look at the run's status.
NextClaimableAnyRun(r, s, w) ==
    /\ status[r] # "Absent"
    /\ Claimable(r, s, w)
    /\ \A p \in 1..(s - 1) : ~Claimable(r, p, w)

NextClaimable(r, s, w) ==
    /\ status[r] = "Running"
    /\ Claimable(r, s, w)
    /\ \A p \in 1..(s - 1) : ~Claimable(r, p, w)

\* Mutant: a lease is recognised by its worker alone.
HoldsLeaseByWorker(c) ==
    LET lease == steps[c.run][c.step].lease
    IN  lease.worker = c.worker /\ lease.left > 0

HoldsLease(c) ==
    LET lease == steps[c.run][c.step].lease
    IN  lease.worker = c.worker /\ lease.token = c.token /\ lease.left > 0

Logged(r, e)        == \E i \in DOMAIN log[r] : log[r][i].event = e
LoggedKind(r, kind) == \E i \in DOMAIN log[r] : log[r][i].event.kind = kind

\* Mutant: record_event accepts an event it already logged.
StepEventIsValidAgain(r, e) ==
    LET rec == steps[r][e.step]
    IN  /\ status[r] = "Running"
        /\ rec.status = Announces[e.kind]
        /\ IF e.kind = "StepFallbackSelected" THEN rec.fallbackUsed
                                              ELSE rec.attempts = e.attempt

StepEventIsValid(r, e) ==
    LET rec == steps[r][e.step]
    IN  /\ status[r] = "Running"
        /\ rec.status = Announces[e.kind]
        /\ IF e.kind = "StepFallbackSelected" THEN rec.fallbackUsed
                                              ELSE rec.attempts = e.attempt
        /\ ~Logged(r, e)

RunEventIsValid(r, e) ==
    /\ status[r] = e.status
    /\ e.status \in (IF e.kind = "RunStarted" THEN {"Running"} ELSE Terminal)
    /\ ~LoggedKind(r, e.kind)

EventIsValid(r, e) ==
    IF e.kind \in StepEventKinds THEN StepEventIsValid(r, e) ELSE RunEventIsValid(r, e)

-----------------------------------------------------------------------------
(* Operations *)

AppendEvent(r, e) ==
    /\ nextEventSequence' = nextEventSequence + 1
    /\ log' = [log EXCEPT ![r] = Append(@, [sequence |-> nextEventSequence', event |-> e])]

Init ==
    /\ status = [r \in Runs |-> "Absent"]
    /\ steps = [r \in Runs |-> [s \in Steps |-> NewStep(s)]]
    /\ log = [r \in Runs |-> <<>>]
    /\ gatesPassed = [r \in Runs |-> TRUE]
    /\ request = [r \in Runs |-> [key |-> NoKey, payload |-> CHOOSE p \in Payloads : TRUE]]
    /\ idempotency = [k \in Keys |-> NoRun]
    /\ nextLeaseToken = 0
    /\ nextEventSequence = 0
    /\ claims = {}
    /\ answered = {}

\* Mutant: the payload of a repeated request is not compared.
RepeatsKey(key, payload) == idempotency[key] # NoRun

\* Whether a keyed request repeats the one that created the run it names.
Repeats(key, payload) ==
    idempotency[key] # NoRun /\ request[idempotency[key]].payload = payload

\* The existing run is the answer to a repeated request; a different payload
\* under a known key is an IdempotencyConflict and changes nothing.
AnswerDuplicate(key, payload) ==
    /\ Repeats(key, payload)
    /\ answered' = answered \cup {[key |-> key, payload |-> payload, run |-> idempotency[key]]}
    /\ UNCHANGED <<status, steps, log, gatesPassed, request, idempotency,
                   nextLeaseToken, nextEventSequence, claims>>

CreateRun(r, key, payload) ==
    /\ key \in Keys => idempotency[key] = NoRun
    /\ status[r] = "Absent"
    /\ status' = [status EXCEPT ![r] = "Running"]
    /\ request' = [request EXCEPT ![r] = [key |-> key, payload |-> payload]]
    /\ idempotency' = [k \in Keys |-> IF k = key THEN r ELSE idempotency[k]]
    /\ answered' = answered \cup
           (IF key \in Keys THEN {[key |-> key, payload |-> payload, run |-> r]} ELSE {})
    /\ AppendEvent(r, RunEvent("RunStarted", "Running"))
    /\ UNCHANGED <<steps, gatesPassed, nextLeaseToken, claims>>

\* claim_next_step grants the first claimable step in workflow order.
ClaimStep(r, s, w) ==
    LET rec == steps[r][s]
        new == StartAttempt(rec, w, nextLeaseToken')
    IN  /\ NextClaimable(r, s, w)
        /\ nextLeaseToken' = nextLeaseToken + 1
        /\ steps' = [steps EXCEPT ![r][s] = new]
        /\ claims' = claims \cup
               {[run |-> r, step |-> s, task |-> rec.task, worker |-> w,
                 token |-> nextLeaseToken', attempt |-> new.attempts,
                 fallbackUsed |-> rec.fallbackUsed,
                 input |-> [d \in Deps[s] |-> steps[r][d].output]]}
        /\ UNCHANGED <<status, log, gatesPassed, request, idempotency,
                       nextEventSequence, answered>>

\* Mutant: renewal extends the old deadline.
RenewStepFromDeadline(c) ==
    /\ HoldsLease(c)
    /\ steps' = [steps EXCEPT ![c.run][c.step].lease.left = @ + LeaseTicks]
    /\ UNCHANGED <<status, log, gatesPassed, request, idempotency,
                   nextLeaseToken, nextEventSequence, claims, answered>>

RenewStep(c) ==
    /\ HoldsLease(c)
    /\ steps' = [steps EXCEPT ![c.run][c.step].lease.left = LeaseTicks]
    /\ UNCHANGED <<status, log, gatesPassed, request, idempotency,
                   nextLeaseToken, nextEventSequence, claims, answered>>

\* The run's own status is not consulted: only the lease and the completion.
CompleteStep(c, k) ==
    LET rec == steps[c.run][c.step]
    IN  /\ HoldsLease(c)
        /\ CompletionMatchesClaim(k, c)
        /\ steps' = [steps EXCEPT ![c.run][c.step] =
                        EndAttempt(c.step, rec, k.kind, k.output, k.backoff)]
        /\ AppendEvent(c.run, StepEvent(k.kind, c.step, c.attempt))
        /\ UNCHANGED <<status, gatesPassed, request, idempotency,
                       nextLeaseToken, claims, answered>>

RecordEvent(r, e) ==
    /\ EventIsValid(r, e)
    /\ AppendEvent(r, e)
    /\ UNCHANGED <<status, steps, gatesPassed, request, idempotency,
                   nextLeaseToken, claims, answered>>

\* Mutant: only the steps that have a record are asked whether they succeeded.
RunVerdictOfRecords(r, pass) ==
    IF \E s \in Steps : steps[r][s].status = "Failed" THEN "Failed"
    ELSE IF \A s \in Steps : steps[r][s].status \in {"Absent", "Succeeded"}
         THEN IF pass THEN "Succeeded" ELSE "Failed"
    ELSE status[r]

\* Status finish_run computes from the step records and the gate decisions.
RunVerdict(r, pass) ==
    IF \E s \in Steps : steps[r][s].status = "Failed" THEN "Failed"
    ELSE IF \A s \in Steps : steps[r][s].status = "Succeeded"
         THEN IF pass THEN "Succeeded" ELSE "Failed"
    ELSE status[r]

FinishEvents(r) == {i \in DOMAIN log[r] : log[r][i].event.kind = "RunFinished"}

\* pass is the conjunction of the gate decisions for the metrics supplied.
FinishRun(r, pass) ==
    LET verdict == RunVerdict(r, pass)
    IN  /\ status[r] # "Absent"
        /\ pass \in (IF HasGates THEN BOOLEAN ELSE {TRUE})
        /\ gatesPassed' = [gatesPassed EXCEPT ![r] = pass]
        /\ status' = [status EXCEPT ![r] = verdict]
        /\ \/ /\ verdict = status[r]
              /\ UNCHANGED <<log, nextEventSequence>>
           \/ /\ verdict # status[r]
              /\ Cardinality(FinishEvents(r)) < MaxFinishEvents
              /\ AppendEvent(r, RunEvent("RunFinished", verdict))
        /\ UNCHANGED <<steps, request, idempotency, nextLeaseToken, claims, answered>>

CancelRun(r) ==
    /\ status[r] \notin Terminal \cup {"Absent"}
    /\ status' = [status EXCEPT ![r] = "Cancelled"]
    /\ steps' = [steps EXCEPT ![r] = [s \in Steps |-> CancelStep(@[s])]]
    /\ AppendEvent(r, RunEvent("RunFinished", "Cancelled"))
    /\ UNCHANGED <<gatesPassed, request, idempotency, nextLeaseToken, claims, answered>>

\* Mutant: only active runs are searched for expired leases.
ExpiredInActiveRun(r) ==
    {s \in Steps : /\ status[r] = "Running"
                   /\ steps[r][s].lease # NoLease /\ steps[r][s].lease.left = 0}

Expired(r) == {s \in Steps : steps[r][s].lease # NoLease /\ steps[r][s].lease.left = 0}

\* recover_expired walks the runs in key order and each workflow in step
\* order under one lock, appending one event per expired lease.
RecoverExpired ==
    LET expiredBefore(r) == Cardinality({e \in Runs \X Steps : e[1] < r /\ e[2] \in Expired(e[1])})
        kind(r, s) == RecoveryKind(s, steps[r][s])
        envelope(r, i) ==
            LET s == NthStep(Expired(r), i)
            IN  [sequence |-> nextEventSequence + expiredBefore(r) + i,
                 event |-> StepEvent(kind(r, s), s, steps[r][s].attempts)]
    IN  /\ \E r \in Runs : Expired(r) # {}
        /\ steps' = [r \in Runs |-> [s \in Steps |->
               IF s \in Expired(r)
               THEN EndAttempt(s, steps[r][s], kind(r, s), steps[r][s].output, "None")
               ELSE steps[r][s]]]
        /\ log' = [r \in Runs |->
               log[r] \o [i \in 1..Cardinality(Expired(r)) |-> envelope(r, i)]]
        /\ nextEventSequence' = nextEventSequence + expiredBefore(NumRuns + 1)
        /\ UNCHANGED <<status, gatesPassed, request, idempotency,
                       nextLeaseToken, claims, answered>>

LeaseTicksDown(r, s) ==
    /\ steps[r][s].lease # NoLease /\ steps[r][s].lease.left > 0
    /\ steps' = [steps EXCEPT ![r][s].lease.left = @ - 1]
    /\ UNCHANGED <<status, log, gatesPassed, request, idempotency,
                   nextLeaseToken, nextEventSequence, claims, answered>>

BackoffElapses(r, s) ==
    /\ steps[r][s].backoff = "Pending"
    /\ steps' = [steps EXCEPT ![r][s].backoff = "Elapsed"]
    /\ UNCHANGED <<status, log, gatesPassed, request, idempotency,
                   nextLeaseToken, nextEventSequence, claims, answered>>

\* SystemTime is not monotonic: a deadline that had passed may lie ahead again.
ClockStepsBack(r, s) ==
    /\ \/ /\ steps[r][s].lease # NoLease /\ steps[r][s].lease.left < LeaseTicks
          /\ steps' = [steps EXCEPT ![r][s].lease.left = @ + 1]
       \/ /\ steps[r][s].backoff = "Elapsed"
          /\ steps' = [steps EXCEPT ![r][s].backoff = "Pending"]
    /\ UNCHANGED <<status, log, gatesPassed, request, idempotency,
                   nextLeaseToken, nextEventSequence, claims, answered>>

StepEventsOf(r) ==
    {StepEvent(kind, s, steps[r][s].attempts) : kind \in StepEventKinds, s \in Steps}
RunEventsOf ==
    {RunEvent("RunStarted", "Running")} \cup {RunEvent("RunFinished", st) : st \in Terminal}

Next ==
    \/ \E key \in Keys, p \in Payloads : AnswerDuplicate(key, p)
    \/ \E r \in Runs, key \in Keys \cup {NoKey}, p \in Payloads : CreateRun(r, key, p)
    \/ \E r \in Runs, s \in Steps, w \in Workers : ClaimStep(r, s, w)
    \/ \E c \in claims : RenewStep(c)
    \/ \E c \in claims, k \in StepCompletion : CompleteStep(c, k)
    \/ \E r \in Runs : \E e \in StepEventsOf(r) \cup RunEventsOf : RecordEvent(r, e)
    \/ \E r \in Runs, pass \in BOOLEAN : FinishRun(r, pass)
    \/ \E r \in Runs : CancelRun(r)
    \/ RecoverExpired
    \/ \E r \in Runs, s \in Steps :
           LeaseTicksDown(r, s) \/ BackoffElapses(r, s) \/ ClockStepsBack(r, s)

Spec == Init /\ [][Next]_vars

-----------------------------------------------------------------------------
(* Properties *)

\* Every variable holds what the store's types and counters allow.
TypeOK ==
    /\ status \in [Runs -> RunStatuses]
    /\ steps \in [Runs -> [Steps -> StepRecord]]
    /\ log \in [Runs -> Seq(EventEnvelope)]
    /\ gatesPassed \in [Runs -> BOOLEAN]
    /\ request \in [Runs -> [key : Keys \cup {NoKey}, payload : Payloads]]
    /\ idempotency \in [Keys -> Runs \cup {NoRun}]
    /\ nextLeaseToken \in Nat /\ nextEventSequence \in Nat
    /\ claims \subseteq StepClaim
    /\ answered \subseteq [key : Keys, payload : Payloads, run : Runs]

\* The lease and the history of a step describe the same attempt.  complete_step,
\* recover_expired_step and cancel_run each close "the last entry" of the
\* history and rely on it being the leased one.
LeaseMatchesOpenAttempt == \A r \in Runs, s \in Steps : LeaseIsOpenAttempt(steps[r][s])

\* A fencing token names one attempt of one step for ever: no two claims share
\* one, tokens grow from attempt to attempt, and a claim's token, worker and
\* number are those the repository's history keeps, however late it is shown.
TokenIdentifiesAttempt ==
    /\ \A c, d \in claims : c.token = d.token => c = d
    /\ \A c \in claims :
           /\ c.token <= nextLeaseToken
           /\ c.attempt <= steps[c.run][c.step].attempts
           /\ LET a == steps[c.run][c.step].history[c.attempt]
              IN  a.token = c.token /\ a.worker = c.worker
    /\ \A r \in Runs, s \in Steps :
           LET h == steps[r][s].history
           IN  \A i, j \in DOMAIN h : i < j => h[i].token < h[j].token

\* StepClaim's doc: "a retry or recovery cannot observe a different dependency
\* graph".  What a claim was given as input is still what its dependencies hold.
ClaimInputIsStable ==
    \A c \in claims : \A d \in DOMAIN c.input :
        /\ steps[c.run][d].status = "Succeeded"
        /\ steps[c.run][d].output = c.input[d]
        /\ c.input[d] # NoOutput

\* RetryPolicy's doc: primary and fallback share max_attempts, and only a
\* fallback selected after the primary exhausted it receives one more.  The
\* fallback, once selected, is never left again.
BudgetIsShared ==
    \A c \in claims :
        /\ c.task = (IF c.fallbackUsed THEN Fallback[c.step] ELSE Primary[c.step])
        /\ c.attempt <= Budget(c.step) + 1
        /\ \A d \in claims :
               d.run = c.run /\ d.step = c.step /\ d.attempt < c.attempt =>
                   /\ d.fallbackUsed => c.fallbackUsed
                   /\ c.attempt > Budget(c.step) => c.fallbackUsed /\ ~d.fallbackUsed

\* Events and state are committed together: an attempt closed as Succeeded or
\* Failed has its event in the log and no other attempt has, and one sent back
\* for retry has a StepRetrying or StepFallbackSelected event.
LogTellsHistory ==
    \A r \in Runs, s \in Steps :
        LET h == steps[r][s].history
        IN  \A n \in DOMAIN h :
                /\ \A kind \in {"StepSucceeded", "StepFailed"} :
                       Logged(r, StepEvent(kind, s, n)) <=> h[n].status = Announces[kind]
                /\ h[n].status = "Retrying" =>
                       \/ Logged(r, StepEvent("StepRetrying", s, n))
                       \/ Logged(r, StepEvent("StepFallbackSelected", s, n))

\* "Ordered, deduplicable" envelopes: sequence numbers rise along each run's
\* log, none is shared by two runs, and no step event is logged twice although
\* record_event, complete_step and recover_expired all append them.
EventsAreDeduplicable ==
    \A r \in Runs : \A i \in DOMAIN log[r] :
        /\ log[r][i].sequence <= nextEventSequence
        /\ \A j \in DOMAIN log[r] : i < j =>
               /\ log[r][i].sequence < log[r][j].sequence
               /\ log[r][i].event.kind # "RunFinished" => log[r][i].event # log[r][j].event
        /\ \A q \in Runs \ {r} : \A j \in DOMAIN log[q] :
               log[r][i].sequence # log[q][j].sequence

\* Idempotent submission: all successful answers to one key name one run, made
\* from the payload each caller sent, however submissions interleave.
OneRunPerKey ==
    /\ \A a, b \in answered : a.key = b.key => a.run = b.run
    /\ \A a \in answered : request[a.run] = [key |-> a.key, payload |-> a.payload]
    /\ \A r, q \in Runs : request[r].key = request[q].key /\ request[r].key # NoKey => r = q

\* A run's status is justified by its steps and gates, even when completions,
\* recoveries and further finish_run calls arrive after it was finished; and a
\* cancelled run has no step that is leased or waiting to be retried.
RunStatusIsJustified ==
    \A r \in Runs :
        LET having(st) == {s \in Steps : steps[r][s].status = st}
        IN  /\ status[r] = "Succeeded" => having("Succeeded") = Steps /\ gatesPassed[r]
            /\ status[r] = "Failed" =>
                   having("Failed") # {} \/ (having("Succeeded") = Steps /\ ~gatesPassed[r])
            /\ status[r] = "Cancelled" => having("Running") = {} /\ having("Retrying") = {}

\* A finished run is never running again and none of its steps is started
\* again, whatever claims, recoveries and finish_run calls still arrive.
FinishedRunTakesNoNewWork ==
    [][\A r \in Runs : status[r] \in Terminal =>
          /\ status'[r] \in Terminal
          /\ \A s \in Steps : steps'[r][s].attempts = steps[r][s].attempts]_vars

\* The repository keeps the promise of StepLedger: exclusive leases, one
\* immutable outcome per fencing token, final verdicts.
Items == Runs \X Steps
Ledger == INSTANCE StepLedger WITH
    holder  <- [i \in Items |-> steps[i[1]][i[2]].lease.token],
    verdict <- [i \in Items |-> IF steps[i[1]][i[2]].status \in Settled
                                THEN steps[i[1]][i[2]].status ELSE "Open"],
    issued  <- nextLeaseToken,
    ledger  <- [i \in Items |->
                   LET h == steps[i[1]][i[2]].history
                   IN  {[token |-> h[n].token, outcome |-> h[n].status] :
                           n \in {m \in DOMAIN h : h[m].status # "Running"}}]
LedgerSpec == Ledger!Spec

\* record_event accepts RunFinished only for a run that has not logged one, so
\* a run's log should announce one end.  finish_run does not look.
RunFinishesOnce == \A r \in Runs : Cardinality(FinishEvents(r)) <= 1
=============================================================================
