------------------------- MODULE PostgresRepository -------------------------
(***************************************************************************)
(* PostgresRunStore as a RunRepository: one table row per run.  Every      *)
(* operation but two locks one row with FOR UPDATE before it reads it and  *)
(* commits what it wrote, so it is one atomic action on that row; the      *)
(* revision guard of persist_locked cannot fail under the lock.  The two:  *)
(*   - create_run looks for rows that do not exist yet, which FOR UPDATE   *)
(*     cannot lock: its statements interleave with those of other callers; *)
(*   - claim_next_runnable_step scans without locks and then claims from   *)
(*     its candidates one transaction after another.                       *)
(* Transactions run at PostgreSQL's default level, READ COMMITTED.         *)
(* A metric or a gate's threshold that is not finite is null in the JSON   *)
(* payload, which is no f64: the row it is written to cannot be decoded    *)
(* again, and every call that reads it ends in a storage error.            *)
(* Lease tokens and event sequences are counted per row, not per store.    *)
(***************************************************************************)
EXTENDS RunRecords

CONSTANTS
    NumRuns,            \* run ids are 1..NumRuns, in the order of the text column
    Clients,            \* callers of create_run, one transaction each
    BatchSize,          \* RECOVERY_BATCH_SIZE, also the limit of the scan
    FiniteNumbers       \* whether every metric and every gate's threshold is finite

ASSUME TableAssumption ==
    NumRuns \in Nat \ {0} /\ BatchSize \in Nat \ {0} /\ FiniteNumbers \in BOOLEAN

Runs == 1..NumRuns

VARIABLES
    rows,               \* rows[r]: the payload column of run r
    undecodable,        \* the rows whose payload no longer deserializes
    scanOrder,          \* the pairs <<q, r>> of rows of which q is scanned before r
    creating,           \* creating[c]: where client c's create_run stands
    polling,            \* polling[w]: candidates w's claim_next_runnable_step has left
    claims,             \* every StepClaim issued so far
    answered            \* every successful create_run answer to a keyed request

vars == <<rows, undecodable, scanOrder, creating, polling, claims, answered>>

-----------------------------------------------------------------------------
(* One row *)

NoRow == [status |-> "Absent", steps |-> [s \in Steps |-> NewStep(s)], log |-> <<>>,
          gatesPassed |-> TRUE, key |-> NoKey, payload |-> CHOOSE p \in Payloads : TRUE]
Row == [status : RunStatuses, steps : [Steps -> StepRecord], log : Seq(EventEnvelope),
        gatesPassed : BOOLEAN, key : Keys \cup {NoKey}, payload : Payloads]

Stored(r) == rows[r].status # "Absent"

\* load_locked finds the row and decode_payload accepts it.
Loads(r) == Stored(r) /\ r \notin undecodable

LastSequence(run) == IF run.log = <<>> THEN 0 ELSE Last(run.log).sequence

AppendRunEvent(run, e) ==
    [run EXCEPT !.log = Append(@, [sequence |-> LastSequence(run) + 1, event |-> e])]

TokensOf(run) ==
    UNION {{a.token : a \in ToSet(run.steps[s].history)} : s \in Steps}

\* Mutant: the last token itself is issued again.
NextTokenMissesOne(run) == Max({0} \cup TokensOf(run))

\* One more than any token in the histories of the row.
NextLeaseToken(run) == 1 + Max({0} \cup TokensOf(run))

Claimable(run, s, w) ==
    /\ \A d \in Deps[s] : run.steps[d].status = "Succeeded"
    /\ Available(s, run.steps[s])
    /\ <<s, run.steps[s].task>> \in Supports[w]

\* Mutant: a lease is held until it is recovered, whatever its deadline.
HoldsLeaseEver(c) ==
    LET lease == rows[c.run].steps[c.step].lease
    IN  Loads(c.run) /\ lease.worker = c.worker /\ lease.token = c.token

HoldsLease(c) ==
    LET lease == rows[c.run].steps[c.step].lease
    IN  /\ Loads(c.run)
        /\ lease.worker = c.worker /\ lease.token = c.token /\ lease.left > 0

Expired(run) == {s \in Steps : run.steps[s].lease # NoLease /\ run.steps[s].lease.left = 0}

\* event_is_valid_for_record, which both stores call.
Logged(run, e) == \E i \in DOMAIN run.log : run.log[i].event = e

StepEventIsValid(run, e) ==
    LET rec == run.steps[e.step]
    IN  /\ run.status = "Running"
        /\ rec.status = Announces[e.kind]
        /\ IF e.kind = "StepFallbackSelected" THEN rec.fallbackUsed
                                              ELSE rec.attempts = e.attempt
        /\ ~Logged(run, e)

RunEventIsValid(run, e) ==
    /\ run.status = e.status
    /\ e.status \in (IF e.kind = "RunStarted" THEN {"Running"} ELSE Terminal)
    /\ ~\E i \in DOMAIN run.log : run.log[i].event.kind = e.kind

EventIsValid(run, e) ==
    IF e.kind \in StepEventKinds THEN StepEventIsValid(run, e) ELSE RunEventIsValid(run, e)

StepEventsOf(run) ==
    {StepEvent(kind, s, run.steps[s].attempts) : kind \in StepEventKinds, s \in Steps}
RunEventsOf ==
    {RunEvent("RunStarted", "Running")} \cup {RunEvent("RunFinished", st) : st \in Terminal}

FinishEvents(run) == {i \in DOMAIN run.log : run.log[i].event.kind = "RunFinished"}

-----------------------------------------------------------------------------
(* Operations on one locked row *)

\* UPDATE ... updated_at = now(): the rows of one transaction move to the end of
\* ORDER BY updated_at, run_id.
Touch(B) ==
    scanOrder' = {e \in scanOrder : e[1] \notin B /\ e[2] \notin B}
                     \cup ({q \in Runs \ B : Stored(q)} \X B)
                     \cup {e \in B \X B : e[1] < e[2]}

Persist(r, run) == rows' = [rows EXCEPT ![r] = run] /\ Touch({r})

\* The numbers written to row r are finite, or r cannot be decoded again.
WriteNumbers(r, finite) ==
    /\ FiniteNumbers => finite
    /\ undecodable' = IF finite THEN undecodable ELSE undecodable \cup {r}

\* The first claimable step in workflow order, as the locked row shows it.
Grant(r, s, w) ==
    /\ Loads(r) /\ rows[r].status = "Running"
    /\ Claimable(rows[r], s, w)
    /\ \A p \in 1..(s - 1) : ~Claimable(rows[r], p, w)

ClaimStep(r, s, w) ==
    LET run   == rows[r]
        token == NextLeaseToken(run)
        new   == StartAttempt(run.steps[s], w, token)
    IN  /\ Grant(r, s, w)
        /\ Persist(r, [run EXCEPT !.steps[s] = new])
        /\ claims' = claims \cup
               {[run |-> r, step |-> s, task |-> new.task, worker |-> w,
                 token |-> token, attempt |-> new.attempts,
                 fallbackUsed |-> new.fallbackUsed,
                 input |-> [d \in Deps[s] |-> run.steps[d].output]]}
        /\ UNCHANGED <<undecodable, creating, answered>>

ClaimNextStep(r, s, w) == ClaimStep(r, s, w) /\ UNCHANGED polling

RenewStep(c) ==
    /\ HoldsLease(c)
    /\ Persist(c.run, [rows[c.run] EXCEPT !.steps[c.step].lease.left = LeaseTicks])
    /\ UNCHANGED <<undecodable, creating, polling, claims, answered>>

CompleteStep(c, k) ==
    LET run == rows[c.run]
        new == EndAttempt(c.step, run.steps[c.step], k.kind, k.output, k.backoff)
    IN  /\ HoldsLease(c)
        /\ CompletionMatchesClaim(k, c)
        /\ Persist(c.run, AppendRunEvent([run EXCEPT !.steps[c.step] = new],
                                         StepEvent(k.kind, c.step, c.attempt)))
        /\ UNCHANGED <<undecodable, creating, polling, claims, answered>>

RecordEvent(r, e) ==
    /\ Loads(r) /\ EventIsValid(rows[r], e)
    /\ Persist(r, AppendRunEvent(rows[r], e))
    /\ UNCHANGED <<undecodable, creating, polling, claims, answered>>

Verdict(run, pass) ==
    IF \E s \in Steps : run.steps[s].status = "Failed" THEN "Failed"
    ELSE IF \A s \in Steps : run.steps[s].status = "Succeeded"
         THEN IF pass THEN "Succeeded" ELSE "Failed"
    ELSE run.status

\* Unchanged status, metrics and decisions write nothing; changed metrics do,
\* whether or not the decisions change with them.
FinishRun(r, pass, finite) ==
    LET run     == [rows[r] EXCEPT !.gatesPassed = pass]
        verdict == Verdict(run, pass)
    IN  /\ Loads(r)
        /\ pass \in (IF HasGates THEN BOOLEAN ELSE {TRUE})
        /\ \/ verdict = run.status /\ Persist(r, run)
           \/ /\ verdict # run.status
              /\ Cardinality(FinishEvents(rows[r])) < MaxFinishEvents
              /\ Persist(r, AppendRunEvent([run EXCEPT !.status = verdict],
                                           RunEvent("RunFinished", verdict)))
        /\ WriteNumbers(r, finite)
        /\ UNCHANGED <<creating, polling, claims, answered>>

CancelRun(r) ==
    LET run == [rows[r] EXCEPT !.status = "Cancelled",
                               !.steps = [s \in Steps |-> CancelStep(@[s])]]
    IN  /\ Loads(r) /\ rows[r].status \notin Terminal
        /\ Persist(r, AppendRunEvent(run, RunEvent("RunFinished", "Cancelled")))
        /\ UNCHANGED <<undecodable, creating, polling, claims, answered>>

\* Every expired lease of one row, in workflow order.
Recovered(run) ==
    LET kind(s)     == RecoveryKind(s, run.steps[s])
        envelope(i) == LET s == NthStep(Expired(run), i)
                       IN  [sequence |-> LastSequence(run) + i,
                            event |-> StepEvent(kind(s), s, run.steps[s].attempts)]
    IN  [run EXCEPT
            !.steps = [s \in Steps |->
                IF s \in Expired(run)
                THEN EndAttempt(s, run.steps[s], kind(s), run.steps[s].output, "None")
                ELSE run.steps[s]],
            !.log = @ \o [i \in 1..Cardinality(Expired(run)) |-> envelope(i)]]

\* One transaction over at most BatchSize rows.  SKIP LOCKED passes over the
\* rows other transactions hold, so the batch B is any set of expired rows.  One
\* row that does not decode rolls the whole batch back.
RecoverExpired(B) ==
    /\ B # {} /\ Cardinality(B) <= BatchSize
    /\ \A r \in B : Loads(r) /\ Expired(rows[r]) # {}
    /\ rows' = [r \in Runs |-> IF r \in B THEN Recovered(rows[r]) ELSE rows[r]]
    /\ Touch(B)
    /\ UNCHANGED <<undecodable, creating, polling, claims, answered>>

-----------------------------------------------------------------------------
(* create_run, statement by statement *)

NotCreating == [stage |-> "None", run |-> 1, key |-> NoKey,
                payload |-> CHOOSE p \in Payloads : TRUE]
Creating == [stage : {"None", "KeyFree", "RunFree", "Inserted", "Refused"},
             run : Runs, key : Keys \cup {NoKey}, payload : Payloads]

KeyTaken(key) == key # NoKey /\ \E q \in Runs : Stored(q) /\ rows[q].key = key
Answer(key, payload, r) ==
    answered' = answered \cup
        (IF key = NoKey THEN {} ELSE {[key |-> key, payload |-> payload, run |-> r]})
Stage(c, stage) == creating' = [creating EXCEPT ![c].stage = stage]

\* A SELECT by key finds the row that repeats the request.  A row with another
\* workflow, manifest or input is an IdempotencyConflict.
AnswerExisting(key, payload) ==
    /\ \E q \in Runs : /\ Loads(q) /\ rows[q].key = key /\ rows[q].payload = payload
                       /\ Answer(key, payload, q)
    /\ UNCHANGED <<rows, undecodable, scanOrder, creating, polling, claims>>

\* The first statement: the SELECT by key or, without one, the look for the run.
BeginCreate(c, r, key, payload) ==
    /\ creating[c].stage = "None"
    /\ ~KeyTaken(key)
    /\ key = NoKey => ~Stored(r)
    /\ creating' = [creating EXCEPT
           ![c] = [stage |-> IF key = NoKey THEN "RunFree" ELSE "KeyFree",
                   run |-> r, key |-> key, payload |-> payload]]
    /\ UNCHANGED <<rows, undecodable, scanOrder, polling, claims, answered>>

\* load_locked: an existing row of that run id is a Conflict.
LookForRun(c) ==
    /\ creating[c].stage = "KeyFree"
    /\ IF Stored(creating[c].run) THEN creating' = [creating EXCEPT ![c] = NotCreating]
                                  ELSE Stage(c, "RunFree")
    /\ UNCHANGED <<rows, undecodable, scanOrder, polling, claims, answered>>

\* Mutant: a schema that was never migrated has no unique index on the key.
CollideByRunId(a, b) == a.run = b.run

\* The primary key and the unique index on idempotency_key.
Collide(a, b) == a.run = b.run \/ (a.key = b.key /\ a.key # NoKey)

\* INSERT ... ON CONFLICT DO NOTHING waits for colliding inserts that are not
\* yet committed, then inserts nothing if a committed row collides.
Insert(c) ==
    LET me == creating[c]
    IN  /\ me.stage = "RunFree"
        /\ \A d \in Clients \ {c} :
               creating[d].stage = "Inserted" => ~Collide(me, creating[d])
        /\ IF \E q \in Runs : Stored(q) /\ Collide(me, [run |-> q, key |-> rows[q].key])
           THEN Stage(c, "Refused") ELSE Stage(c, "Inserted")
        /\ UNCHANGED <<rows, undecodable, scanOrder, polling, claims, answered>>

\* A manifest with gates may bring a threshold that is not finite.
CommitCreate(c) ==
    LET me == creating[c]
    IN  /\ me.stage = "Inserted"
        /\ Persist(me.run, AppendRunEvent(
               [NoRow EXCEPT !.status = "Running", !.key = me.key, !.payload = me.payload],
               RunEvent("RunStarted", "Running")))
        /\ Answer(me.key, me.payload, me.run)
        /\ \E finite \in IF HasGates THEN BOOLEAN ELSE {TRUE} : WriteNumbers(me.run, finite)
        /\ creating' = [creating EXCEPT ![c] = NotCreating]
        /\ UNCHANGED <<polling, claims>>

Repeats(q, me) == Loads(q) /\ rows[q].key = me.key /\ rows[q].payload = me.payload

\* A new statement sees the row that was in the way, if it has the same key;
\* otherwise, and if its request differs, the call ends in an error.
SelectAgain(c) ==
    LET me    == creating[c]
        found == {q \in Runs : me.key # NoKey /\ Repeats(q, me)}
    IN  /\ me.stage = "Refused"
        /\ IF found = {} THEN UNCHANGED answered
           ELSE \E q \in found : Answer(me.key, me.payload, q)
        /\ creating' = [creating EXCEPT ![c] = NotCreating]
        /\ UNCHANGED <<rows, undecodable, scanOrder, polling, claims>>

\* The connection is lost or the caller gives up: the transaction rolls back.
AbortCreate(c) ==
    /\ creating[c].stage # "None"
    /\ creating' = [creating EXCEPT ![c] = NotCreating]
    /\ UNCHANGED <<rows, undecodable, scanOrder, polling, claims, answered>>

-----------------------------------------------------------------------------
(* claim_next_runnable_step, transaction by transaction *)

\* The at most n running rows that come first in the scan, one after another.
FirstRunning(n) ==
    LET running   == {r \in Runs : rows[r].status = "Running"}
        before(r) == {q \in running : <<q, r>> \in scanOrder}
    IN  {scan \in [1..Min({n, Cardinality(running)}) -> running] :
            \A i \in DOMAIN scan : Cardinality(before(scan[i])) = i - 1}

\* Mutant: only the stalest active run is looked at.
CandidatesStalest == FirstRunning(1)

Candidates == FirstRunning(BatchSize)

PollScans(w) ==
    /\ polling[w] = <<>>
    /\ \E scan \in Candidates :
           scan # <<>> /\ polling' = [polling EXCEPT ![w] = scan]
    /\ UNCHANGED <<rows, undecodable, scanOrder, creating, claims, answered>>

PollClaims(w, s) ==
    /\ polling[w] # <<>>
    /\ ClaimStep(Head(polling[w]), s, w)
    /\ polling' = [polling EXCEPT ![w] = <<>>]

\* claim_next_step finds nothing in this candidate any more.
PollSkips(w) ==
    /\ polling[w] # <<>> /\ Loads(Head(polling[w]))
    /\ \A s \in Steps : ~Grant(Head(polling[w]), s, w)
    /\ polling' = [polling EXCEPT ![w] = Tail(@)]
    /\ UNCHANGED <<rows, undecodable, scanOrder, creating, claims, answered>>

\* The error of a candidate that does not decode ends the whole call.
PollFails(w) ==
    /\ polling[w] # <<>> /\ ~Loads(Head(polling[w]))
    /\ polling' = [polling EXCEPT ![w] = <<>>]
    /\ UNCHANGED <<rows, undecodable, scanOrder, creating, claims, answered>>

-----------------------------------------------------------------------------
(* Time: clock_timestamp() of the database *)

LeaseTicksDown(r, s) ==
    /\ rows[r].steps[s].lease # NoLease /\ rows[r].steps[s].lease.left > 0
    /\ rows' = [rows EXCEPT ![r].steps[s].lease.left = @ - 1]
    /\ UNCHANGED <<undecodable, scanOrder, creating, polling, claims, answered>>

BackoffElapses(r, s) ==
    /\ rows[r].steps[s].backoff = "Pending"
    /\ rows' = [rows EXCEPT ![r].steps[s].backoff = "Elapsed"]
    /\ UNCHANGED <<undecodable, scanOrder, creating, polling, claims, answered>>

\* The database's clock is wall time as well, and may be set back.
LeaseRevives(r, s) ==
    /\ rows[r].steps[s].lease # NoLease /\ rows[r].steps[s].lease.left < LeaseTicks
    /\ rows' = [rows EXCEPT ![r].steps[s].lease.left = @ + 1]
    /\ UNCHANGED <<undecodable, scanOrder, creating, polling, claims, answered>>

BackoffReturns(r, s) ==
    /\ rows[r].steps[s].backoff = "Elapsed"
    /\ rows' = [rows EXCEPT ![r].steps[s].backoff = "Pending"]
    /\ UNCHANGED <<undecodable, scanOrder, creating, polling, claims, answered>>

Init ==
    /\ rows = [r \in Runs |-> NoRow]
    /\ undecodable = {}
    /\ scanOrder = {}
    /\ creating = [c \in Clients |-> NotCreating]
    /\ polling = [w \in Workers |-> <<>>]
    /\ claims = {}
    /\ answered = {}

CreateStep(c) ==
    \/ LookForRun(c) \/ Insert(c) \/ CommitCreate(c) \/ SelectAgain(c) \/ AbortCreate(c)
PollStep(w) ==
    PollScans(w) \/ PollSkips(w) \/ PollFails(w) \/ \E s \in Steps : PollClaims(w, s)
Clock == \E r \in Runs, s \in Steps : LeaseTicksDown(r, s) \/ BackoffElapses(r, s)
ClockStepsBack == \E r \in Runs, s \in Steps : LeaseRevives(r, s) \/ BackoffReturns(r, s)

Next ==
    \/ \E key \in Keys, p \in Payloads : AnswerExisting(key, p)
    \/ \E c \in Clients, r \in Runs, key \in Keys \cup {NoKey}, p \in Payloads :
           BeginCreate(c, r, key, p)
    \/ \E c \in Clients : CreateStep(c)
    \/ \E w \in Workers : PollStep(w)
    \/ \E r \in Runs, s \in Steps, w \in Workers : ClaimNextStep(r, s, w)
    \/ \E c \in claims : RenewStep(c)
    \/ \E c \in claims, k \in StepCompletion : CompleteStep(c, k)
    \/ \E r \in Runs : \E e \in StepEventsOf(rows[r]) \cup RunEventsOf :
           RecordEvent(r, e)
    \/ \E r \in Runs, pass, finite \in BOOLEAN : FinishRun(r, pass, finite)
    \/ \E r \in Runs : CancelRun(r)
    \/ \E B \in SUBSET Runs : RecoverExpired(B)
    \/ Clock \/ ClockStepsBack

Spec == Init /\ [][Next]_vars

\* Workers poll for ever and clients finish their calls; runs whose steps are
\* done are finished, deadlines pass and somebody recovers expired leases.
Fairness ==
    /\ \A w \in Workers : WF_vars(PollStep(w))
    /\ \A c \in Clients : WF_vars(CreateStep(c))
    /\ \A r \in Runs : WF_vars(rows[r].status = "Running" /\ FinishRun(r, TRUE, TRUE)
                                   /\ rows'[r].status # "Running")
    /\ WF_vars(\E B \in SUBSET Runs : RecoverExpired(B))
    /\ WF_vars(Clock)
FairSpec == Spec /\ Fairness

-----------------------------------------------------------------------------
(* Properties *)

\* The scan visits all stored rows, one after another.
OrdersStoredRows ==
    LET stored == {r \in Runs : Stored(r)}
    IN  /\ scanOrder \subseteq stored \X stored
        /\ \A q, r \in stored : q # r => (<<q, r>> \in scanOrder <=> <<r, q>> \notin scanOrder)
        /\ \A p, q, r \in stored :
               <<p, q>> \in scanOrder /\ <<q, r>> \in scanOrder => <<p, r>> \in scanOrder
        /\ \A r \in stored : <<r, r>> \notin scanOrder

\* Every variable holds what the columns and the callers' state allow.
TypeOK ==
    /\ rows \in [Runs -> Row]
    /\ undecodable \subseteq {r \in Runs : Stored(r)}
    /\ OrdersStoredRows
    /\ creating \in [Clients -> Creating]
    /\ polling \in [Workers -> Seq(Runs)]
    /\ claims \subseteq ClaimOn(Runs)
    /\ answered \subseteq [key : Keys, payload : Payloads, run : Runs]

\* Submission is idempotent although no lock protects a row that does not exist
\* yet: all answers to one key name one stored run, made from the payload each
\* caller sent, and no other row has the key.
OneRunPerKey ==
    /\ \A a, b \in answered : a.key = b.key => a.run = b.run
    /\ \A a \in answered :
           /\ Stored(a.run)
           /\ rows[a.run].key = a.key /\ rows[a.run].payload = a.payload
           /\ \A q \in Runs \ {a.run} : Stored(q) => rows[q].key # a.key

\* The trait's doc: claim_next_runnable_step "finds and claims one runnable
\* step across all active runs".  A step every worker could execute does not
\* wait for ever while workers keep polling.
ForAnyone(r) == \E s \in Steps : \A w \in Workers : Grant(r, s, w)
RunnableStepsAreFound == \A r \in Runs : ForAnyone(r) ~> ~ForAnyone(r)
=============================================================================
