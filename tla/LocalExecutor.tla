--------------------------- MODULE LocalExecutor ---------------------------
(***************************************************************************)
(* One InMemoryExecutor::execute_with_metrics call after its validation:   *)
(* ready steps run in chunks of MaxParallel, each with its own loop of     *)
(* attempts; a chunk's events are buffered per step, emitted to the sink   *)
(* when the whole chunk is done, and the run is then saved.  The sink, the *)
(* store and, when the application's registry is dynamic, a task lookup    *)
(* may fail at any time.                                                   *)
(***************************************************************************)
EXTENDS RetryDelay, SequencesExt

CONSTANTS
    NumSteps,           \* steps are 1..NumSteps, in workflow order
    Deps,               \* Deps[s]: the steps s depends on
    MaxAttempts,        \* MaxAttempts[s]: policy.retry.max_attempts, 0 allowed
    HasFallback,        \* the steps whose policy names a fallback task
    Policies,           \* values of policy.retry.delay, one for all steps of a run
    MaxParallel,        \* ExecutorOptions.max_parallel_steps
    HasGates,           \* whether the workflow has evaluation gates
    RegistryIsStatic    \* whether every task validate_tasks found stays registered

Steps == 1..NumSteps

ASSUME ExecutorAssumption ==
    /\ NumSteps \in Nat \ {0} /\ MaxParallel \in Nat \ {0}
    /\ Deps \in [Steps -> SUBSET Steps] /\ MaxAttempts \in [Steps -> Nat]
    /\ HasFallback \subseteq Steps /\ Policies \subseteq RetryPolicies
    /\ HasGates \in BOOLEAN /\ RegistryIsStatic \in BOOLEAN

\* WorkflowSpec::validate has accepted the workflow: no step depends on itself,
\* directly or through others, so some order of the steps respects Deps.
ASSUME AcyclicAssumption ==
    \E rank \in [Steps -> Steps] : \A s \in Steps : \A d \in Deps[s] : rank[d] < rank[s]

VARIABLES
    policy,     \* the RetryDelay of the workflow's steps
    phase,      \* where the call stands
    run,        \* the RunRecord under construction
    queue,      \* ready steps of this round whose results are not taken yet
    loop,       \* loop[s]: the local state of execute_step for s
    outbox,     \* events still to be emitted before the next save
    sink,       \* what the event sink has accepted
    stored      \* the snapshot the run store holds

vars == <<policy, phase, run, queue, loop, outbox, sink, stored>>

-----------------------------------------------------------------------------
Budget(s) == IF MaxAttempts[s] = 0 THEN 1 ELSE MaxAttempts[s]

Phases == {"Opening", "Scanning", "Running", "Collecting", "Closing", "Returned", "Errored"}
EventKinds == {"RunStarted", "StepStarted", "StepRetrying", "StepFallbackSelected",
               "StepSucceeded", "StepFailed", "RunFinished"}
Event == [kind : EventKinds, step : Steps \cup {0}, attempt : Nat]
StepEvent(kind, s, n) == [kind |-> kind, step |-> s, attempt |-> n]
RunEvent(kind) == [kind |-> kind, step |-> 0, attempt |-> 0]

NoRecord == [status |-> "Absent", attempts |-> 0, fallbackUsed |-> FALSE]
StepRecord == [status : {"Absent", "Succeeded", "Failed"}, attempts : Nat,
               fallbackUsed : BOOLEAN]
RunRecord == [status : {"Running", "Succeeded", "Failed"},
              steps : [Steps -> StepRecord], gatesPassed : BOOLEAN, events : Seq(Event)]
NotSaved == [status |-> "None", steps |-> [s \in Steps |-> NoRecord],
             gatesPassed |-> TRUE, events |-> <<>>]

\* slept: the delays before the retries so far, each with the attempt it follows.
Delay == [attempt : Nat, delay : Nat]
Idle == [at |-> "Idle", attempts |-> 0, usedFallback |-> FALSE,
         fallbackAttempted |-> FALSE, slept |-> <<>>, events |-> <<>>]
Loop == [at : {"Idle", "Looping", "Executing", "Succeeded", "Failed"}, attempts : Nat,
         usedFallback : BOOLEAN, fallbackAttempted : BOOLEAN,
         slept : Seq(Delay), events : Seq(Event)]

\* ready.chunks(max_parallel_steps): the steps of the first chunk of q.
ChunkOf(q) == {q[i] : i \in {j \in DOMAIN q : j <= MaxParallel}}
Chunk == ChunkOf(queue)
\* The loops of the steps that start with the first chunk of q.
Entered(q) == [s \in Steps |-> IF s \in ChunkOf(q) THEN [Idle EXCEPT !.at = "Looping"] ELSE Idle]

-----------------------------------------------------------------------------
(* execute_step: the loop of one step *)

Exhausted(s) ==
    loop[s].attempts >= Budget(s) /\ (~loop[s].usedFallback \/ loop[s].fallbackAttempted)

StartAttempt(s) ==
    /\ s \in Chunk /\ phase = "Running" /\ loop[s].at = "Looping" /\ ~Exhausted(s)
    /\ loop' = [loop EXCEPT
           ![s].at = "Executing",
           ![s].attempts = @ + 1,
           ![s].fallbackAttempted = loop[s].usedFallback,
           ![s].events = Append(@, StepEvent("StepStarted", s, loop[s].attempts + 1))]
    /\ UNCHANGED <<policy, phase, run, queue, outbox, sink, stored>>

\* Out of the loop: exhausted, or the task to run is no longer registered.
GiveUp(s) ==
    /\ s \in Chunk /\ phase = "Running" /\ loop[s].at = "Looping"
    /\ Exhausted(s) \/ ~RegistryIsStatic
    /\ loop' = [loop EXCEPT
           ![s].at = "Failed",
           ![s].events = Append(@, StepEvent("StepFailed", s, loop[s].attempts))]
    /\ UNCHANGED <<policy, phase, run, queue, outbox, sink, stored>>

TaskSucceeds(s) ==
    /\ s \in Chunk /\ phase = "Running" /\ loop[s].at = "Executing"
    /\ loop' = [loop EXCEPT
           ![s].at = "Succeeded",
           ![s].events = Append(@, StepEvent("StepSucceeded", s, loop[s].attempts))]
    /\ UNCHANGED <<policy, phase, run, queue, outbox, sink, stored>>

\* Mutant: a fallback that failed is selected again.
AfterErrorFallbackAgain(s, retryable) ==
    LET me == loop[s]
    IN  IF retryable /\ me.attempts < Budget(s) THEN "StepRetrying"
        ELSE IF s \in HasFallback THEN "StepFallbackSelected"
        ELSE IF me.usedFallback \/ me.attempts >= Budget(s) THEN "StepFailed"
        ELSE "None"

\* The event a failed attempt ends with; "None" when the loop goes round
\* without one.
AfterError(s, retryable) ==
    LET me == loop[s]
    IN  IF retryable /\ me.attempts < Budget(s) THEN "StepRetrying"
        ELSE IF ~me.usedFallback /\ s \in HasFallback THEN "StepFallbackSelected"
        ELSE IF me.usedFallback \/ me.attempts >= Budget(s) THEN "StepFailed"
        ELSE "None"

\* Transient errors and timeouts are retryable, permanent ones are not.
TaskFails(s, retryable) ==
    LET kind == AfterError(s, retryable)
    IN  /\ s \in Chunk /\ phase = "Running" /\ loop[s].at = "Executing"
        /\ loop' = [loop EXCEPT
               ![s].at = IF kind = "StepFailed" THEN "Failed" ELSE "Looping",
               ![s].usedFallback = @ \/ kind = "StepFallbackSelected",
               ![s].slept = IF kind = "StepRetrying"
                            THEN Append(@, [attempt |-> loop[s].attempts,
                                            delay   |-> ForAttempt(policy, loop[s].attempts)])
                            ELSE @,
               ![s].events = IF kind = "None" THEN @
                             ELSE Append(@, StepEvent(kind, s, loop[s].attempts))]
        /\ UNCHANGED <<policy, phase, run, queue, outbox, sink, stored>>

-----------------------------------------------------------------------------
(* execute_with_metrics *)

Init ==
    /\ policy \in Policies
    /\ phase = "Opening"
    /\ run = [status |-> "Running", steps |-> [s \in Steps |-> NoRecord],
              gatesPassed |-> TRUE, events |-> <<>>]
    /\ queue = <<>>
    /\ loop = [s \in Steps |-> Idle]
    /\ outbox = <<RunEvent("RunStarted")>>
    /\ sink = <<>>
    /\ stored = NotSaved

\* The event is in the record before the sink answers.
Emit ==
    /\ phase \in {"Opening", "Collecting", "Closing"} /\ outbox # <<>>
    /\ run' = [run EXCEPT !.events = Append(@, Head(outbox))]
    /\ sink' = Append(sink, Head(outbox))
    /\ outbox' = Tail(outbox)
    /\ UNCHANGED <<policy, phase, queue, loop, stored>>

\* An error of the sink or of the store leaves execute at once.
Fail ==
    /\ phase \in {"Opening", "Collecting", "Closing"}
    /\ phase' = "Errored"
    /\ UNCHANGED <<policy, run, queue, loop, outbox, sink, stored>>

\* A result of the chunk that was joined is still to be taken.
Untaken == queue # <<>> /\ loop[Head(queue)].at # "Idle"

\* Mutants: the run is saved before its last event is emitted; a failed step
\* does not keep the next chunk from starting.
SavedEarly == Len(outbox) <= 1 /\ ~(phase = "Collecting" /\ Untaken)
StoppedByNothing(r) == FALSE

Saved == outbox = <<>> /\ ~(phase = "Collecting" /\ Untaken)
Stopped(r) == \E s \in Steps : r.steps[s].status = "Failed"

\* After a chunk is saved its failures are looked for.
Save ==
    /\ phase \in {"Opening", "Collecting", "Closing"} /\ Saved
    /\ stored' = run
    /\ LET stop == phase = "Collecting" /\ Stopped(run)
       IN  /\ run' = [run EXCEPT !.status = IF stop THEN "Failed" ELSE @]
           /\ queue' = IF stop THEN <<>> ELSE queue
           /\ phase' = CASE phase = "Closing" -> "Returned"
                         [] phase = "Collecting" /\ queue' # <<>> -> "Running"
                         [] OTHER -> "Scanning"
    /\ loop' = Entered(queue')
    /\ UNCHANGED <<policy, outbox, sink>>

\* Mutant: a step is ready unless a dependency failed.
ReadyUnlessFailed ==
    {s \in Steps : run.steps[s].status = "Absent"
                       /\ \A d \in Deps[s] : run.steps[d].status # "Failed"}

Ready ==
    {s \in Steps : run.steps[s].status = "Absent"
                       /\ \A d \in Deps[s] : run.steps[d].status = "Succeeded"}

\* Nothing is ready: every step has a record, one failed, or the workflow "could
\* not make progress".  RunFinished is emitted and the run saved next.
Close(pass) ==
    /\ phase = "Scanning"
    /\ run.status = "Failed" \/ Ready = {}
    /\ pass \in (IF HasGates THEN BOOLEAN ELSE {TRUE})
    /\ run' = [run EXCEPT !.gatesPassed = pass, !.status =
           IF run.status = "Failed" \/ ~pass \/ \E s \in Steps : run.steps[s].status = "Absent"
           THEN "Failed" ELSE "Succeeded"]
    /\ outbox' = <<RunEvent("RunFinished")>>
    /\ phase' = "Closing"
    /\ UNCHANGED <<policy, queue, loop, sink, stored>>

\* The steps of S in workflow order.
InOrder(S) ==
    {q \in [1..Cardinality(S) -> S] : \A i, j \in DOMAIN q : i < j => q[i] < q[j]}

NextRound ==
    /\ phase = "Scanning" /\ run.status # "Failed" /\ Ready # {}
    /\ queue' \in InOrder(Ready)
    /\ loop' = Entered(queue')
    /\ phase' = "Running"
    /\ UNCHANGED <<policy, run, outbox, sink, stored>>

\* Mutants: the first result ends the wait; join_all waits for the steps to
\* succeed.
FirstDone == \E s \in Chunk : loop[s].at \in {"Succeeded", "Failed"}
AllSucceeded == \A s \in Chunk : loop[s].at = "Succeeded"

AllDone == \A s \in Chunk : loop[s].at \in {"Succeeded", "Failed"}

\* join_all is done.
Join ==
    /\ phase = "Running"
    /\ AllDone
    /\ phase' = "Collecting"
    /\ UNCHANGED <<policy, run, queue, loop, outbox, sink, stored>>

\* The results are taken in the order of the chunk, each when the events of those
\* before it are emitted: its own are emitted next.  Its record, inserted behind
\* them, is set here: nothing reads it before they are all emitted.
TakeResult ==
    /\ phase = "Collecting" /\ outbox = <<>> /\ Untaken
    /\ LET s  == Head(queue)
           me == loop[s]
       IN  /\ outbox' = me.events
           /\ run' = [run EXCEPT !.steps[s] =
                  [status |-> me.at, attempts |-> me.attempts, fallbackUsed |-> me.usedFallback]]
           /\ loop' = [loop EXCEPT ![s] = Idle]
    /\ queue' = Tail(queue)
    /\ UNCHANGED <<policy, phase, sink, stored>>

StepLoop(s) ==
    StartAttempt(s) \/ GiveUp(s) \/ TaskSucceeds(s)
        \/ \E retryable \in BOOLEAN : TaskFails(s, retryable)
Call == Emit \/ Save \/ NextRound \/ Join \/ TakeResult \/ \E pass \in BOOLEAN : Close(pass)

Next == Fail \/ Call \/ \E s \in Steps : StepLoop(s)

\* The caller awaits the future and every task returns or times out.
Spec == Init /\ [][Next]_vars
FairSpec == Spec /\ WF_vars(Call) /\ \A s \in Steps : WF_vars(StepLoop(s))

-----------------------------------------------------------------------------
(* Properties *)

\* Every variable holds what the executor's locals and the record's types allow.
TypeOK ==
    /\ policy \in Policies
    /\ phase \in Phases
    /\ run \in RunRecord
    /\ queue \in Seq(Steps)
    /\ loop \in [Steps -> Loop]
    /\ outbox \in Seq(Event) /\ sink \in Seq(Event)
    /\ stored \in RunRecord \cup {NotSaved}

Positions(events, kind, s) ==
    {i \in DOMAIN events : events[i].kind = kind /\ events[i].step = s}
Count(events, kind, s) == Cardinality(Positions(events, kind, s))

\* What a reader of the store may rely on whenever the call stops, by itself,
\* by a sink or store error between any two awaits or by being dropped: the
\* snapshot names only events the sink has, in their order, and its records are
\* those its events tell, whole chunks at a time.
StoredTellsEmitted ==
    /\ IsPrefix(stored.events, sink)
    /\ \A s \in Steps :
           LET rec == stored.steps[s]
           IN  /\ rec.attempts = Count(stored.events, "StepStarted", s)
               /\ rec.fallbackUsed <=> Positions(stored.events, "StepFallbackSelected", s) # {}
               /\ Count(stored.events, "StepSucceeded", s) = (IF rec.status = "Succeeded" THEN 1 ELSE 0)
               /\ Count(stored.events, "StepFailed", s) = (IF rec.status = "Failed" THEN 1 ELSE 0)

\* A step is started only after each of its dependencies has succeeded, as the
\* order of the emitted events shows, although a chunk emits its steps' events
\* one step after the other and not as they happened.
StepsFollowDependencies ==
    \A s \in Steps : \A i \in Positions(sink, "StepStarted", s) : \A d \in Deps[s] :
        \E j \in Positions(sink, "StepSucceeded", d) : j < i

\* RetryPolicy's doc, for this executor's own loop: primary and fallback share
\* max_attempts, one more attempt goes to a fallback selected on a spent
\* budget, and a fallback that failed is not selected again (README.md 91-94).
BudgetIsShared ==
    \A s \in Steps :
        LET es     == loop[s].events
            starts == Positions(es, "StepStarted", s)
        IN  /\ Count(es, "StepFallbackSelected", s) <= 1
            /\ Cardinality(starts) <= Budget(s) + 1
            /\ Cardinality(starts) > Budget(s) =>
                   \E i \in starts : /\ \A j \in starts : j <= i
                                     /\ es[i - 1].kind = "StepFallbackSelected"

\* The branch "workflow could not make progress" is dead for a validated
\* workflow: a step that was not run always leaves some step ready, unless a
\* failure was seen first.
AlwaysProgress ==
    phase = "Scanning" /\ run.status = "Running"
        /\ (\E s \in Steps : run.steps[s].status = "Absent") => Ready # {}

\* What execute returns is what it stored and emitted, and the verdict is the
\* steps' and the gates': no failure of an earlier chunk is forgotten, and no step
\* is missing from a run that succeeded.
VerdictIsJustified ==
    phase = "Returned" =>
        /\ stored = run /\ sink = run.events
        /\ run.status = (IF run.gatesPassed /\ \A s \in Steps : run.steps[s].status = "Succeeded"
                         THEN "Succeeded" ELSE "Failed")
        /\ (\E s \in Steps : run.steps[s].status = "Absent")
               => \E s \in Steps : run.steps[s].status = "Failed"

\* execute comes back whatever its tasks, sink and store answer.
ExecuteReturns == <>(phase \in {"Returned", "Errored"})

\* Every retry waits as long as its policy says for the attempt that failed, at
\* the widths of the integers, the exponent's limit and the cap, and although
\* attempts that end without a StepRetrying event are counted too.
DelaysAreExact ==
    \A s \in Steps :
        LET me == loop[s]
        IN  /\ Len(me.slept) = Count(me.events, "StepRetrying", s)
            /\ \A i \in Positions(me.events, "StepRetrying", s) :
                   \E j \in DOMAIN me.slept : me.slept[j].attempt = me.events[i].attempt
            /\ \A j \in DOMAIN me.slept :
                   IsExactDelay(policy, me.slept[j].attempt, me.slept[j].delay)

\* Backoff never gets shorter from one retry of a step to a later one, unless the
\* multiplier is zero: then the second retry and all later ones come at once.
BackoffNeverShortens ==
    policy.multiplier > 0 =>
        \A s \in Steps : \A i, j \in DOMAIN loop[s].slept :
            i < j => loop[s].slept[i].delay <= loop[s].slept[j].delay
=============================================================================
