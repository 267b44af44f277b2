--------------------------- MODULE DurableWorker ---------------------------
(***************************************************************************)
(* Processes that run DurableExecutor against one run repository: pollers  *)
(* call work_once in a loop, drivers call resume(run) in a loop.  Every    *)
(* await is a step boundary, so the repository may change between a claim, *)
(* the StepStarted event, the task, the commit and finish_run.             *)
(*                                                                         *)
(* A process may crash, which also ends its heartbeat tasks, and restart.  *)
(* An executor call may also die alone, when its future is dropped or a    *)
(* task panics in it: nothing then aborts the heartbeats it spawned.       *)
(***************************************************************************)
EXTENDS RunRepository

CONSTANTS
    Target,             \* Target[w]: the run w drives, NoRun when w polls
    Registry,           \* Registry[w]: tasks registered in w's process
    MaxParallel,        \* options.max_parallel_steps
    MaxCrashes,         \* bound: process crashes
    MaxDrops            \* bound: executor calls that die alone

ASSUME WorkerAssumption ==
    /\ Target \in [Workers -> Runs \cup {NoRun}]
    /\ Registry \in [Workers -> SUBSET Tasks]
    /\ MaxParallel \in Nat \ {0} /\ MaxCrashes \in Nat /\ MaxDrops \in Nat

VARIABLES
    worker,             \* worker[w]: where w's executor call is
    heartbeats,         \* claims whose spawned heartbeat task is alive
    faults              \* crashes and drops so far

wvars == <<vars, worker, heartbeats, faults>>

-----------------------------------------------------------------------------

Places == {"Idle", "Claiming", "Executing", "Committing", "Finishing", "Recovering", "Crashed"}

\* An entry of a call's batch of claims: work_once has one, drive several.
NoResult == [kind |-> "None", output |-> NoOutput, backoff |-> "None"]
Entry == [claim : StepClaim, stage : {"Claimed", "Working", "Returned", "Refused"},
          result : StepCompletion \cup {NoResult}]

Call == [at : Places, candidates : SUBSET Runs, run : Runs \cup {NoRun}, batch : Seq(Entry)]
NoCall == [at |-> "Idle", candidates |-> {}, run |-> NoRun, batch |-> <<>>]

Polls(w) == Target[w] = NoRun
At(w, place) == worker[w].at = place
Goto(w, place) == worker' = [worker EXCEPT ![w].at = place]
EndCall(w) == worker' = [worker EXCEPT ![w] = NoCall]

\* Mutants: a retryable error is always retried; every failure is delayed.
FailureCompletionUnbounded(c, retryable) ==
    LET kind == IF retryable THEN "StepRetrying"
                ELSE IF ~c.fallbackUsed /\ Fallback[c.step] # NoTask
                     THEN "StepFallbackSelected"
                ELSE "StepFailed"
    IN  [kind |-> kind, output |-> NoOutput,
         backoff |-> IF kind = "StepRetrying" THEN "Pending" ELSE "None"]
FailureCompletionDelayed(c, retryable) ==
    [kind |-> IF retryable /\ c.attempt < Budget(c.step) THEN "StepRetrying"
              ELSE IF ~c.fallbackUsed /\ Fallback[c.step] # NoTask
                   THEN "StepFallbackSelected"
              ELSE "StepFailed",
     output |-> NoOutput, backoff |-> "Pending"]

\* The completion execute_claim builds from a failed task.
FailureCompletion(c, retryable) ==
    LET kind == IF retryable /\ c.attempt < Budget(c.step) THEN "StepRetrying"
                ELSE IF ~c.fallbackUsed /\ Fallback[c.step] # NoTask
                     THEN "StepFallbackSelected"
                ELSE "StepFailed"
    IN  [kind |-> kind, output |-> NoOutput,
         backoff |-> IF kind = "StepRetrying" THEN "Pending" ELSE "None"]

TaskResults(c) ==
    {[kind |-> "StepSucceeded", output |-> o, backoff |-> "None"] : o \in Outputs}
        \cup {FailureCompletion(c, retryable) : retryable \in BOOLEAN}

-----------------------------------------------------------------------------
(* Claiming *)

\* A poller reads the ids of the running runs, then tries them one by one
\* without holding the lock; a driver only ever asks for its own run.
Begin(w) ==
    /\ At(w, "Idle")
    /\ ~Polls(w) => status[Target[w]] # "Absent"
    /\ worker' = [worker EXCEPT ![w] =
           [at |-> "Claiming", run |-> Target[w], batch |-> <<>>,
            candidates |-> IF Polls(w) THEN {r \in Runs : status[r] = "Running"}
                                       ELSE {Target[w]}]]
    /\ UNCHANGED <<vars, heartbeats, faults>>

NextCandidate(w) == CHOOSE r \in worker[w].candidates :
                        \A q \in worker[w].candidates : r <= q

RoomInBatch(w) == Len(worker[w].batch) < (IF Polls(w) THEN 1 ELSE MaxParallel)

Claim(w) ==
    /\ At(w, "Claiming") /\ worker[w].candidates # {} /\ RoomInBatch(w)
    /\ \E s \in Steps :
           /\ ClaimStep(NextCandidate(w), s, w)
           /\ \E c \in claims' \ claims :
                  worker' = [worker EXCEPT
                      ![w].run   = c.run,
                      ![w].batch = Append(@, [claim |-> c, stage |-> "Claimed",
                                              result |-> NoResult])]
    /\ UNCHANGED <<heartbeats, faults>>

\* The candidate asked has nothing claimable for w.
SkipCandidate(w) ==
    /\ At(w, "Claiming") /\ worker[w].candidates # {} /\ RoomInBatch(w)
    /\ \A s \in Steps : ~NextClaimable(NextCandidate(w), s, w)
    /\ worker' = [worker EXCEPT ![w].candidates = @ \ {NextCandidate(w)}]
    /\ UNCHANGED <<vars, heartbeats, faults>>

\* With a batch the call executes it; without one a driver tries to finish
\* the run and a poller goes straight to recovery.
StopClaiming(w) ==
    /\ At(w, "Claiming")
    /\ worker[w].candidates = {} \/ ~RoomInBatch(w)
    /\ Goto(w, IF worker[w].batch # <<>> THEN "Executing"
               ELSE IF Polls(w) THEN "Recovering" ELSE "Finishing")
    /\ UNCHANGED <<vars, heartbeats, faults>>

-----------------------------------------------------------------------------
(* execute_claim, for each claim of the batch concurrently *)

\* Mutant: the call goes on although record_event refused StepStarted.
StageAfterStartRegardless(w, c, recorded) ==
    IF c.task \in Registry[w] THEN "Working" ELSE "Refused"

\* A refused StepStarted event or a task missing from the registry is an error
\* of execute_claim; otherwise the heartbeat is spawned and the task runs.
StageAfterStart(w, c, recorded) ==
    IF recorded /\ c.task \in Registry[w] THEN "Working" ELSE "Refused"

Start(w, i) ==
    LET c        == worker[w].batch[i].claim
        started  == StepEvent("StepStarted", c.step, c.attempt)
        recorded == EventIsValid(c.run, started)
        stage    == StageAfterStart(w, c, recorded)
    IN  /\ At(w, "Executing") /\ worker[w].batch[i].stage = "Claimed"
        /\ IF recorded THEN RecordEvent(c.run, started) ELSE UNCHANGED vars
        /\ worker' = [worker EXCEPT ![w].batch[i].stage = stage]
        /\ heartbeats' = IF stage = "Working" THEN heartbeats \cup {c} ELSE heartbeats
        /\ UNCHANGED faults

\* The task returns, fails or is timed out; its heartbeat is aborted.
TaskReturns(w, i) ==
    LET c == worker[w].batch[i].claim
    IN  /\ At(w, "Executing") /\ worker[w].batch[i].stage = "Working"
        /\ \E k \in TaskResults(c) :
               worker' = [worker EXCEPT ![w].batch[i].stage = "Returned",
                                        ![w].batch[i].result = k]
        /\ heartbeats' = heartbeats \ {c}
        /\ UNCHANGED <<vars, faults>>

\* A heartbeat renews until a renewal fails; it knows nothing of its caller.
Heartbeat(c) ==
    /\ \/ RenewStep(c) /\ UNCHANGED heartbeats
       \/ ~HoldsLease(c) /\ heartbeats' = heartbeats \ {c} /\ UNCHANGED vars
    /\ UNCHANGED <<worker, faults>>

Join(w) ==
    /\ At(w, "Executing")
    /\ \A i \in DOMAIN worker[w].batch : worker[w].batch[i].stage \in {"Returned", "Refused"}
    /\ Goto(w, "Committing")
    /\ UNCHANGED <<vars, heartbeats, faults>>

-----------------------------------------------------------------------------
(* Committing and finishing *)

\* The claims are committed in order; the first error ends the call and the
\* results behind it are lost.
Commit(w) ==
    LET entry == Head(worker[w].batch)
    IN  /\ At(w, "Committing") /\ worker[w].batch # <<>>
        /\ entry.stage = "Returned" /\ CompleteStep(entry.claim, entry.result)
        /\ worker' = [worker EXCEPT ![w].batch = Tail(@)]
        /\ UNCHANGED <<heartbeats, faults>>

CommitRefused(w) ==
    LET entry == Head(worker[w].batch)
    IN  /\ At(w, "Committing") /\ worker[w].batch # <<>>
        /\ \/ entry.stage = "Refused"
           \/ ~HoldsLease(entry.claim)
           \/ ~CompletionMatchesClaim(entry.result, entry.claim)
        /\ EndCall(w)
        /\ UNCHANGED <<vars, heartbeats, faults>>

\* After its batch a poller finishes the run; a driver goes on claiming.
Committed(w) ==
    /\ At(w, "Committing") /\ worker[w].batch = <<>>
    /\ IF Polls(w) THEN Goto(w, "Finishing")
       ELSE worker' = [worker EXCEPT ![w].at = "Claiming", ![w].candidates = {Target[w]}]
    /\ UNCHANGED <<vars, heartbeats, faults>>

Finish(w) ==
    /\ At(w, "Finishing")
    /\ \E pass \in BOOLEAN : FinishRun(worker[w].run, pass)
    /\ IF Polls(w) \/ status'[worker[w].run] # "Running" THEN EndCall(w)
                                                         ELSE Goto(w, "Recovering")
    /\ UNCHANGED <<heartbeats, faults>>

Recover(w) ==
    /\ At(w, "Recovering")
    /\ \/ RecoverExpired
       \/ (\A r \in Runs : Expired(r) = {}) /\ UNCHANGED vars
    /\ IF Polls(w) THEN EndCall(w)
       ELSE worker' = [worker EXCEPT ![w].at = "Claiming", ![w].candidates = {Target[w]}]
    /\ UNCHANGED <<heartbeats, faults>>

-----------------------------------------------------------------------------
(* Faults *)

Crash(w) ==
    /\ ~At(w, "Crashed") /\ faults.crashes < MaxCrashes
    /\ worker' = [worker EXCEPT ![w] = [NoCall EXCEPT !.at = "Crashed"]]
    /\ heartbeats' = {c \in heartbeats : c.worker # w}
    /\ faults' = [faults EXCEPT !.crashes = @ + 1]
    /\ UNCHANGED vars

Restart(w) ==
    /\ At(w, "Crashed")
    /\ EndCall(w)
    /\ UNCHANGED <<vars, heartbeats, faults>>

\* The call's future is dropped, or a task panics in it: the JoinHandles of
\* its heartbeats are dropped with it, which detaches the tasks.
CallDies(w) ==
    /\ At(w, "Executing") /\ faults.drops < MaxDrops
    /\ EndCall(w)
    /\ faults' = [faults EXCEPT !.drops = @ + 1]
    /\ UNCHANGED <<vars, heartbeats>>

-----------------------------------------------------------------------------
(* Specification *)

WorkerInit ==
    /\ Init
    /\ worker = [w \in Workers |-> NoCall]
    /\ heartbeats = {}
    /\ faults = [crashes |-> 0, drops |-> 0]

\* Everything an executor call does by itself, the task's own return apart.
Proceed(w) ==
    \/ Begin(w) \/ Claim(w) \/ SkipCandidate(w) \/ StopClaiming(w)
    \/ \E i \in DOMAIN worker[w].batch : Start(w, i)
    \/ Join(w) \/ Commit(w) \/ CommitRefused(w) \/ Committed(w)
    \/ Finish(w) \/ Recover(w) \/ Restart(w)

Return(w) == \E i \in DOMAIN worker[w].batch : TaskReturns(w, i)

\* The clock is not set back here: a clock set back for ever would be time that
\* never passes.
Clock(r, s) ==
    /\ LeaseTicksDown(r, s) \/ BackoffElapses(r, s)
    /\ UNCHANGED <<worker, heartbeats, faults>>

Client ==
    /\ \E r \in Runs : (\E p \in Payloads : CreateRun(r, NoKey, p)) \/ CancelRun(r)
    /\ UNCHANGED <<worker, heartbeats, faults>>

WorkerNext ==
    \/ \E w \in Workers : Proceed(w) \/ Return(w) \/ Crash(w) \/ CallDies(w)
    \/ \E c \in heartbeats : Heartbeat(c)
    \/ \E r \in Runs, s \in Steps : Clock(r, s)
    \/ Client

\* A process that is up makes progress and is restarted after a crash (the
\* caller "owns process supervision"), tasks return, time passes and a live
\* heartbeat keeps its interval.  Nobody is obliged to submit or to cancel.
Fairness ==
    /\ \A w \in Workers : WF_wvars(Proceed(w)) /\ WF_wvars(Return(w))
    /\ \A r \in Runs, s \in Steps : WF_wvars(Clock(r, s))
    /\ WF_wvars(\E c \in heartbeats : Heartbeat(c))

WorkerSpec == WorkerInit /\ [][WorkerNext]_wvars /\ Fairness

-----------------------------------------------------------------------------
(* Properties *)

WorkerTypeOK ==
    /\ TypeOK
    /\ worker \in [Workers -> Call]
    /\ heartbeats \subseteq claims
    /\ faults \in [crashes : 0..MaxCrashes, drops : 0..MaxDrops]

\* The executor decides between retry, fallback and failure from its claim, the
\* repository checks the decision from the same claim: complete_step never
\* answers InvalidCompletion to what execute_claim built.
OwnCompletionMatches ==
    \A w \in Workers : \A i \in DOMAIN worker[w].batch :
        LET entry == worker[w].batch[i]
        IN  entry.stage = "Returned" => CompletionMatchesClaim(entry.result, entry.claim)

\* In a run's log an attempt succeeds only after it was started, even when the
\* run is cancelled or finished between the claim and the StepStarted event.
SuccessFollowsStart ==
    \A r \in Runs : \A j \in DOMAIN log[r] :
        log[r][j].event.kind = "StepSucceeded" =>
            \E i \in 1..(j - 1) :
                log[r][i].event = [log[r][j].event EXCEPT !.kind = "StepStarted"]

\* A heartbeat whose call died: nobody is left to abort it.
Leaked(r) ==
    \E c \in heartbeats :
        /\ c.run = r
        /\ \A w \in Workers : \A i \in DOMAIN worker[w].batch : worker[w].batch[i].claim # c

\* "recover expired workers" and "resume": while some process drives a run it
\* comes to rest, in a terminal status and with no attempt still open, whoever
\* held an attempt crashed, stalled, lost its result or worked on a step after
\* the run was over.  A heartbeat that outlived its call may prevent it.
RunsSettle ==
    \A r \in Runs :
        status[r] = "Running" /\ (\E w \in Workers : Target[w] = r)
            ~> \/ status[r] \in Terminal /\ \A s \in Steps : steps[r][s].status # "Running"
               \/ Leaked(r)

\* Every submitted run reaches a terminal status.
RunsFinish == \A r \in Runs : status[r] = "Running" ~> status[r] \in Terminal
=============================================================================
