----------------------- MODULE RepositoryClientProofs -----------------------
(***************************************************************************)
(* The two components that use a RunRepository from outside, each for all  *)
(* its constants and with variables of its own.                            *)
(*                                                                         *)
(* DurableWorker, for any number of processes, steps and runs: whatever    *)
(* executors do, crash and leak, the repository only sees steps of its own *)
(* contract, so everything proved of RunRepository holds under executors   *)
(* too, and what the executors build from a claim fits that claim.         *)
(*                                                                         *)
(* SnapshotRestore: snapshots put back over newer                          *)
(* records or into a fresh process keep the index exact and every history  *)
(* rising.  Claims outlive the processes that granted them, so of the      *)
(* repository's invariants only IInv, which does not speak of what claims  *)
(* say, holds here; a snapshot is as sound as the record it was taken of,  *)
(* and putting one back raises the counters to what it retains.            *)
(***************************************************************************)
EXTENDS DurableWorker, SnapshotRestore, RunRepositoryProofs

-----------------------------------------------------------------------------
(* DurableWorker: the inductive invariant *)

StartedEvent(c) == StepEvent("StepStarted", c.step, c.attempt)

\* An entry of a batch holds a claim the repository issued, its result was
\* built from that claim, and its task only runs once StepStarted is logged.
SoundEntries ==
    {e \in Entry :
        /\ e.claim \in claims
        /\ e.stage = "Returned" => e.result \in TaskResults(e.claim)
        /\ e.stage \in {"Working", "Returned"} => Logged(e.claim.run, StartedEvent(e.claim))}

\* A call that may still finish a run knows which one.
KnowsRun(w, call) ==
    call.run = NoRun =>
        /\ call.at \notin {"Executing", "Committing", "Finishing"}
        /\ call.batch = <<>>
        /\ ~Polls(w) => call.at \in {"Idle", "Crashed"}

SoundCalls(w) ==
    {call \in [at : Places, candidates : SUBSET Runs, run : Runs \cup {NoRun},
               batch : Seq(SoundEntries)] : KnowsRun(w, call)}

WorkerInv ==
    /\ worker = [w \in Workers |-> worker[w]]
    /\ \A w \in Workers : worker[w] \in SoundCalls(w)
    /\ heartbeats \subseteq claims
    /\ faults \in [crashes : 0..MaxCrashes, drops : 0..MaxDrops]

\* What is proved of the repository alone.
RepositoryInv == IInv /\ TokenInv /\ BudgetInv /\ EventInv

LEMMA NextRepositoryInv ==
    ASSUME RepositoryInv, [Next]_vars
    PROVE  /\ RepositoryInv' /\ Tells
           /\ IInv /\ IInv' /\ claims \subseteq claims'
<1>1. IInv' /\ TokenInv' /\ BudgetInv' /\ EventInv' /\ Tells
  BY NextIInv, NextToken, NextBudget, NextEvents DEF RepositoryInv
<1>2. claims \subseteq claims'
  BY NextChanges DEF RepositoryInv, ClaimStep
<1> QED
  BY <1>1, <1>2 DEF RepositoryInv

\* Claims and logged events are never taken back, so what is sound stays so.
LEMMA SoundStaysSound ==
    ASSUME RepositoryInv, [Next]_vars
    PROVE  /\ SoundEntries \subseteq SoundEntries'
           /\ \A w \in Workers : SoundCalls(w) \subseteq SoundCalls(w)'
<1>1. IInv /\ IInv' /\ Tells /\ claims \subseteq claims'
  BY NextRepositoryInv
<1>2. ASSUME NEW e \in SoundEntries PROVE e \in SoundEntries'
  <2>1. e \in Entry /\ e.claim \in claims /\ e.claim \in claims'
    BY <1>1 DEF SoundEntries
  <2>2. PICK r \in Runs : r = e.claim.run
    BY <2>1 DEF Entry, StepClaim, ClaimOn
  <2>3. PICK started : started = StartedEvent(e.claim)
    OBVIOUS
  <2>4. Logged(r, started) => Logged(r, started)'
    BY <1>1, LoggedNow
  <2> QED
    BY <2>1, <2>2, <2>3, <2>4 DEF SoundEntries
<1>3. SoundEntries \subseteq SoundEntries'
  BY <1>2
<1>4. \A batch \in Seq(SoundEntries) : batch \in Seq(SoundEntries')
  BY <1>3, SeqMonotonic
<1> QED
  BY <1>3, <1>4 DEF SoundCalls

\* A step that replaces one executor's call by a sound one keeps the invariant.
LEMMA OneCallReplaced ==
    ASSUME RepositoryInv, WorkerInv, [Next]_vars,
           NEW w \in Workers, NEW call \in SoundCalls(w)',
           worker' = [worker EXCEPT ![w] = call],
           heartbeats' \subseteq claims',
           faults' \in [crashes : 0..MaxCrashes, drops : 0..MaxDrops]
    PROVE  WorkerInv'
<1>1. \A v \in Workers : SoundCalls(v) \subseteq SoundCalls(v)'
  BY SoundStaysSound
<1>2. worker'[w] = call /\ \A v \in Workers \ {w} : worker'[v] = worker[v]
  BY DEF WorkerInv
<1>3. \A v \in Workers : worker'[v] \in SoundCalls(v)'
  BY <1>1, <1>2 DEF WorkerInv
<1>4. worker' = [v \in Workers |-> worker'[v]]
  BY DEF WorkerInv
<1> QED
  BY <1>3, <1>4 DEF WorkerInv

\* And so does one that replaces none.
LEMMA NoCallReplaced ==
    ASSUME RepositoryInv, WorkerInv, [Next]_vars, UNCHANGED <<worker, faults>>,
           heartbeats' \subseteq claims'
    PROVE  WorkerInv'
<1>1. \A v \in Workers : SoundCalls(v) \subseteq SoundCalls(v)'
  BY SoundStaysSound
<1> QED
  BY <1>1 DEF WorkerInv

-----------------------------------------------------------------------------
(* Sets of runs *)

\* The candidate a call asks next is a run.
LEMMA NextCandidateIsRun ==
    ASSUME WorkerInv, NEW w \in Workers, worker[w].candidates # {}
    PROVE  NextCandidate(w) \in worker[w].candidates /\ NextCandidate(w) \in Runs
<1>1. worker[w].candidates \in SUBSET Runs
  BY DEF WorkerInv, SoundCalls
<1>2. worker[w].candidates \in SUBSET Nat
  BY <1>1, RunsAssumption DEF Runs
<1>3. \E n \in worker[w].candidates : \A m \in worker[w].candidates : n <= m
  BY <1>2, LeastExists
<1> QED
  BY <1>1, <1>3 DEF NextCandidate

-----------------------------------------------------------------------------
(* What the steps of an executor call do *)

\* Whatever a task did, the completion built from its claim fits the claim.
LEMMA TaskResultsFit ==
    ASSUME NEW c, NEW k \in TaskResults(c)
    PROVE  k \in StepCompletion /\ CompletionMatchesClaim(k, c)
<1>1. CASE k \in {[kind |-> "StepSucceeded", output |-> o, backoff |-> "None"] : o \in Outputs}
  BY <1>1 DEF StepCompletion, CompletionMatchesClaim
<1>2. CASE \E retryable \in BOOLEAN : k = FailureCompletion(c, retryable)
  BY <1>2 DEF FailureCompletion, StepCompletion, CompletionMatchesClaim
<1> QED
  BY <1>1, <1>2 DEF TaskResults

LEMMA CallFields ==
    ASSUME WorkerInv, NEW w \in Workers
    PROVE  LET call == worker[w]
           IN  /\ call \in [at : Places, candidates : SUBSET Runs, run : Runs \cup {NoRun},
                            batch : Seq(SoundEntries)]
               /\ call.at \in Places /\ call.candidates \in SUBSET Runs
               /\ call.run \in Runs \cup {NoRun} /\ KnowsRun(w, call)
               /\ call.batch \in Seq(SoundEntries)
BY DEF WorkerInv, SoundCalls

LEMMA NoCallIsSound ==
    ASSUME NEW w \in Workers
    PROVE  /\ NoCall \in SoundCalls(w)
           /\ [NoCall EXCEPT !.at = "Crashed"] \in SoundCalls(w)
<1>1. <<>> \in Seq(SoundEntries)
  BY EmptySeq
<1> QED
  BY <1>1 DEF NoCall, SoundCalls, Places, KnowsRun

\* A claim is one of a run, and its attempt is that of a step.
LEMMA EntryFields ==
    ASSUME RepositoryInv, NEW e \in SoundEntries
    PROVE  /\ e \in Entry /\ e.claim \in claims /\ e.claim \in StepClaim
           /\ e.claim.run \in Runs /\ e.claim.step \in Steps /\ e.claim.attempt \in Nat
           /\ e = [claim |-> e.claim, stage |-> e.stage, result |-> e.result]
           /\ e.stage = "Returned" => e.result \in TaskResults(e.claim)
           /\ e.stage \in {"Working", "Returned"} => Logged(e.claim.run, StartedEvent(e.claim))
BY DEF SoundEntries, Entry, StepClaim, ClaimOn

\* Steps in which the executor only moves: the repository does not change.
LEMMA QuietCall ==
    ASSUME RepositoryInv, WorkerInv, UNCHANGED vars, NEW w \in Workers,
           NEW call \in SoundCalls(w), worker' = [worker EXCEPT ![w] = call],
           heartbeats' \subseteq claims,
           faults' \in [crashes : 0..MaxCrashes, drops : 0..MaxDrops]
    PROVE  [Next]_vars /\ WorkerInv'
<1>1. SoundCalls(w) \subseteq SoundCalls(w)' /\ claims' = claims
  BY SoundStaysSound DEF vars
<1> QED
  BY <1>1, OneCallReplaced

LEMMA BeginSound ==
    ASSUME RepositoryInv, WorkerInv, NEW w \in Workers, Begin(w)
    PROVE  [Next]_vars /\ WorkerInv'
<1> DEFINE call == [at |-> "Claiming", run |-> Target[w], batch |-> <<>>,
                    candidates |-> IF Polls(w) THEN {r \in Runs : status[r] = "Running"}
                                               ELSE {Target[w]}]
<1>1. Target[w] \in Runs \cup {NoRun} /\ (~Polls(w) => Target[w] \in Runs)
  BY WorkerAssumption DEF Polls
<1>2. <<>> \in Seq(SoundEntries)
  BY EmptySeq
<1>3. call \in SoundCalls(w)
  BY <1>1, <1>2 DEF SoundCalls, Places, KnowsRun, Polls
<1>4. worker' = [worker EXCEPT ![w] = call]
  BY DEF Begin
<1> HIDE DEF call
<1> QED
  BY <1>3, <1>4, QuietCall DEF Begin, WorkerInv

\* A call that goes to a place which needs no run, or that knows its run.
LEMMA CallMoves ==
    ASSUME RepositoryInv, WorkerInv, UNCHANGED <<vars, heartbeats, faults>>, NEW w \in Workers,
           NEW place \in Places, Goto(w, place),
           worker[w].run = NoRun =>
               /\ place \notin {"Executing", "Committing", "Finishing"}
               /\ ~Polls(w) => place \in {"Idle", "Crashed"}
    PROVE  [Next]_vars /\ WorkerInv'
<1> DEFINE call == [worker[w] EXCEPT !.at = place]
<1>1. worker' = [worker EXCEPT ![w] = call]
  BY DEF Goto
<1>2. call \in SoundCalls(w)
  <2>1. worker[w].run = NoRun => worker[w].batch = <<>>
    BY CallFields DEF KnowsRun
  <2>2. call = [at |-> place, candidates |-> worker[w].candidates,
                run |-> worker[w].run, batch |-> worker[w].batch]
    BY CallFields
  <2> QED
    BY <2>1, <2>2, CallFields DEF SoundCalls, KnowsRun
<1> HIDE DEF call
<1> QED
  BY <1>1, <1>2, QuietCall DEF WorkerInv

LEMMA CallEnds ==
    ASSUME RepositoryInv, WorkerInv, UNCHANGED <<vars, heartbeats>>, NEW w \in Workers,
           EndCall(w), faults' \in [crashes : 0..MaxCrashes, drops : 0..MaxDrops]
    PROVE  [Next]_vars /\ WorkerInv'
BY NoCallIsSound, QuietCall DEF EndCall, WorkerInv

LEMMA SkipCandidateSound ==
    ASSUME RepositoryInv, WorkerInv, NEW w \in Workers, SkipCandidate(w)
    PROVE  [Next]_vars /\ WorkerInv'
<1> DEFINE rest == worker[w].candidates \ {NextCandidate(w)}
           call == [worker[w] EXCEPT !.candidates = rest]
<1>1. worker' = [worker EXCEPT ![w] = call]
  BY DEF SkipCandidate
<1>2. rest \in SUBSET Runs
  BY CallFields
<1> HIDE DEF rest
<1>3. call \in SoundCalls(w)
  BY <1>2, CallFields DEF SoundCalls, KnowsRun
<1> HIDE DEF call
<1> QED
  BY <1>1, <1>3, QuietCall DEF SkipCandidate, WorkerInv

LEMMA StopClaimingSound ==
    ASSUME RepositoryInv, WorkerInv, NEW w \in Workers, StopClaiming(w)
    PROVE  [Next]_vars /\ WorkerInv'
<1> DEFINE place == IF worker[w].batch # <<>> THEN "Executing"
                    ELSE IF Polls(w) THEN "Recovering" ELSE "Finishing"
<1>1. place \in Places /\ Goto(w, place)
  BY DEF Places, StopClaiming
<1>2. worker[w].run = NoRun => place = "Recovering" /\ Polls(w)
  BY CallFields DEF KnowsRun, StopClaiming, At
<1> HIDE DEF place
<1> QED
  BY <1>1, <1>2, CallMoves DEF StopClaiming

\* The new claim enters the batch as it was issued.
LEMMA ClaimSound ==
    ASSUME RepositoryInv, WorkerInv, NEW w \in Workers, Claim(w)
    PROVE  [Next]_vars /\ WorkerInv'
<1>1. PICK r \in Runs : r = NextCandidate(w)
  BY NextCandidateIsRun DEF Claim
<1>2. PICK s \in Steps, c \in claims' \ claims :
          /\ ClaimStep(r, s, w)
          /\ worker' = [worker EXCEPT
                 ![w].run   = c.run,
                 ![w].batch = Append(@, [claim |-> c, stage |-> "Claimed",
                                         result |-> NoResult])]
  BY <1>1 DEF Claim
<1>3. [Next]_vars
  BY <1>2 DEF Next
<1> DEFINE entry == [claim |-> c, stage |-> "Claimed", result |-> NoResult]
           batch == Append(worker[w].batch, entry)
           call  == [worker[w] EXCEPT !.run = c.run, !.batch = batch]
<1>4. c \in claims' /\ c \in StepClaim /\ c.run \in Runs
  BY <1>3, NextRepositoryInv DEF RepositoryInv, IInv, TypeOK, StepClaim, ClaimOn
<1>5. entry \in SoundEntries'
  BY <1>4 DEF SoundEntries, Entry
<1>6. worker[w].batch \in Seq(SoundEntries')
  BY <1>3, CallFields, SoundStaysSound, SeqMonotonic
<1>7. worker' = [worker EXCEPT ![w] = call]
  BY <1>2
<1> HIDE DEF entry
<1>8. batch \in Seq(SoundEntries')
  BY <1>5, <1>6, AppendProperties
<1> HIDE DEF batch
<1>9. c.run # NoRun
  BY <1>4, RunsAssumption DEF Runs, NoRun
<1>10. call \in SoundCalls(w)'
  <2>1. call \in [at : Places, candidates : SUBSET Runs, run : Runs \cup {NoRun},
                  batch : Seq(SoundEntries')]
    BY <1>4, <1>8, CallFields
  <2>2. call.run # NoRun
    BY <1>9, CallFields
  <2> HIDE DEF call
  <2> QED
    BY <2>1, <2>2 DEF SoundCalls, KnowsRun
<1>11. heartbeats' = heartbeats /\ faults' = faults
  BY DEF Claim
<1> HIDE DEF call
<1>12. heartbeats' \subseteq claims'
  BY <1>3, <1>11, NextRepositoryInv DEF WorkerInv
<1> QED
  BY <1>3, <1>7, <1>10, <1>11, <1>12, OneCallReplaced DEF WorkerInv

\* An entry of the batch is replaced by a sound one.
LEMMA EntryReplaced ==
    ASSUME RepositoryInv, WorkerInv, [Next]_vars, NEW w \in Workers,
           NEW i \in DOMAIN worker[w].batch, NEW entry \in SoundEntries',
           worker' = [worker EXCEPT ![w].batch[i] = entry],
           heartbeats' \subseteq claims', UNCHANGED faults
    PROVE  WorkerInv'
<1> DEFINE batch == [worker[w].batch EXCEPT ![i] = entry]
           call  == [worker[w] EXCEPT !.batch = batch]
<1>1. worker[w].batch \in Seq(SoundEntries') /\ i \in 1..Len(worker[w].batch)
  <2>1. worker[w].batch \in Seq(SoundEntries)
    BY CallFields
  <2> QED
    BY <2>1, SoundStaysSound, SeqMonotonic
<1>2. batch \in Seq(SoundEntries')
  BY <1>1, ExceptSeq
<1>3. worker' = [worker EXCEPT ![w] = call]
  OBVIOUS
<1>4. worker[w].batch # <<>>
  BY <1>1
<1> HIDE DEF batch
<1>5. call \in [at : Places, candidates : SUBSET Runs, run : Runs \cup {NoRun},
                batch : Seq(SoundEntries')]
  BY <1>2, CallFields
<1>6. call.run # NoRun
  BY <1>4, CallFields DEF KnowsRun
<1> HIDE DEF call
<1>7. call \in SoundCalls(w)'
  BY <1>5, <1>6 DEF SoundCalls, KnowsRun
<1> QED
  BY <1>3, <1>7, OneCallReplaced DEF WorkerInv

LEMMA BatchEntry ==
    ASSUME RepositoryInv, WorkerInv, NEW w \in Workers, NEW i \in DOMAIN worker[w].batch
    PROVE  worker[w].batch[i] \in SoundEntries
BY CallFields

\* The event of an accepted StepStarted is in the log when the task runs.
LEMMA StartSound ==
    ASSUME RepositoryInv, WorkerInv, NEW w \in Workers, NEW i \in DOMAIN worker[w].batch,
           Start(w, i)
    PROVE  [Next]_vars /\ WorkerInv'
<1>1. PICK e \in SoundEntries : e = worker[w].batch[i]
  BY BatchEntry
<1>2. PICK c \in claims : c = e.claim
  BY <1>1, EntryFields
<1>3. c.run \in Runs /\ c.step \in Steps /\ e \in Entry
  BY <1>1, <1>2, EntryFields
<1> DEFINE started  == StartedEvent(c)
           recorded == EventIsValid(c.run, started)
<1>4. PICK stage : stage = StageAfterStart(w, c, recorded)
  OBVIOUS
<1>5. /\ IF recorded THEN RecordEvent(c.run, started) ELSE UNCHANGED vars
      /\ worker' = [worker EXCEPT ![w].batch[i].stage = stage]
      /\ heartbeats' = IF stage = "Working" THEN heartbeats \cup {c} ELSE heartbeats
      /\ UNCHANGED faults
      /\ stage \in {"Working", "Refused"} /\ (stage = "Working" => recorded)
  BY <1>1, <1>2, <1>4 DEF Start, StartedEvent, StageAfterStart
<1>6. recorded => started \in StepEventsOf(c.run)
  <2>1. "StepStarted" \in StepEventKinds
    BY DEF StepEventKinds, Announces
  <2>2. started.kind = "StepStarted" /\ started.step = c.step /\ started.attempt = c.attempt
    BY <1>3, <2>1, StepEventFields DEF StartedEvent
  <2>3. recorded => steps[c.run][c.step].attempts = c.attempt
    <3> HIDE DEF started
    <3> QED
      BY <2>1, <2>2 DEF EventIsValid, StepEventIsValid
  <2> QED
    BY <1>3, <2>1, <2>3 DEF StepEventsOf, StartedEvent
<1> HIDE DEF started
<1>7. [Next]_vars /\ (recorded => AppendEvent(c.run, started))
  BY <1>3, <1>5, <1>6 DEF Next, RecordEvent
<1>8. recorded => Logged(c.run, started)'
  <2> SUFFICES ASSUME recorded PROVE Logged(c.run, started)'
    OBVIOUS
  <2>1. IInv /\ IInv' /\ Tells
    BY <1>7, NextRepositoryInv
  <2>2. PICK r \in Runs : r = c.run
    BY <1>3
  <2>3. started \in NewEvents(r)
    BY <1>7, <2>1, <2>2, AppendedLogs DEF IInv
  <2> QED
    BY <2>1, <2>2, <2>3, LoggedNow
<1> HIDE DEF recorded
<1> DEFINE entry == [e EXCEPT !.stage = stage]
<1>9. entry \in Entry /\ entry.claim = c /\ entry.stage = stage
  BY <1>2, <1>3, <1>5 DEF Entry
<1>10. worker' = [worker EXCEPT ![w].batch[i] = entry]
  BY <1>1, <1>5
<1>11. claims \subseteq claims'
  BY <1>7, NextRepositoryInv
<1>12. heartbeats' \subseteq claims'
  BY <1>5, <1>11 DEF WorkerInv
<1> HIDE DEF entry
<1>13. entry \in SoundEntries'
  <2>1. stage = "Working" => Logged(entry.claim.run, StartedEvent(entry.claim))'
    BY <1>5, <1>8, <1>9 DEF started, StartedEvent
  <2> QED
    BY <1>5, <1>9, <1>11, <2>1 DEF SoundEntries
<1>14. UNCHANGED faults
  BY <1>5
<1>15. WorkerInv'
  BY <1>7, <1>10, <1>12, <1>13, <1>14, EntryReplaced
<1> QED
  BY <1>7, <1>15

LEMMA TaskReturnsSound ==
    ASSUME RepositoryInv, WorkerInv, NEW w \in Workers, NEW i \in DOMAIN worker[w].batch,
           TaskReturns(w, i)
    PROVE  [Next]_vars /\ WorkerInv'
<1>1. PICK e \in SoundEntries : e = worker[w].batch[i]
  BY BatchEntry
<1>2. PICK k \in TaskResults(e.claim) :
          worker' = [worker EXCEPT ![w].batch[i].stage = "Returned",
                                   ![w].batch[i].result = k]
  BY <1>1 DEF TaskReturns
<1> DEFINE entry == [e EXCEPT !.stage = "Returned", !.result = k]
<1>3. worker' = [worker EXCEPT ![w].batch[i] = entry]
  BY <1>1, <1>2
<1>4. e.stage = "Working" /\ UNCHANGED vars /\ UNCHANGED faults
  BY <1>1 DEF TaskReturns
<1>5. [Next]_vars
  BY <1>4
<1>6. claims' = claims
  BY <1>4 DEF vars
<1>7. heartbeats' \subseteq claims'
  BY <1>6 DEF TaskReturns, WorkerInv
<1>8. /\ entry \in Entry
      /\ entry.claim = e.claim /\ entry.stage = "Returned" /\ entry.result = k
  BY EntryFields, TaskResultsFit DEF Entry
<1> HIDE DEF entry
<1>9. Logged(e.claim.run, StartedEvent(e.claim)) /\ e.claim \in claims
  BY <1>4, EntryFields
<1>10. entry \in SoundEntries
  BY <1>8, <1>9 DEF SoundEntries
<1>11. entry \in SoundEntries'
  BY <1>5, <1>10, SoundStaysSound
<1>12. WorkerInv'
  BY <1>3, <1>4, <1>5, <1>7, <1>11, EntryReplaced
<1> QED
  BY <1>5, <1>12

LEMMA HeartbeatSound ==
    ASSUME RepositoryInv, WorkerInv, NEW c \in heartbeats, Heartbeat(c)
    PROVE  [Next]_vars /\ WorkerInv'
<1>1. c \in claims
  BY DEF WorkerInv
<1>2. [Next]_vars
  BY <1>1 DEF Heartbeat, Next
<1>3. claims \subseteq claims'
  BY <1>2, NextRepositoryInv
<1>4. heartbeats' \subseteq claims' /\ UNCHANGED <<worker, faults>>
  BY <1>3 DEF Heartbeat, WorkerInv
<1> QED
  BY <1>2, <1>4, NoCallReplaced

LEMMA JoinSound ==
    ASSUME RepositoryInv, WorkerInv, NEW w \in Workers, Join(w)
    PROVE  [Next]_vars /\ WorkerInv'
<1>1. "Committing" \in Places /\ worker[w].run # NoRun
  BY CallFields DEF Places, KnowsRun, Join, At
<1> QED
  BY <1>1, CallMoves DEF Join

\* Dropping entries from a batch leaves a call sound.
LEMMA CommitSound ==
    ASSUME RepositoryInv, WorkerInv, NEW w \in Workers, Commit(w)
    PROVE  [Next]_vars /\ WorkerInv'
<1> DEFINE rest == Tail(worker[w].batch)
           call == [worker[w] EXCEPT !.batch = rest]
<1>1. /\ worker[w].batch \in Seq(SoundEntries) /\ worker[w].batch # <<>>
      /\ worker[w].run # NoRun
  BY CallFields DEF Commit, At, KnowsRun
<1>2. Head(worker[w].batch) \in SoundEntries /\ rest \in Seq(SoundEntries)
  BY <1>1, HeadTailProperties
<1>3. PICK e \in SoundEntries : e = Head(worker[w].batch)
  BY <1>2
<1>4. /\ e.stage = "Returned" /\ CompleteStep(e.claim, e.result)
      /\ UNCHANGED <<heartbeats, faults>>
  BY <1>3 DEF Commit
<1>5. e.claim \in claims /\ e.result \in StepCompletion
  BY <1>4, EntryFields, TaskResultsFit
<1>6. [Next]_vars
  BY <1>4, <1>5 DEF Next
<1>7. worker' = [worker EXCEPT ![w] = call]
  BY DEF Commit
<1> HIDE DEF rest
<1>8. call \in [at : Places, candidates : SUBSET Runs, run : Runs \cup {NoRun},
                batch : Seq(SoundEntries)]
  BY <1>2, CallFields
<1>9. call.run # NoRun
  BY <1>1, CallFields
<1> HIDE DEF call
<1>10. call \in SoundCalls(w)'
  BY <1>6, <1>8, <1>9, SoundStaysSound DEF SoundCalls, KnowsRun
<1>11. claims \subseteq claims'
  BY <1>6, NextRepositoryInv
<1>12. /\ heartbeats' \subseteq claims'
       /\ faults' \in [crashes : 0..MaxCrashes, drops : 0..MaxDrops]
  BY <1>4, <1>11 DEF WorkerInv
<1>13. WorkerInv'
  BY <1>6, <1>7, <1>10, <1>12, OneCallReplaced
<1> QED
  BY <1>6, <1>13

LEMMA CommitRefusedSound ==
    ASSUME RepositoryInv, WorkerInv, NEW w \in Workers, CommitRefused(w)
    PROVE  [Next]_vars /\ WorkerInv'
BY CallEnds DEF CommitRefused, WorkerInv

\* A driver asks for its own run again.
LEMMA ClaimsAgain ==
    ASSUME RepositoryInv, WorkerInv, NEW w \in Workers, ~Polls(w), worker[w].run # NoRun
    PROVE  [worker[w] EXCEPT !.at = "Claiming", !.candidates = {Target[w]}] \in SoundCalls(w)
<1> DEFINE call == [worker[w] EXCEPT !.at = "Claiming", !.candidates = {Target[w]}]
<1>1. "Claiming" \in Places /\ {Target[w]} \in SUBSET Runs
  BY WorkerAssumption DEF Polls, Places
<1>2. call \in [at : Places, candidates : SUBSET Runs, run : Runs \cup {NoRun},
                batch : Seq(SoundEntries)]
  BY <1>1, CallFields
<1>3. call.run # NoRun
  BY CallFields
<1> HIDE DEF call
<1>4. call \in SoundCalls(w)
  BY <1>2, <1>3 DEF SoundCalls, KnowsRun
<1> QED
  BY <1>4 DEF call

LEMMA CommittedSound ==
    ASSUME RepositoryInv, WorkerInv, NEW w \in Workers, Committed(w)
    PROVE  [Next]_vars /\ WorkerInv'
<1>1. "Finishing" \in Places /\ worker[w].run # NoRun
  BY CallFields DEF Places, KnowsRun, Committed, At
<1>2. CASE Polls(w)
  BY <1>1, <1>2, CallMoves DEF Committed
<1>3. CASE ~Polls(w)
  <2> DEFINE call == [worker[w] EXCEPT !.at = "Claiming", !.candidates = {Target[w]}]
  <2>1. call \in SoundCalls(w)
    BY <1>1, <1>3, ClaimsAgain
  <2>2. worker' = [worker EXCEPT ![w] = call]
    BY <1>3 DEF Committed
  <2> HIDE DEF call
  <2> QED
    BY <2>1, <2>2, QuietCall DEF Committed, WorkerInv
<1> QED
  BY <1>2, <1>3

LEMMA FinishSound ==
    ASSUME RepositoryInv, WorkerInv, NEW w \in Workers, Finish(w)
    PROVE  [Next]_vars /\ WorkerInv'
<1>1. worker[w].run # NoRun /\ worker[w].run \in Runs
  BY CallFields DEF KnowsRun, Finish, At
<1>2. PICK r \in Runs : r = worker[w].run
  BY <1>1
<1>3. [Next]_vars
  BY <1>2 DEF Finish, Next
<1> DEFINE onward == [worker[w] EXCEPT !.at = "Recovering"]
<1>4. worker' = [worker EXCEPT ![w] = NoCall] \/ worker' = [worker EXCEPT ![w] = onward]
  BY DEF Finish, EndCall, Goto
<1>5. onward \in SoundCalls(w)
  <2>1. onward \in [at : Places, candidates : SUBSET Runs, run : Runs \cup {NoRun},
                    batch : Seq(SoundEntries)]
    BY CallFields DEF Places
  <2>2. onward.run # NoRun
    BY <1>1, CallFields
  <2> HIDE DEF onward
  <2> QED
    BY <2>1, <2>2 DEF SoundCalls, KnowsRun
<1> HIDE DEF onward
<1>6. NoCall \in SoundCalls(w)' /\ onward \in SoundCalls(w)'
  BY <1>3, <1>5, NoCallIsSound, SoundStaysSound
<1>7. claims \subseteq claims'
  BY <1>3, NextRepositoryInv
<1>8. /\ heartbeats' \subseteq claims'
      /\ faults' \in [crashes : 0..MaxCrashes, drops : 0..MaxDrops]
  BY <1>7 DEF WorkerInv, Finish
<1>9. WorkerInv'
  BY <1>3, <1>4, <1>6, <1>8, OneCallReplaced
<1> QED
  BY <1>3, <1>9

LEMMA RecoverSound ==
    ASSUME RepositoryInv, WorkerInv, NEW w \in Workers, Recover(w)
    PROVE  [Next]_vars /\ WorkerInv'
<1>1. [Next]_vars
  BY DEF Recover, Next
<1>2. PICK call \in SoundCalls(w) : worker' = [worker EXCEPT ![w] = call]
  <2>1. CASE Polls(w)
    BY <2>1, NoCallIsSound DEF Recover, EndCall
  <2>2. CASE ~Polls(w)
    <3> DEFINE again == [worker[w] EXCEPT !.at = "Claiming", !.candidates = {Target[w]}]
    <3>1. worker[w].run # NoRun
      BY <2>2, CallFields DEF KnowsRun, Recover, At
    <3>2. again \in SoundCalls(w)
      BY <2>2, <3>1, ClaimsAgain
    <3>3. worker' = [worker EXCEPT ![w] = again]
      BY <2>2 DEF Recover
    <3> HIDE DEF again
    <3> QED
      BY <3>2, <3>3
  <2> QED
    BY <2>1, <2>2
<1>3. claims \subseteq claims' /\ call \in SoundCalls(w)'
  BY <1>1, <1>2, NextRepositoryInv, SoundStaysSound
<1>4. /\ heartbeats' \subseteq claims'
      /\ faults' \in [crashes : 0..MaxCrashes, drops : 0..MaxDrops]
  BY <1>3 DEF WorkerInv, Recover
<1>5. WorkerInv'
  BY <1>1, <1>2, <1>3, <1>4, OneCallReplaced
<1> QED
  BY <1>1, <1>5

\* Faults take an executor's call away and leave the repository alone.
LEMMA FaultSound ==
    ASSUME RepositoryInv, WorkerInv, NEW w \in Workers, Crash(w) \/ Restart(w) \/ CallDies(w)
    PROVE  [Next]_vars /\ WorkerInv'
<1>1. CASE Crash(w)
  <2> DEFINE down == [NoCall EXCEPT !.at = "Crashed"]
  <2>1. down \in SoundCalls(w) /\ worker' = [worker EXCEPT ![w] = down]
    BY <1>1, NoCallIsSound DEF Crash
  <2>2. faults' \in [crashes : 0..MaxCrashes, drops : 0..MaxDrops]
    BY <1>1, WorkerAssumption DEF Crash, WorkerInv
  <2>3. heartbeats' \subseteq claims
    BY <1>1 DEF Crash, WorkerInv
  <2> HIDE DEF down
  <2> QED
    BY <1>1, <2>1, <2>2, <2>3, QuietCall DEF Crash
<1>2. CASE Restart(w)
  BY <1>2, CallEnds DEF Restart, WorkerInv
<1>3. CASE CallDies(w)
  <2>1. faults' \in [crashes : 0..MaxCrashes, drops : 0..MaxDrops]
    BY <1>3, WorkerAssumption DEF CallDies, WorkerInv
  <2> QED
    BY <1>3, <2>1, CallEnds DEF CallDies
<1> QED
  BY <1>1, <1>2, <1>3

\* Time and clients move the repository only.
LEMMA OutsideSound ==
    ASSUME RepositoryInv, WorkerInv, Client \/ \E r \in Runs, s \in Steps : Clock(r, s)
    PROVE  [Next]_vars /\ WorkerInv'
<1>1. [Next]_vars /\ UNCHANGED <<worker, heartbeats, faults>>
  BY DEF Client, Clock, Next
<1>2. claims \subseteq claims'
  BY <1>1, NextRepositoryInv
<1>3. heartbeats' \subseteq claims'
  BY <1>1, <1>2 DEF WorkerInv
<1>4. WorkerInv'
  BY <1>1, <1>3, NoCallReplaced
<1> QED
  BY <1>1, <1>4

LEMMA WorkerNextSound ==
    ASSUME RepositoryInv, WorkerInv, [WorkerNext]_wvars
    PROVE  [Next]_vars /\ WorkerInv'
<1>1. ASSUME NEW w \in Workers, Proceed(w) PROVE [Next]_vars /\ WorkerInv'
  BY <1>1, BeginSound, ClaimSound, SkipCandidateSound, StopClaimingSound, StartSound, JoinSound,
     CommitSound, CommitRefusedSound, CommittedSound, FinishSound, RecoverSound, FaultSound
     DEF Proceed
<1>2. ASSUME NEW w \in Workers, Return(w) PROVE [Next]_vars /\ WorkerInv'
  BY <1>2, TaskReturnsSound DEF Return
<1>3. CASE UNCHANGED wvars
  <2>1. UNCHANGED vars /\ UNCHANGED <<worker, heartbeats, faults>>
    BY <1>3 DEF wvars
  <2>2. heartbeats' \subseteq claims'
    BY <2>1 DEF vars, WorkerInv
  <2> QED
    BY <2>1, <2>2, NoCallReplaced
<1> QED
  BY <1>1, <1>2, <1>3, FaultSound, HeartbeatSound, OutsideSound DEF WorkerNext

LEMMA WorkerInitSound ==
    ASSUME WorkerInit PROVE RepositoryInv /\ WorkerInv
<1>1. RepositoryInv
  BY InitIInv, InitToken, InitBudget, InitEvents DEF WorkerInit, RepositoryInv
<1>2. \A w \in Workers : worker[w] \in SoundCalls(w)
  BY NoCallIsSound DEF WorkerInit
<1>3. faults \in [crashes : 0..MaxCrashes, drops : 0..MaxDrops]
  BY WorkerAssumption DEF WorkerInit
<1> QED
  BY <1>1, <1>2, <1>3 DEF WorkerInit, WorkerInv

-----------------------------------------------------------------------------
(* Theorems *)

\* Executors, crashes and leaked heartbeats included, in every reachable state.
THEOREM WorkerInvariant == WorkerSpec => [](RepositoryInv /\ WorkerInv)
<1>1. WorkerInit => RepositoryInv /\ WorkerInv
  BY WorkerInitSound
<1>2. RepositoryInv /\ WorkerInv /\ [WorkerNext]_wvars => (RepositoryInv /\ WorkerInv)'
  BY WorkerNextSound, NextRepositoryInv
<1> QED
  BY <1>1, <1>2, PTL DEF WorkerSpec

\* DurableExecutor uses the repository through its contract only: to the
\* repository, every behaviour of any number of pollers and drivers is one that
\* RunRepository allows, so each theorem about RunRepository holds under them.
THEOREM WorkersUseTheContract == WorkerSpec => Spec
<1>1. WorkerInit => Init
  BY DEF WorkerInit
<1>2. RepositoryInv /\ WorkerInv /\ [WorkerNext]_wvars => [Next]_vars
  BY WorkerNextSound
<1> QED
  BY <1>1, <1>2, WorkerInvariant, PTL DEF WorkerSpec, Spec

\* work_once collects the running runs and claims in one of them later: however
\* the run ended in between, no attempt is started in it any more.
THEOREM LatePollsStartNothing == WorkerSpec => FinishedRunTakesNoNewWork
BY WorkersUseTheContract, FinishedRunsTakeNoNewWork, PTL

\* The variables of the executors keep their types: a batch holds issued claims
\* and a heartbeat renews one.
THEOREM WorkerTypesCorrect == WorkerSpec => []WorkerTypeOK
<1>1. RepositoryInv /\ WorkerInv => WorkerTypeOK
  <2> SUFFICES ASSUME RepositoryInv, WorkerInv PROVE WorkerTypeOK
    OBVIOUS
  <2>1. SoundEntries \subseteq Entry
    BY DEF SoundEntries
  <2>2. \A batch \in Seq(SoundEntries) : batch \in Seq(Entry)
    BY <2>1, SeqMonotonic
  <2>3. \A w \in Workers : worker[w] \in Call
    BY <2>2 DEF WorkerInv, SoundCalls, Call
  <2>4. worker \in [Workers -> Call]
    BY <2>3 DEF WorkerInv
  <2> QED
    BY <2>4 DEF WorkerTypeOK, WorkerInv, RepositoryInv, IInv
<1> QED
  BY <1>1, WorkerInvariant, PTL

\* execute_claim decides between retry, fallback and failure from its claim and
\* the repository checks the decision from the same claim, so complete_step
\* never answers InvalidCompletion, whatever happened to the step in between.
THEOREM OwnCompletionsMatch == WorkerSpec => []OwnCompletionMatches
<1>1. RepositoryInv /\ WorkerInv => OwnCompletionMatches
  BY BatchEntry, EntryFields, TaskResultsFit DEF OwnCompletionMatches
<1> QED
  BY <1>1, WorkerInvariant, PTL

-----------------------------------------------------------------------------
(* Successes follow their starts *)

\* The successes a step logs are those of attempts whose start is in the log.
NewSuccessesStarted ==
    \A r \in Runs : \A e \in NewEvents(r) :
        e.kind = "StepSucceeded" => Logged(r, [e EXCEPT !.kind = "StepStarted"])

LEMMA QuietSuccesses ==
    ASSUME RepositoryInv, UNCHANGED <<log, nextEventSequence>>
    PROVE  NewSuccessesStarted
BY QuietLogs DEF RepositoryInv, IInv, NewSuccessesStarted

LEMMA AppendedSuccesses ==
    ASSUME RepositoryInv, NEW r \in Runs, NEW e, AppendEvent(r, e),
           e.kind = "StepSucceeded" => Logged(r, [e EXCEPT !.kind = "StepStarted"])
    PROVE  NewSuccessesStarted
<1>1. \A q \in Runs : NewEvents(q) = IF q = r THEN {e} ELSE {}
  BY AppendedLogs DEF RepositoryInv, IInv
<1> QED
  BY <1>1 DEF NewSuccessesStarted

\* A batch commits a success only for a claim whose task ran.
LEMMA CommittedSuccesses ==
    ASSUME RepositoryInv, WorkerInv, NEW w \in Workers, Commit(w)
    PROVE  NewSuccessesStarted
<1>1. worker[w].batch \in Seq(SoundEntries) /\ worker[w].batch # <<>>
  BY CallFields DEF Commit
<1>2. Head(worker[w].batch) \in SoundEntries
  BY <1>1, HeadTailProperties
<1>3. PICK e \in SoundEntries : e = Head(worker[w].batch)
  BY <1>2
<1>4. e.stage = "Returned" /\ CompleteStep(e.claim, e.result)
  BY <1>3 DEF Commit
<1>5. /\ e.claim.run \in Runs /\ e.claim.step \in Steps
      /\ Logged(e.claim.run, StartedEvent(e.claim)) /\ e.result \in StepCompletion
  BY <1>4, EntryFields, TaskResultsFit
<1> DEFINE f == StepEvent(e.result.kind, e.claim.step, e.claim.attempt)
<1>6. AppendEvent(e.claim.run, f)
  BY <1>4 DEF CompleteStep
<1>7. f.kind = e.result.kind
  BY DEF StepEvent
<1>8. f.kind = "StepSucceeded" => [f EXCEPT !.kind = "StepStarted"] = StartedEvent(e.claim)
  BY <1>7 DEF StepEvent, StartedEvent
<1> HIDE DEF f
<1> QED
  BY <1>5, <1>6, <1>8, AppendedSuccesses

LEMMA StartedSuccesses ==
    ASSUME RepositoryInv, WorkerInv, NEW w \in Workers, NEW i \in DOMAIN worker[w].batch,
           Start(w, i)
    PROVE  NewSuccessesStarted
<1>1. PICK e \in SoundEntries : e = worker[w].batch[i]
  BY BatchEntry
<1>2. e.claim.run \in Runs
  BY EntryFields
<1> DEFINE f == StartedEvent(e.claim)
<1>3. AppendEvent(e.claim.run, f) \/ UNCHANGED vars
  BY <1>1 DEF Start, RecordEvent, StartedEvent
<1>4. f.kind # "StepSucceeded"
  BY DEF StartedEvent, StepEvent
<1> HIDE DEF f
<1> QED
  BY <1>2, <1>3, <1>4, AppendedSuccesses, QuietSuccesses DEF vars

\* Runs announce their beginning and end, a recovered attempt never succeeds.
LEMMA RunEventSuccesses ==
    ASSUME RepositoryInv, NEW r \in Runs, NEW kind \in {"RunStarted", "RunFinished"}, NEW st,
           AppendEvent(r, RunEvent(kind, st))
    PROVE  NewSuccessesStarted
<1> DEFINE f == RunEvent(kind, st)
<1>1. f.kind # "StepSucceeded"
  BY DEF RunEvent
<1> HIDE DEF f
<1>2. AppendEvent(r, f)
  BY DEF f
<1> QED
  BY <1>1, <1>2, AppendedSuccesses

LEMMA RecoveredSuccesses ==
    ASSUME RepositoryInv, RecoverExpired PROVE NewSuccessesStarted
<1>1. \A r \in Runs : NewEvents(r) = {RecoveryEvent(r, s) : s \in Expired(r)}
  BY RecoveredLogs DEF RepositoryInv
<1>2. \A r \in Runs : \A s \in Expired(r) : RecoveryEvent(r, s).kind # "StepSucceeded"
  BY DEF RecoveryEvent, StepEvent, RecoveryKind
<1> QED
  BY <1>1, <1>2 DEF NewSuccessesStarted

LEMMA FinishedSuccesses ==
    ASSUME RepositoryInv, WorkerInv, NEW w \in Workers, Finish(w)
    PROVE  NewSuccessesStarted
<1>1. worker[w].run \in Runs
  BY CallFields DEF KnowsRun, Finish, At
<1>2. PICK r \in Runs : r = worker[w].run
  BY <1>1
<1>3. \/ UNCHANGED <<log, nextEventSequence>>
      \/ \E pass \in BOOLEAN : AppendEvent(r, RunEvent("RunFinished", RunVerdict(r, pass)))
  BY <1>2 DEF Finish, FinishRun
<1> QED
  BY <1>3, QuietSuccesses, RunEventSuccesses

LEMMA NextSuccesses ==
    ASSUME RepositoryInv, WorkerInv, [WorkerNext]_wvars PROVE NewSuccessesStarted
<1>1. UNCHANGED vars => NewSuccessesStarted
  BY QuietSuccesses DEF vars
<1>2. ASSUME NEW w \in Workers, Proceed(w) PROVE NewSuccessesStarted
  <2>1. CASE \/ Begin(w) \/ SkipCandidate(w) \/ StopClaiming(w) \/ Join(w)
             \/ CommitRefused(w) \/ Committed(w) \/ Restart(w)
    <3>1. UNCHANGED vars
      BY <2>1 DEF Begin, SkipCandidate, StopClaiming, Join, CommitRefused, Committed, Restart
    <3> QED
      BY <1>1, <3>1
  <2>2. CASE Claim(w)
    <3>1. UNCHANGED <<log, nextEventSequence>>
      BY <2>2 DEF Claim, ClaimStep
    <3> QED
      BY <3>1, QuietSuccesses
  <2>3. CASE Recover(w)
    BY <1>1, <2>3, RecoveredSuccesses DEF Recover
  <2> QED
    BY <1>2, <2>1, <2>2, <2>3, StartedSuccesses, CommittedSuccesses, FinishedSuccesses
       DEF Proceed
<1>3. ASSUME NEW w \in Workers, Return(w) \/ Crash(w) \/ CallDies(w) PROVE NewSuccessesStarted
  <2>1. UNCHANGED vars
    BY <1>3 DEF Return, TaskReturns, Crash, CallDies
  <2> QED
    BY <1>1, <2>1
<1>4. ASSUME NEW c \in heartbeats, Heartbeat(c) PROVE NewSuccessesStarted
  <2>1. UNCHANGED <<log, nextEventSequence>>
    BY <1>4 DEF Heartbeat, RenewStep, vars
  <2> QED
    BY <2>1, QuietSuccesses
<1>5. ASSUME NEW r \in Runs, NEW s \in Steps, Clock(r, s) PROVE NewSuccessesStarted
  <2>1. UNCHANGED <<log, nextEventSequence>>
    BY <1>5 DEF Clock, LeaseTicksDown, BackoffElapses
  <2> QED
    BY <2>1, QuietSuccesses
<1>6. CASE Client
  <2>1. PICK r \in Runs : (\E p \in Payloads : CreateRun(r, NoKey, p)) \/ CancelRun(r)
    BY <1>6 DEF Client
  <2>2. \/ AppendEvent(r, RunEvent("RunStarted", "Running"))
        \/ AppendEvent(r, RunEvent("RunFinished", "Cancelled"))
    BY <2>1 DEF CreateRun, CancelRun
  <2> QED
    BY <2>2, RunEventSuccesses
<1>7. CASE UNCHANGED wvars
  BY <1>1, <1>7 DEF wvars
<1> QED
  BY <1>2, <1>3, <1>4, <1>5, <1>6, <1>7 DEF WorkerNext

\* Logs only grow, so a success keeps its start before it.
LEMMA SuccessesStayStarted ==
    ASSUME RepositoryInv, [Next]_vars, SuccessFollowsStart, NewSuccessesStarted
    PROVE  SuccessFollowsStart'
<1>1. IInv /\ IInv' /\ Tells
  BY NextRepositoryInv
<1> SUFFICES ASSUME NEW r \in Runs, NEW j \in DOMAIN log'[r],
                    log'[r][j].event.kind = "StepSucceeded"
             PROVE  \E i \in 1..(j - 1) :
                        log'[r][i].event = [log'[r][j].event EXCEPT !.kind = "StepStarted"]
  BY DEF SuccessFollowsStart
<1>2. KeepsLog(r) /\ j \in Nat /\ Len(log[r]) \in Nat /\ DOMAIN log[r] = 1..Len(log[r])
  BY <1>1, Positions DEF Tells, LogsGrow, IInv, TypeOK
<1>3. CASE j \in DOMAIN log[r] /\ log'[r][j] = log[r][j] /\ j <= Len(log[r])
  <2>1. PICK i \in 1..(j - 1) :
            log[r][i].event = [log[r][j].event EXCEPT !.kind = "StepStarted"]
    BY <1>3 DEF SuccessFollowsStart
  <2>2. i \in 1..Len(log[r])
    BY <1>2, <1>3
  <2>3. log'[r][i] = log[r][i]
    BY <1>2, <2>2 DEF KeepsLog
  <2> QED
    BY <1>3, <2>1, <2>3
<1>4. CASE j \in Fresh(r) /\ j > Len(log[r])
  <2>1. log'[r][j].event \in NewEvents(r)
    BY <1>4 DEF NewEvents
  <2>2. Logged(r, [log'[r][j].event EXCEPT !.kind = "StepStarted"])
    BY <2>1 DEF NewSuccessesStarted
  <2>3. PICK i \in DOMAIN log[r] :
            log[r][i].event = [log'[r][j].event EXCEPT !.kind = "StepStarted"]
    BY <2>2 DEF Logged
  <2>4. i \in 1..(j - 1) /\ log'[r][i] = log[r][i]
    BY <1>2, <1>4, <2>3 DEF KeepsLog
  <2> QED
    BY <2>3, <2>4
<1> QED
  BY <1>1, <1>2, <1>3, <1>4, Positions DEF IInv

\* In a run's log an attempt succeeds only after it was started, whichever
\* process reports it and whatever happened to the run between the claim, the
\* StepStarted event and the commit.
THEOREM SuccessesFollowStarts == WorkerSpec => []SuccessFollowsStart
<1>1. WorkerInit => SuccessFollowsStart
  BY DEF WorkerInit, Init, SuccessFollowsStart
<1>2. RepositoryInv /\ WorkerInv /\ SuccessFollowsStart /\ [WorkerNext]_wvars
          => SuccessFollowsStart'
  BY WorkerNextSound, NextSuccesses, SuccessesStayStarted
<1> QED
  BY <1>1, <1>2, WorkerInvariant, PTL DEF WorkerSpec

-----------------------------------------------------------------------------
(* SnapshotRestore: the inductive invariant *)

RisingTokens(h) == \A i, j \in 1..Len(h) : i < j => h[i].token < h[j].token
RisingLog(l)    == \A i, j \in 1..Len(l) : i < j => l[i].sequence < l[j].sequence

\* A log whose numbers rise, none above the last number given out.
LogRises(r) ==
    RisingLog(log[r]) /\ \A i \in 1..Len(log[r]) : log[r][i].sequence <= nextEventSequence

SoundRecord   == {rec \in StepRecord : LeaseIsOpenAttempt(rec) /\ RisingTokens(rec.history)}
SoundSnapshot ==
    [stored : {TRUE}, status : RunStatuses \ {"Absent"}, steps : [Steps -> SoundRecord],
     log : {l \in Seq(EventEnvelope) : RisingLog(l)}, gatesPassed : BOOLEAN,
     request : [key : Keys \cup {NoKey}, payload : Payloads]]

SnapshotsAreSound == snapshot \in [Runs -> SoundSnapshot \cup {NoSnapshot}]

\* A token of the present process is not above its counter.
GrantsAreCounted ==
    \A g \in grants : /\ g.process \in Nat /\ g.process <= process /\ g.token \in Nat
                      /\ g.process = process => g.token <= nextLeaseToken

SnapInv ==
    /\ IInv
    /\ \A r \in Runs, s \in Steps : TokensRise(steps[r][s])
    /\ \A r \in Runs : LogRises(r)
    /\ IndexNamesStoredRuns
    /\ SnapshotsAreSound
    /\ process \in Nat /\ GrantsAreCounted

LEMMA InitSnap ==
    ASSUME SnapInit PROVE SnapInv
<1>1. Init /\ process = 0 /\ grants = {} /\ snapshot = [r \in Runs |-> NoSnapshot]
  BY DEF SnapInit
<1>2. IInv
  BY <1>1, InitIInv
<1>3. \A r \in Runs, s \in Steps : TokensRise(steps[r][s])
  BY <1>1, InitToken DEF TokenInv
<1>4. \A r \in Runs : LogRises(r)
  <2>1. \A r \in Runs : Len(log[r]) = 0
    BY <1>1 DEF Init
  <2> QED
    BY <2>1 DEF LogRises, RisingLog
<1>5. IndexNamesStoredRuns
  BY <1>1, NullsAssumption DEF Init, IndexNamesStoredRuns, Runs, NoRun
<1>6. SnapshotsAreSound /\ process \in Nat /\ GrantsAreCounted
  BY <1>1 DEF SnapshotsAreSound, GrantsAreCounted
<1> QED
  BY <1>2, <1>3, <1>4, <1>5, <1>6 DEF SnapInv

-----------------------------------------------------------------------------
(* Operations of the repository *)

\* Every operation extends logs by numbers above all in use.
LEMMA NextLogsGrow ==
    ASSUME IInv, [Next]_vars PROVE LogsGrow
<1>1. TypeOK
  BY DEF IInv
<1>2. ASSUME NEW r \in Runs, NEW e, AppendEvent(r, e) PROVE LogsGrow
  BY <1>1, <1>2, AppendedLogs
<1>3. CASE UNCHANGED <<log, nextEventSequence>>
  BY <1>1, <1>3, QuietLogs
<1>4. CASE \E key \in Keys, p \in Payloads : AnswerDuplicate(key, p)
  BY <1>3, <1>4 DEF AnswerDuplicate
<1>5. CASE \E r \in Runs, key \in Keys \cup {NoKey}, p \in Payloads : CreateRun(r, key, p)
  BY <1>2, <1>5 DEF CreateRun
<1>6. CASE \E r \in Runs, s \in Steps, w \in Workers : ClaimStep(r, s, w)
  BY <1>3, <1>6 DEF ClaimStep
<1>7. CASE \E c \in claims : RenewStep(c)
  BY <1>3, <1>7 DEF RenewStep
<1>8. ASSUME NEW c \in claims, NEW k \in StepCompletion, CompleteStep(c, k) PROVE LogsGrow
  <2>1. c.run \in Runs
    BY <1>1, ClaimFields
  <2> QED
    BY <1>2, <1>8, <2>1 DEF CompleteStep
<1>9. CASE \E r \in Runs : \E e \in StepEventsOf(r) \cup RunEventsOf : RecordEvent(r, e)
  BY <1>2, <1>9 DEF RecordEvent
<1>10. CASE \E r \in Runs, pass \in BOOLEAN : FinishRun(r, pass)
  BY <1>2, <1>3, <1>10 DEF FinishRun
<1>11. CASE \E r \in Runs : CancelRun(r)
  BY <1>2, <1>11 DEF CancelRun
<1>12. CASE RecoverExpired
  BY <1>12, RecoveredLogs
<1>13. CASE \E r \in Runs, s \in Steps :
               LeaseTicksDown(r, s) \/ BackoffElapses(r, s) \/ ClockStepsBack(r, s)
  BY <1>3, <1>13 DEF LeaseTicksDown, BackoffElapses, ClockStepsBack
<1>14. CASE UNCHANGED vars
  BY <1>3, <1>14 DEF vars
<1> QED
  BY <1>4, <1>5, <1>6, <1>7, <1>8, <1>9, <1>10, <1>11, <1>12, <1>13, <1>14 DEF Next

LEMMA NextLogRises ==
    ASSUME IInv, [Next]_vars, NEW r \in Runs, LogRises(r) PROVE LogRises(r)'
<1> DEFINE m   == Len(log[r])
           n   == Len(log'[r])
           seq(i) == log[r][i].sequence
           new(i) == log'[r][i].sequence
<1>1. /\ nextEventSequence <= nextEventSequence' /\ m <= n
      /\ \A i \in 1..m : log'[r][i] = log[r][i]
      /\ FreshRise(r)
  BY NextLogsGrow DEF LogsGrow, KeepsLog
<1>2. /\ nextEventSequence \in Nat /\ nextEventSequence' \in Nat
      /\ log[r] \in Seq(EventEnvelope) /\ log'[r] \in Seq(EventEnvelope)
  BY NextIInv DEF IInv, TypeOK
<1>3. m \in Nat /\ n \in Nat /\ \A i \in 1..n : new(i) \in Nat
  <2>1. m \in Nat /\ n \in Nat /\ \A i \in 1..n : log'[r][i] \in EventEnvelope
    BY <1>2
  <2> QED
    BY <2>1 DEF EventEnvelope
<1>4. \A i \in 1..m : new(i) = seq(i)
  BY <1>1
<1>5. \A i \in 1..m : seq(i) <= nextEventSequence
  BY DEF LogRises
<1>6. \A i, j \in 1..m : i < j => seq(i) < seq(j)
  BY DEF LogRises, RisingLog
<1>7. \A i \in (m + 1)..n : nextEventSequence < new(i) /\ new(i) <= nextEventSequence'
  BY <1>1 DEF FreshRise, Fresh
<1>8. \A i, j \in (m + 1)..n : i < j => new(i) < new(j)
  BY <1>1 DEF FreshRise, Fresh
<1> HIDE DEF m, n, seq, new
<1>9. \A i \in 1..m : new(i) <= nextEventSequence
  BY <1>4, <1>5
<1>10. \A i \in 1..n : new(i) <= nextEventSequence'
  BY <1>1, <1>2, <1>3, <1>7, <1>9
<1>11. \A i, j \in 1..n : i < j => new(i) < new(j)
  <2> SUFFICES ASSUME NEW i \in 1..n, NEW j \in 1..n, i < j PROVE new(i) < new(j)
    OBVIOUS
  <2>1. CASE j \in 1..m
    BY <1>3, <1>4, <1>6, <2>1
  <2>2. CASE i \in 1..m /\ j \in (m + 1)..n
    BY <1>2, <1>3, <1>7, <1>9, <2>2
  <2>3. CASE i \in (m + 1)..n
    BY <1>3, <1>8, <2>3
  <2> QED
    BY <1>3, <2>1, <2>2, <2>3
<1> QED
  BY <1>10, <1>11 DEF LogRises, RisingLog, n, new

\* create_run indexes a key that named no run; nothing else moves the index,
\* makes a stored run absent or an absent one stored, or changes a request.
LEMMA NextIndexNamesRuns ==
    ASSUME IInv, IndexNamesStoredRuns, [Next]_vars PROVE IndexNamesStoredRuns'
<1> DEFINE Elsewhere == /\ UNCHANGED <<request, idempotency>>
                        /\ \A q \in Runs : status'[q] = "Absent" <=> status[q] = "Absent"
<1>1. Elsewhere => IndexNamesStoredRuns'
  BY DEF IndexNamesStoredRuns
<1>2. CASE \E key \in Keys, p \in Payloads : AnswerDuplicate(key, p)
  BY <1>1, <1>2 DEF AnswerDuplicate
<1>3. ASSUME NEW r \in Runs, NEW key \in Keys \cup {NoKey}, NEW p \in Payloads,
             CreateRun(r, key, p)
      PROVE  IndexNamesStoredRuns'
  <2>1. /\ status[r] = "Absent" /\ status'[r] = "Running"
        /\ \A q \in Runs \ {r} : status'[q] = status[q] /\ request'[q] = request[q]
        /\ request'[r].key = key
        /\ \A k \in Keys : idempotency'[k] = IF k = key THEN r ELSE idempotency[k]
        /\ key \in Keys => idempotency[key] = NoRun
    BY <1>3 DEF CreateRun, IInv, TypeOK
  <2>2. \A q \in Runs : q # NoRun
    BY DEF Runs, NoRun
  <2> QED
    BY <2>1, <2>2 DEF IndexNamesStoredRuns
<1>4. CASE \E r \in Runs, s \in Steps, w \in Workers : ClaimStep(r, s, w)
  BY <1>1, <1>4 DEF ClaimStep
<1>5. CASE \E c \in claims : RenewStep(c) \/ \E k \in StepCompletion : CompleteStep(c, k)
  BY <1>1, <1>5 DEF RenewStep, CompleteStep
<1>6. CASE \E r \in Runs : \E e \in StepEventsOf(r) \cup RunEventsOf : RecordEvent(r, e)
  BY <1>1, <1>6 DEF RecordEvent
<1>7. ASSUME NEW r \in Runs, NEW pass \in BOOLEAN, FinishRun(r, pass)
      PROVE  IndexNamesStoredRuns'
  <2>1. RunVerdict(r, pass) # "Absent" /\ status[r] # "Absent"
    BY <1>7 DEF FinishRun, RunVerdict
  <2> QED
    BY <1>1, <1>7, <2>1 DEF FinishRun, IInv, TypeOK
<1>8. CASE \E r \in Runs : CancelRun(r)
  BY <1>1, <1>8 DEF CancelRun, IInv, TypeOK
<1>9. CASE RecoverExpired
  BY <1>1, <1>9 DEF RecoverExpired
<1>10. CASE \E r \in Runs, s \in Steps :
               LeaseTicksDown(r, s) \/ BackoffElapses(r, s) \/ ClockStepsBack(r, s)
  BY <1>1, <1>10 DEF LeaseTicksDown, BackoffElapses, ClockStepsBack
<1>11. CASE UNCHANGED vars
  BY <1>1, <1>11 DEF vars
<1> QED
  BY <1>2, <1>3, <1>4, <1>5, <1>6, <1>7, <1>8, <1>9, <1>10, <1>11 DEF Next

LEMMA NextKeepsSound ==
    ASSUME SnapInv, [Next]_vars
    PROVE  /\ IInv'
           /\ (\A r \in Runs, s \in Steps : TokensRise(steps[r][s]))'
           /\ (\A r \in Runs : LogRises(r))'
           /\ IndexNamesStoredRuns'
<1>1. IInv'
  BY NextIInv DEF SnapInv
<1>2. \A r \in Runs, s \in Steps : TokensRise(steps[r][s])'
  BY NextChanges, GrantedRise, KeptRise DEF SnapInv
<1>3. \A r \in Runs : LogRises(r)'
  BY NextLogRises DEF SnapInv
<1>4. IndexNamesStoredRuns'
  BY NextIndexNamesRuns DEF SnapInv
<1> QED
  BY <1>1, <1>2, <1>3, <1>4

LEMMA OperateSnap ==
    ASSUME SnapInv, Operate PROVE SnapInv'
<1>1. Next /\ UNCHANGED <<nextLeaseToken, process, snapshot, grants>>
  BY DEF Operate
<1>2. SnapshotsAreSound' /\ process' \in Nat /\ GrantsAreCounted'
  BY <1>1 DEF SnapInv, SnapshotsAreSound, GrantsAreCounted
<1> QED
  BY <1>1, <1>2, NextKeepsSound DEF SnapInv

LEMMA GrantSnap ==
    ASSUME SnapInv, NEW r \in Runs, NEW s \in Steps, NEW w \in Workers, Grant(r, s, w)
    PROVE  SnapInv' /\ \A g \in grants : g.process = process => g.token < nextLeaseToken'
<1>1. /\ ClaimStep(r, s, w) /\ UNCHANGED <<process, snapshot>>
      /\ nextLeaseToken' = nextLeaseToken + 1
      /\ grants' = grants \cup {[process |-> process, token |-> nextLeaseToken']}
  BY DEF Grant, ClaimStep
<1>2. Next
  BY <1>1 DEF Next
<1>3. nextLeaseToken \in Nat /\ process \in Nat
  BY DEF SnapInv, IInv, TypeOK
<1>4. GrantsAreCounted'
  BY <1>1, <1>3 DEF SnapInv, GrantsAreCounted
<1>5. SnapshotsAreSound' /\ process' \in Nat
  BY <1>1, <1>3 DEF SnapInv, SnapshotsAreSound
<1>6. \A g \in grants : g.process = process => g.token < nextLeaseToken'
  BY <1>1, <1>3 DEF SnapInv, GrantsAreCounted
<1> QED
  BY <1>2, <1>4, <1>5, <1>6, NextKeepsSound DEF SnapInv

-----------------------------------------------------------------------------
(* Snapshots and processes *)

LEMMA SnapshotFields ==
    ASSUME SnapshotsAreSound, NEW r \in Runs, snapshot[r].stored
    PROVE  LET x == snapshot[r]
           IN  /\ x \in SoundSnapshot /\ x.status \in RunStatuses \ {"Absent"}
               /\ x.steps \in [Steps -> SoundRecord]
               /\ x.log \in Seq(EventEnvelope) /\ RisingLog(x.log)
               /\ x.gatesPassed \in BOOLEAN
               /\ x.request \in [key : Keys \cup {NoKey}, payload : Payloads]
<1>1. snapshot[r] \in SoundSnapshot \cup {NoSnapshot}
  BY DEF SnapshotsAreSound
<1>2. snapshot[r] # NoSnapshot
  BY DEF NoSnapshot
<1> QED
  BY <1>1, <1>2 DEF SoundSnapshot

\* What is loaded is as sound as the record it was taken of.
LEMMA LoadSnap ==
    ASSUME SnapInv, NEW r \in Runs, Load(r) PROVE SnapInv'
<1>1. /\ status[r] # "Absent" /\ UNCHANGED <<vars, process, grants>>
      /\ snapshot' = [snapshot EXCEPT ![r] = SnapshotOf(r)]
  BY DEF Load
<1>2. steps[r] \in [Steps -> SoundRecord]
  BY DEF SnapInv, IInv, TypeOK, LeaseMatchesOpenAttempt, TokensRise, SoundRecord, RisingTokens
<1>3. /\ status[r] \in RunStatuses \ {"Absent"} /\ log[r] \in Seq(EventEnvelope)
      /\ gatesPassed[r] \in BOOLEAN
      /\ request[r] \in [key : Keys \cup {NoKey}, payload : Payloads]
  BY <1>1 DEF SnapInv, IInv, TypeOK
<1>4. RisingLog(log[r])
  BY DEF SnapInv, LogRises
<1>5. SnapshotOf(r) \in SoundSnapshot
  BY <1>2, <1>3, <1>4 DEF SnapshotOf, SoundSnapshot
<1>6. SnapshotsAreSound'
  BY <1>1, <1>5 DEF SnapInv, SnapshotsAreSound
<1>7. IInv' /\ IndexNamesStoredRuns'
  BY <1>1 DEF SnapInv, vars, IInv, TypeOK, LeaseMatchesOpenAttempt, IndexNamesStoredRuns
<1>8. /\ \A q \in Runs, s \in Steps : TokensRise(steps[q][s])'
      /\ \A q \in Runs : LogRises(q)'
  BY <1>1 DEF SnapInv, vars, TokensRise, LogRises
<1>9. process' \in Nat /\ GrantsAreCounted'
  BY <1>1 DEF SnapInv, vars, GrantsAreCounted
<1> QED
  BY <1>6, <1>7, <1>8, <1>9 DEF SnapInv

\* A new process starts from an empty store; its grants are its own.
LEMMA RestartSnap ==
    ASSUME SnapInv, ReplaceProcess PROVE SnapInv'
<1>1. /\ process' = process + 1 /\ process \in Nat
      /\ \A r \in Runs : status'[r] = "Absent" /\ log'[r] = <<>>
      /\ \A k \in Keys : idempotency'[k] = NoRun
      /\ nextLeaseToken' = 0 /\ nextEventSequence' = 0
      /\ UNCHANGED <<claims, answered, snapshot, grants>>
  BY DEF ReplaceProcess, SnapInv
<1>2. steps' = [r \in Runs |-> [s \in Steps |-> NewStep(s)]]
  BY DEF ReplaceProcess
<1>3. \A s \in Steps : NewStep(s) \in StepRecord /\ LeaseIsOpenAttempt(NewStep(s))
  BY NewStepSound
<1>4. steps' \in [Runs -> [Steps -> StepRecord]] /\ LeaseMatchesOpenAttempt'
  BY <1>2, <1>3 DEF LeaseMatchesOpenAttempt
<1>5. /\ status' \in [Runs -> RunStatuses] /\ log' \in [Runs -> Seq(EventEnvelope)]
      /\ gatesPassed' \in [Runs -> BOOLEAN]
      /\ idempotency' \in [Keys -> Runs \cup {NoRun}]
      /\ nextLeaseToken' \in Nat /\ nextEventSequence' \in Nat
  BY DEF ReplaceProcess, RunStatuses
<1>6. request' \in [Runs -> [key : Keys \cup {NoKey}, payload : Payloads]]
  BY PayloadsAssumption DEF ReplaceProcess
<1>7. IInv'
  BY <1>1, <1>4, <1>5, <1>6 DEF SnapInv, IInv, TypeOK
<1>8. ASSUME NEW r \in Runs, NEW s \in Steps PROVE TokensRise(steps[r][s])'
  <2>1. steps'[r][s].history = <<>>
    BY <1>2 DEF NewStep
  <2> QED
    BY <2>1 DEF TokensRise
<1>9. \A r \in Runs : LogRises(r)'
  <2>1. \A r \in Runs : Len(log'[r]) = 0
    BY <1>1
  <2> QED
    BY <2>1 DEF LogRises, RisingLog
<1>10. IndexNamesStoredRuns'
  BY <1>1 DEF IndexNamesStoredRuns, Runs, NoRun
<1>11. SnapshotsAreSound' /\ process' \in Nat
  BY <1>1 DEF SnapInv, SnapshotsAreSound
<1>12. GrantsAreCounted'
  BY <1>1 DEF SnapInv, GrantsAreCounted
<1> QED
  BY <1>7, <1>8, <1>9, <1>10, <1>11, <1>12 DEF SnapInv

-----------------------------------------------------------------------------
(* Raising a counter to what a snapshot retains *)

\* An advanced counter is past what it was and past what is retained.
LEMMA AdvancedCovers ==
    ASSUME NEW counter \in Nat, NEW retained \in SUBSET Nat, IsFiniteSet(retained)
    PROVE  /\ Advanced(counter, retained) \in Nat
           /\ counter <= Advanced(counter, retained)
           /\ \A n \in retained : n <= Advanced(counter, retained)
<1>1. IsFiniteSet({counter} \cup retained)
  BY FS_Singleton, FS_Union
<1> QED
  BY <1>1, MaxExists DEF Advanced

LEMMA LeaseTokensAreNumbers ==
    ASSUME NEW x, x.steps \in [Steps -> SoundRecord]
    PROVE  /\ LeaseTokens(x) \in SUBSET Nat /\ IsFiniteSet(LeaseTokens(x))
           /\ \A s \in Steps : \A i \in 1..Len(x.steps[s].history) :
                  x.steps[s].history[i].token \in LeaseTokens(x)
<1> DEFINE h(s)    == x.steps[s].history
           Kept(s) == {a.token : a \in ToSet(h(s))}
           Of(s)   == {x.steps[s].lease.token} \cup Kept(s)
           All     == {Of(s) : s \in Steps}
<1>1. ASSUME NEW s \in Steps
      PROVE  /\ x.steps[s] \in StepRecord /\ h(s) \in Seq(Attempt) /\ Len(h(s)) \in Nat
             /\ DOMAIN h(s) = 1..Len(h(s)) /\ x.steps[s].lease.token \in Nat
  <2>1. x.steps[s] \in StepRecord
    BY DEF SoundRecord
  <2>2. h(s) \in Seq(Attempt) /\ x.steps[s].lease \in Lease \cup {NoLease}
    BY <2>1 DEF StepRecord
  <2> QED
    BY <2>1, <2>2 DEF Lease, NoLease
<1>2. ASSUME NEW s \in Steps
      PROVE  /\ Kept(s) = {h(s)[i].token : i \in 1..Len(h(s))}
             /\ \A i \in 1..Len(h(s)) : h(s)[i].token \in Nat
  <2>1. Kept(s) = {h(s)[i].token : i \in 1..Len(h(s))}
    BY <1>1 DEF ToSet
  <2> QED
    BY <1>1, <2>1, AttemptTokens
<1>3. ASSUME NEW s \in Steps PROVE Kept(s) \in SUBSET Nat /\ IsFiniteSet(Kept(s))
  <2> DEFINE f == [i \in 1..Len(h(s)) |-> h(s)[i].token]
  <2>1. f \in [1..Len(h(s)) -> Kept(s)] /\ \A t \in Kept(s) : \E i \in 1..Len(h(s)) : f[i] = t
    BY <1>2
  <2> HIDE DEF f
  <2>2. IsFiniteSet(Kept(s))
    BY <1>1, <2>1, ListedIsFinite
  <2> QED
    BY <1>2, <2>2
<1>4. ASSUME NEW s \in Steps PROVE Of(s) \in SUBSET Nat /\ IsFiniteSet(Of(s))
  BY <1>1, <1>3, FS_Singleton, FS_Union
<1>5. IsFiniteSet(All)
  <2> DEFINE f == [s \in 1..NumSteps |-> Of(s)]
  <2>1. f \in [1..NumSteps -> All] /\ \A t \in All : \E s \in 1..NumSteps : f[s] = t
    BY DEF Steps
  <2> HIDE DEF f, All
  <2> QED
    BY <2>1, CountsAssumption, ListedIsFinite
<1>6. IsFiniteSet(UNION All) /\ UNION All \in SUBSET Nat
  BY <1>4, <1>5, FS_UNION
<1>7. LeaseTokens(x) = {0} \cup UNION All
  BY DEF LeaseTokens
<1>8. ASSUME NEW s \in Steps, NEW i \in 1..Len(h(s)) PROVE h(s)[i].token \in UNION All
  <2>1. h(s)[i].token \in Kept(s)
    BY <1>2
  <2>2. Of(s) \in All /\ Kept(s) \subseteq Of(s)
    OBVIOUS
  <2> QED
    BY <2>1, <2>2
<1>9. LeaseTokens(x) \in SUBSET Nat /\ IsFiniteSet(LeaseTokens(x))
  BY <1>6, <1>7, NumbersWithZero
<1> HIDE DEF All
<1> QED
  BY <1>7, <1>8, <1>9

LEMMA SequencesAreNumbers ==
    ASSUME NEW x, x.log \in Seq(EventEnvelope)
    PROVE  /\ Sequences(x) \in SUBSET Nat /\ IsFiniteSet(Sequences(x))
           /\ \A i \in 1..Len(x.log) : x.log[i].sequence \in Sequences(x)
<1> DEFINE n == Len(x.log)
           T == {x.log[i].sequence : i \in 1..n}
           f == [i \in 1..n |-> x.log[i].sequence]
<1>1. n \in Nat /\ DOMAIN x.log = 1..n /\ \A i \in 1..n : x.log[i] \in EventEnvelope
  OBVIOUS
<1>2. T \in SUBSET Nat
  BY <1>1 DEF EventEnvelope
<1>3. f \in [1..n -> T] /\ \A t \in T : \E i \in 1..n : f[i] = t
  OBVIOUS
<1>4. Sequences(x) = {0} \cup T
  BY <1>1 DEF Sequences, ToSet
<1> HIDE DEF f
<1>5. IsFiniteSet(T)
  BY <1>1, <1>3, ListedIsFinite
<1>6. Sequences(x) \in SUBSET Nat /\ IsFiniteSet(Sequences(x))
  BY <1>2, <1>4, <1>5, NumbersWithZero
<1> QED
  BY <1>4, <1>6

-----------------------------------------------------------------------------
(* Putting a snapshot back *)

\* The key of the record that is put back names its run, the key of the record
\* it replaces names none, and no other run's key moves.
LEMMA SaveIndexNamesRuns ==
    ASSUME SnapInv, NEW r \in Runs, Save(r) PROVE IndexNamesStoredRuns'
<1> DEFINE x == snapshot[r]
<1>1. /\ x.stored /\ (x.request.key \in Keys => idempotency[x.request.key] \in {NoRun, r})
      /\ idempotency' = Reindexed(r, x)
      /\ status' = [status EXCEPT ![r] = x.status]
      /\ request' = [request EXCEPT ![r] = x.request]
  BY DEF Save
<1>2. x.status # "Absent" /\ r # NoRun /\ \A q \in Runs : q # NoRun
  BY <1>1, SnapshotFields DEF SnapInv, Runs, NoRun
<1> HIDE DEF x
<1>3. /\ status'[r] = x.status /\ request'[r] = x.request
      /\ \A q \in Runs \ {r} : status'[q] = status[q] /\ request'[q] = request[q]
  BY <1>1 DEF SnapInv, IInv, TypeOK
<1>4. \A k \in Keys :
          idempotency'[k] = IF k = x.request.key THEN r
                            ELSE IF status[r] # "Absent" /\ request[r].key = k THEN NoRun
                            ELSE idempotency[k]
  BY <1>1 DEF Reindexed
<1>5. \A k \in Keys, q \in Runs :
          idempotency[k] = q <=> status[q] # "Absent" /\ request[q].key = k
  BY DEF SnapInv, IndexNamesStoredRuns
<1>6. ASSUME NEW k \in Keys, NEW q \in Runs
      PROVE  idempotency'[k] = q <=> status'[q] # "Absent" /\ request'[q].key = k
  <2>1. CASE q = r
    BY <1>2, <1>3, <1>4, <1>5, <2>1
  <2>2. CASE q # r /\ k = x.request.key
    <3>1. idempotency'[k] # q /\ idempotency[k] # q
      BY <1>1, <1>2, <1>4, <2>2
    <3> QED
      BY <1>3, <1>5, <2>2, <3>1
  <2>3. CASE q # r /\ k # x.request.key
    <3>1. idempotency'[k] = q <=> idempotency[k] = q
      BY <1>2, <1>4, <1>5, <2>3
    <3> QED
      BY <1>3, <1>5, <2>3, <3>1
  <2> QED
    BY <2>1, <2>2, <2>3
<1> QED
  BY <1>6 DEF IndexNamesStoredRuns

LEMMA SaveSnap ==
    ASSUME SnapInv, NEW r \in Runs, Save(r) PROVE SnapInv'
<1> DEFINE x == snapshot[r]
<1>1. /\ x.stored
      /\ idempotency' = Reindexed(r, x)
      /\ nextLeaseToken' = Advanced(nextLeaseToken, LeaseTokens(x))
      /\ nextEventSequence' = Advanced(nextEventSequence, Sequences(x))
      /\ status' = [status EXCEPT ![r] = x.status]
      /\ steps' = [steps EXCEPT ![r] = x.steps]
      /\ log' = [log EXCEPT ![r] = x.log]
      /\ gatesPassed' = [gatesPassed EXCEPT ![r] = x.gatesPassed]
      /\ request' = [request EXCEPT ![r] = x.request]
      /\ UNCHANGED <<claims, answered, process, snapshot, grants>>
  BY DEF Save
<1>2. /\ x.status \in RunStatuses \ {"Absent"} /\ x.steps \in [Steps -> SoundRecord]
      /\ x.log \in Seq(EventEnvelope) /\ RisingLog(x.log) /\ x.gatesPassed \in BOOLEAN
      /\ x.request \in [key : Keys \cup {NoKey}, payload : Payloads]
  BY <1>1, SnapshotFields DEF SnapInv
<1>3. TypeOK /\ LeaseMatchesOpenAttempt /\ nextLeaseToken \in Nat /\ nextEventSequence \in Nat
  BY DEF SnapInv, IInv, TypeOK
<1> HIDE DEF x
<1>4. /\ nextLeaseToken' \in Nat /\ nextLeaseToken <= nextLeaseToken'
      /\ \A s \in Steps : \A i \in 1..Len(x.steps[s].history) :
             x.steps[s].history[i].token <= nextLeaseToken'
  BY <1>1, <1>2, <1>3, LeaseTokensAreNumbers, AdvancedCovers
<1>5. /\ nextEventSequence' \in Nat /\ nextEventSequence <= nextEventSequence'
      /\ \A i \in 1..Len(x.log) : x.log[i].sequence <= nextEventSequence'
  BY <1>1, <1>2, <1>3, SequencesAreNumbers, AdvancedCovers
<1>6. \A s \in Steps : /\ x.steps[s] \in StepRecord /\ LeaseIsOpenAttempt(x.steps[s])
                       /\ RisingTokens(x.steps[s].history)
  BY <1>2 DEF SoundRecord
<1>7. /\ steps'[r] = x.steps /\ log'[r] = x.log
      /\ \A q \in Runs \ {r} : steps'[q] = steps[q] /\ log'[q] = log[q]
  BY <1>1, <1>3 DEF TypeOK
<1>8. steps' \in [Runs -> [Steps -> StepRecord]] /\ LeaseMatchesOpenAttempt'
  <2>1. x.steps \in [Steps -> StepRecord]
    BY <1>2 DEF SoundRecord
  <2>2. steps' \in [Runs -> [Steps -> StepRecord]]
    BY <1>1, <1>3, <2>1 DEF TypeOK
  <2>3. LeaseMatchesOpenAttempt'
    BY <1>3, <1>6, <1>7 DEF LeaseMatchesOpenAttempt
  <2> QED
    BY <2>2, <2>3
<1>9. /\ status' \in [Runs -> RunStatuses] /\ log' \in [Runs -> Seq(EventEnvelope)]
      /\ gatesPassed' \in [Runs -> BOOLEAN]
      /\ request' \in [Runs -> [key : Keys \cup {NoKey}, payload : Payloads]]
  BY <1>1, <1>2, <1>3 DEF TypeOK
<1>10. idempotency' \in [Keys -> Runs \cup {NoRun}]
  BY <1>1, <1>3 DEF TypeOK, Reindexed
<1>11. IInv'
  BY <1>1, <1>3, <1>4, <1>5, <1>8, <1>9, <1>10 DEF IInv, TypeOK
<1>12. ASSUME NEW q \in Runs, NEW s \in Steps PROVE TokensRise(steps[q][s])'
  <2>1. CASE q = r
    BY <1>4, <1>6, <1>7, <2>1 DEF TokensRise, RisingTokens
  <2>2. CASE q # r
    <3>1. /\ steps[q][s] \in StepRecord /\ TokensRise(steps[q][s])
          /\ \A i \in 1..Len(steps[q][s].history) : steps[q][s].history[i].token \in Nat
      BY <1>3, AttemptTokens DEF SnapInv, TypeOK
    <3>2. steps'[q][s] = steps[q][s]
      BY <1>7, <2>2
    <3>3. \A n \in Nat : n <= nextLeaseToken => n <= nextLeaseToken'
      BY <1>3, <1>4
    <3> QED
      BY <3>1, <3>2, <3>3 DEF TokensRise
  <2> QED
    BY <2>1, <2>2
<1>13. ASSUME NEW q \in Runs PROVE LogRises(q)'
  <2>1. CASE q = r
    BY <1>2, <1>5, <1>7, <2>1 DEF LogRises, RisingLog
  <2>2. CASE q # r
    <3>1. LogRises(q) /\ \A i \in 1..Len(log[q]) : log[q][i] \in EventEnvelope
      BY <1>3 DEF SnapInv, TypeOK
    <3>2. \A i \in 1..Len(log[q]) : log[q][i].sequence \in Nat
      BY <3>1 DEF EventEnvelope
    <3> QED
      BY <1>3, <1>5, <1>7, <2>2, <3>1, <3>2 DEF LogRises, RisingLog
  <2> QED
    BY <2>1, <2>2
<1>14. SnapshotsAreSound' /\ process' \in Nat
  BY <1>1 DEF SnapInv, SnapshotsAreSound
<1>15. GrantsAreCounted'
  BY <1>1, <1>3, <1>4 DEF SnapInv, GrantsAreCounted
<1> QED
  BY <1>11, <1>12, <1>13, <1>14, <1>15, SaveIndexNamesRuns DEF SnapInv

-----------------------------------------------------------------------------
(* Theorems *)

LEMMA SnapNextInv ==
    ASSUME SnapInv, [SnapNext]_snapVars PROVE SnapInv'
<1>1. CASE Operate
  BY <1>1, OperateSnap
<1>2. CASE \E r \in Runs, s \in Steps, w \in Workers : Grant(r, s, w)
  BY <1>2, GrantSnap
<1>3. CASE \E r \in Runs : Load(r) \/ Save(r)
  BY <1>3, LoadSnap, SaveSnap
<1>4. CASE ReplaceProcess
  BY <1>4, RestartSnap
<1>5. CASE UNCHANGED snapVars
  <2>1. UNCHANGED <<process, snapshot, grants>> /\ [Next]_vars /\ UNCHANGED nextLeaseToken
    BY <1>5 DEF snapVars, vars
  <2>2. SnapshotsAreSound' /\ process' \in Nat /\ GrantsAreCounted'
    BY <2>1 DEF SnapInv, SnapshotsAreSound, GrantsAreCounted
  <2> QED
    BY <2>1, <2>2, NextKeepsSound DEF SnapInv
<1> QED
  BY <1>1, <1>2, <1>3, <1>4, <1>5 DEF SnapNext

\* Snapshots, counters and records fit each other in every reachable state.
THEOREM SnapshotInvariant == SnapSpec => []SnapInv
<1>1. SnapInit => SnapInv
  BY InitSnap
<1>2. SnapInv /\ [SnapNext]_snapVars => SnapInv'
  BY SnapNextInv
<1> QED
  BY <1>1, <1>2, PTL DEF SnapSpec

\* "Restoring a snapshot also restores its idempotency index": whatever save
\* puts back over whatever, the index names exactly the stored runs' own keys.
THEOREM IndexStaysExact == SnapSpec => []IndexNamesStoredRuns
<1>1. SnapInv => IndexNamesStoredRuns
  BY DEF SnapInv
<1> QED
  BY <1>1, SnapshotInvariant, PTL

\* "... and advances the lease/event counters past retained history": no later
\* attempt reuses a token its step's history retains, nor a later event a
\* sequence number of its log.
THEOREM HistoriesKeepRising == SnapSpec => []HistoriesRise
<1>1. SnapInv => HistoriesRise
  <2> SUFFICES ASSUME SnapInv PROVE HistoriesRise
    OBVIOUS
  <2>1. \A r \in Runs : log[r] \in Seq(EventEnvelope) /\ DOMAIN log[r] = 1..Len(log[r])
    BY DEF SnapInv, IInv, TypeOK
  <2>2. \A r \in Runs, s \in Steps :
            /\ steps[r][s].history \in Seq(Attempt)
            /\ DOMAIN steps[r][s].history = 1..Len(steps[r][s].history)
    BY DEF SnapInv, IInv, TypeOK, StepRecord
  <2> QED
    BY <2>1, <2>2 DEF SnapInv, HistoriesRise, LogRises, RisingLog, TokensRise
<1> QED
  BY <1>1, SnapshotInvariant, PTL

\* While a process lasts its store grants no token twice, although snapshots
\* put back over newer records erase the histories and leases that show them.
THEOREM TokensAreFresh == SnapSpec => TokensAreGrantedOnce
<1>1. SnapInv /\ [SnapNext]_snapVars =>
          [\A r \in Runs, s \in Steps, w \in Workers : Grant(r, s, w) =>
              \A g \in grants : g.process = process => g.token < nextLeaseToken']_snapVars
  BY GrantSnap
<1> QED
  BY <1>1, SnapshotInvariant, PTL DEF SnapSpec, TokensAreGrantedOnce
=============================================================================
