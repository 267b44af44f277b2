--------------------------- MODULE RunRecordProofs ---------------------------
(***************************************************************************)
(* Lemmas about the operators of RunRecords, for every workflow and every  *)
(* step record, and about the sets and sequences of numbers that both      *)
(* repository adapters count with.                                         *)
(***************************************************************************)
EXTENDS RunRecords, SequenceTheorems, FiniteSetTheorems, TLAPS

-----------------------------------------------------------------------------
(* What the operations on one step record return. *)

\* Closing the last attempt rewrites its status and nothing else.
LEMMA CloseAttemptHistory ==
    ASSUME NEW rec \in StepRecord, NEW st \in StepStatuses \ {"Absent"}
    PROVE  LET n   == Len(rec.history)
               new == CloseAttempt(rec, st).history
           IN  /\ new \in Seq(Attempt) /\ Len(new) = n
               /\ \A i \in 1..n : new[i] = IF i = n THEN [rec.history[i] EXCEPT !.status = st]
                                                    ELSE rec.history[i]
<1> DEFINE h   == rec.history
           n   == Len(h)
           new == [h EXCEPT ![n].status = st]
<1>1. h \in Seq(Attempt) /\ n \in Nat /\ DOMAIN h = 1..n
  BY DEF StepRecord
<1>2. CloseAttempt(rec, st).history = new
  BY DEF CloseAttempt, StepRecord
<1>3. CASE n = 0
  <2>1. new = h
    BY <1>1, <1>3
  <2> QED
    BY <1>1, <1>2, <1>3, <2>1
<1>4. CASE n # 0
  <2> DEFINE e == [h[n] EXCEPT !.status = st]
  <2>1. n \in 1..Len(h) /\ h[n] \in Attempt
    BY <1>1, <1>4
  <2>2. e \in Attempt
    BY <2>1 DEF Attempt
  <2>3. new = [h EXCEPT ![n] = e]
    BY <1>1
  <2> HIDE DEF e, n
  <2>4. /\ new \in Seq(Attempt) /\ Len(new) = Len(h)
        /\ \A j \in 1..Len(h) : new[j] = IF j = n THEN e ELSE h[j]
    BY <1>1, <2>1, <2>2, <2>3, ExceptSeq
  <2> QED
    BY <1>2, <2>4 DEF e, n
<1> QED
  BY <1>1, <1>3, <1>4

\* Closing the last attempt keeps the record's other fields and its type.
LEMMA CloseAttemptType ==
    ASSUME NEW rec \in StepRecord, NEW st \in StepStatuses \ {"Absent"}
    PROVE  /\ CloseAttempt(rec, st) \in StepRecord
           /\ CloseAttempt(rec, st) =
                  [rec EXCEPT !.history = CloseAttempt(rec, st).history]
<1>1. CloseAttempt(rec, st).history \in Seq(Attempt)
  BY CloseAttemptHistory
<1> QED
  BY <1>1 DEF CloseAttempt, StepRecord

\* Ending an attempt yields a well-typed, unleased record with a closed history.
LEMMA EndAttemptType ==
    ASSUME NEW s \in Steps, NEW rec \in StepRecord, NEW kind \in CompletionKinds,
           NEW output \in Outputs \cup {NoOutput}, NEW backoff \in Backoff,
           kind = "StepFallbackSelected" => Fallback[s] # NoTask
    PROVE  LET new == EndAttempt(s, rec, kind, output, backoff)
           IN  /\ new \in StepRecord
               /\ new.status = Announces[kind] /\ new.status \in {"Retrying", "Succeeded", "Failed"}
               /\ new.lease = NoLease /\ new.attempts = rec.attempts
               /\ new.history = CloseAttempt(rec, new.status).history
<1> DEFINE falling == kind = "StepFallbackSelected"
           st  == Announces[kind]
           mid == [rec EXCEPT !.status       = st,
                              !.output       = output,
                              !.fallbackUsed = @ \/ falling,
                              !.task         = IF falling THEN Fallback[s] ELSE @,
                              !.lease        = NoLease,
                              !.backoff      = backoff]
           new == CloseAttempt(mid, st)
<1>1. st \in {"Retrying", "Succeeded", "Failed"} /\ st \in StepStatuses \ {"Absent"}
  BY DEF CompletionKinds, StepEventKinds, Announces, StepStatuses
<1>2. falling => Fallback[s] \in Tasks
  BY WorkflowAssumption
<1>3. mid \in StepRecord /\ mid.history = rec.history /\ mid.attempts = rec.attempts
      /\ mid.status = st /\ mid.lease = NoLease
  BY <1>1, <1>2 DEF StepRecord
<1>4. EndAttempt(s, rec, kind, output, backoff) = new
  BY DEF EndAttempt
<1> HIDE DEF mid, st
<1>5. new \in StepRecord /\ new = [mid EXCEPT !.history = CloseAttempt(mid, st).history]
  BY <1>1, <1>3, CloseAttemptType
<1>6. new.status = st /\ new.lease = NoLease /\ new.attempts = rec.attempts
  BY <1>3, <1>5 DEF StepRecord
<1>7. CloseAttempt(mid, st).history = CloseAttempt(rec, st).history
  BY <1>3 DEF CloseAttempt, StepRecord
<1> QED
  BY <1>1, <1>4, <1>5, <1>6, <1>7 DEF st

\* Closing the open attempt of a leased record leaves no open attempt.
LEMMA CloseAttemptCloses ==
    ASSUME NEW rec \in StepRecord, LeaseIsOpenAttempt(rec),
           NEW st \in StepStatuses \ {"Absent", "Running"},
           NEW i \in 1..Len(rec.history)
    PROVE  CloseAttempt(rec, st).history[i].status # "Running"
<1> DEFINE n == Len(rec.history)
<1>1. n \in Nat /\ rec.history[i] \in Attempt
  BY DEF StepRecord
<1>2. CloseAttempt(rec, st).history[i] =
          IF i = n THEN [rec.history[i] EXCEPT !.status = st] ELSE rec.history[i]
  BY CloseAttemptHistory
<1>3. i # n => rec.history[i].status # "Running"
  BY DEF LeaseIsOpenAttempt
<1> QED
  BY <1>1, <1>2, <1>3 DEF Attempt

\* An attempt that complete_step or recover_expired_step ends leaves no lease
\* and no open attempt behind.
LEMMA EndAttemptFenced ==
    ASSUME NEW s \in Steps, NEW rec \in StepRecord, NEW kind \in CompletionKinds,
           NEW output \in Outputs \cup {NoOutput}, NEW backoff \in Backoff,
           kind = "StepFallbackSelected" => Fallback[s] # NoTask,
           LeaseIsOpenAttempt(rec)
    PROVE  LeaseIsOpenAttempt(EndAttempt(s, rec, kind, output, backoff))
<1> DEFINE new == EndAttempt(s, rec, kind, output, backoff)
<1>1. /\ new \in StepRecord
      /\ new.status \in {"Retrying", "Succeeded", "Failed"} /\ new.lease = NoLease
      /\ new.attempts = rec.attempts /\ new.history = CloseAttempt(rec, new.status).history
  BY EndAttemptType
<1>2. new.status \in StepStatuses \ {"Absent", "Running"}
  BY <1>1 DEF StepStatuses
<1> HIDE DEF new
<1>3. Len(new.history) = Len(rec.history)
  BY <1>1, <1>2, CloseAttemptHistory
<1>4. \A i \in 1..Len(new.history) : new.history[i].status # "Running"
  BY <1>1, <1>2, <1>3, CloseAttemptCloses
<1>5. LeaseIsOpenAttempt(new)
  BY <1>1, <1>3, <1>4 DEF LeaseIsOpenAttempt
<1> QED
  BY <1>5 DEF new

\* Starting an attempt appends the one open attempt, with the lease's token.
LEMMA StartAttemptFenced ==
    ASSUME NEW rec \in StepRecord, NEW w \in Workers, NEW token \in Nat \ {0},
           LeaseIsOpenAttempt(rec), rec.status # "Running"
    PROVE  LET new == StartAttempt(rec, w, token)
           IN  /\ new \in StepRecord /\ LeaseIsOpenAttempt(new)
               /\ new.attempts = rec.attempts + 1 /\ new.status = "Running"
<1> DEFINE h   == rec.history
           n   == Len(h)
           e   == [number |-> rec.attempts + 1, worker |-> w, token |-> token,
                   status |-> "Running"]
           new == StartAttempt(rec, w, token)
           lease == [worker |-> w, token |-> token, left |-> LeaseTicks]
           wait  == IF ClaimClearsBackoff THEN "None" ELSE rec.backoff
<1>1. rec.attempts \in Nat /\ h \in Seq(Attempt) /\ n \in Nat
  BY DEF StepRecord
<1>2. e \in Attempt
  BY <1>1 DEF Attempt, StepStatuses
<1>3. lease \in Lease /\ lease # NoLease
  BY CountsAssumption, NullsAssumption DEF Lease, NoLease
<1>4. /\ Append(h, e) \in Seq(Attempt) /\ Len(Append(h, e)) = n + 1
      /\ Append(h, e)[n + 1] = e
      /\ \A i \in 1..n : Append(h, e)[i] = h[i]
  BY <1>1, <1>2
<1>5. new = [rec EXCEPT !.status = "Running", !.attempts = rec.attempts + 1,
                        !.lease = lease, !.backoff = wait, !.history = Append(h, e)]
  BY DEF StartAttempt
<1>6. new \in StepRecord
  <2>1. rec.attempts + 1 \in Nat /\ "Running" \in StepStatuses /\ wait \in Backoff
    BY <1>1 DEF StepStatuses, StepRecord, Backoff
  <2> HIDE DEF e, lease, new, wait
  <2> QED
    BY <1>3, <1>4, <1>5, <2>1 DEF StepRecord
<1>7. new.status = "Running" /\ new.attempts = rec.attempts + 1 /\ new.lease = lease
      /\ new.history = Append(h, e)
  <2> HIDE DEF lease, wait, e
  <2> QED BY <1>5 DEF StepRecord
<1>8. \A i \in 1..n : h[i].status # "Running"
  BY DEF LeaseIsOpenAttempt
<1>9. n = rec.attempts
  BY DEF LeaseIsOpenAttempt
<1>10. LeaseIsOpenAttempt(new)
  <2> HIDE DEF new, h, n
  <2>1. Len(new.history) = n + 1 /\ new.history[n + 1] = e
        /\ \A i \in 1..(n + 1) : new.history[i].status = "Running" => i = n + 1
    BY <1>1, <1>4, <1>7, <1>8
  <2> QED
    BY <1>1, <1>3, <1>7, <1>9, <2>1 DEF LeaseIsOpenAttempt
<1> QED
  BY <1>6, <1>7, <1>10

\* Cancelling leaves no lease and no open attempt.
LEMMA CancelStepFenced ==
    ASSUME NEW rec \in StepRecord, LeaseIsOpenAttempt(rec)
    PROVE  LET new == CancelStep(rec)
           IN  /\ new \in StepRecord /\ LeaseIsOpenAttempt(new)
               /\ new.attempts = rec.attempts
               /\ rec.status \in {"Absent", "Succeeded", "Failed"} => new = rec
               /\ rec.status \notin {"Absent", "Succeeded", "Failed"} =>
                      new.status = "Cancelled"
<1>1. CASE rec.status \in {"Absent", "Succeeded", "Failed"}
  BY <1>1 DEF CancelStep
<1>2. CASE rec.status \notin {"Absent", "Succeeded", "Failed"}
  <2> DEFINE closed == IF Last(rec.history).status = "Running"
                       THEN CloseAttempt(rec, "Cancelled") ELSE rec
             new    == [closed EXCEPT !.status = "Cancelled", !.lease = NoLease]
             n      == Len(rec.history)
  <2>1. CancelStep(rec) = new
    BY <1>2 DEF CancelStep
  <2>2. "Cancelled" \in StepStatuses \ {"Absent", "Running"}
    BY DEF StepStatuses
  <2>3. closed \in StepRecord /\ closed.attempts = rec.attempts
        /\ Len(closed.history) = n
    BY <2>2, CloseAttemptType, CloseAttemptHistory DEF StepRecord
  <2>4. \A i \in 1..n : closed.history[i].status # "Running"
    <3>1. CASE Last(rec.history).status = "Running"
      BY <2>2, <3>1, CloseAttemptCloses
    <3>2. CASE Last(rec.history).status # "Running"
      BY <3>2 DEF LeaseIsOpenAttempt, Last
    <3> QED
      BY <3>1, <3>2
  <2> HIDE DEF closed
  <2>5. new \in StepRecord /\ new.status = "Cancelled" /\ new.lease = NoLease
        /\ new.attempts = rec.attempts /\ new.history = closed.history
    BY <2>3 DEF StepRecord, StepStatuses
  <2> HIDE DEF new
  <2>6. LeaseIsOpenAttempt(new)
    BY <2>3, <2>4, <2>5 DEF LeaseIsOpenAttempt
  <2> QED
    BY <1>2, <2>1, <2>5, <2>6
<1> QED
  BY <1>1, <1>2
-----------------------------------------------------------------------------
(* recover_expired visits the expired steps of a run in workflow order. *)

\* A function on 1..n is a sequence.
LEMMA FunctionIsSeq ==
    ASSUME NEW S, NEW n \in Nat, NEW f \in [1..n -> S]
    PROVE  f \in Seq(S)
OBVIOUS

\* The ranks of the steps of a set are its positions: the rank of a step is
\* injective into as many ranks as there are steps.
LEMMA StepRanks ==
    ASSUME NEW S \in SUBSET Steps
    PROVE  /\ Cardinality(S) \in Nat
           /\ \A s \in S : /\ Cardinality({t \in S : t < s}) \in Nat
                          /\ Cardinality({t \in S : t < s}) < Cardinality(S)
           /\ \A s, t \in S :
                  Cardinality({u \in S : u < s}) = Cardinality({u \in S : u < t}) => s = t
           /\ \A i \in 1..Cardinality(S) : \E s \in S : Cardinality({t \in S : t < s}) = i - 1
<1> DEFINE below(s) == {t \in S : t < s}
           n     == Cardinality(S)
           Ranks == 0..(n - 1)
           rank  == [s \in S |-> Cardinality(below(s))]
<1>1. S \subseteq Nat /\ IsFiniteSet(S) /\ n \in Nat
  <2>1. Steps \subseteq Nat /\ IsFiniteSet(Steps)
    BY CountsAssumption, FS_Interval DEF Steps
  <2>2. IsFiniteSet(S)
    BY <2>1, FS_Subset
  <2> QED
    BY <2>1, <2>2, FS_CardinalityType
<1>2. \A s \in S : IsFiniteSet(below(s)) /\ Cardinality(below(s)) \in Nat
  BY <1>1, FS_Subset, FS_CardinalityType
<1>3. \A s \in S : Cardinality(below(s)) < n
  <2> SUFFICES ASSUME NEW s \in S PROVE Cardinality(below(s)) < n
    OBVIOUS
  <2>1. below(s) \in SUBSET S /\ s \notin below(s)
    BY <1>1
  <2>2. Cardinality(below(s)) <= n /\ (n = Cardinality(below(s)) => S = below(s))
    BY <1>1, <2>1, FS_Subset
  <2> QED
    BY <1>1, <1>2, <2>1, <2>2
<1>4. \A s, t \in S : s < t => Cardinality(below(s)) < Cardinality(below(t))
  <2> SUFFICES ASSUME NEW s \in S, NEW t \in S, s < t
               PROVE  Cardinality(below(s)) < Cardinality(below(t))
    OBVIOUS
  <2>1. \A u \in S : u < s => u < t
    BY <1>1
  <2>2. below(s) \subseteq below(t)
    BY <2>1
  <2>3. ~(s < s)
    BY <1>1
  <2>4. s \in below(t) /\ s \notin below(s)
    BY <2>3
  <2>5. /\ Cardinality(below(s)) <= Cardinality(below(t))
        /\ Cardinality(below(t)) = Cardinality(below(s)) => below(t) = below(s)
    BY <1>2, <2>2, FS_Subset
  <2> QED
    BY <1>2, <2>4, <2>5
<1>5. rank \in Injection(S, Ranks)
  <2>1. rank \in [S -> Ranks]
    BY <1>1, <1>2, <1>3
  <2>2. \A s, t \in S : rank[s] = rank[t] => s = t
    <3> SUFFICES ASSUME NEW s \in S, NEW t \in S, rank[s] = rank[t], s # t PROVE FALSE
      OBVIOUS
    <3>1. s < t \/ t < s
      BY <1>1
    <3> QED
      BY <1>2, <1>4, <3>1
  <2> QED
    BY <2>1, <2>2 DEF Injection, IsInjective
<1>6. IsFiniteSet(Ranks) /\ Cardinality(Ranks) = n
  <2>1. 0 \in Int /\ n - 1 \in Int /\ (0 > n - 1 <=> n = 0) /\ (n - 1) - 0 + 1 = n
    BY <1>1
  <2> HIDE DEF n
  <2> QED
    BY <2>1, FS_Interval
<1>7. rank \in Surjection(S, Ranks)
  BY <1>5, <1>6, FS_Injection
<1>8. \A i \in 1..n : \E s \in S : Cardinality(below(s)) = i - 1
  <2> SUFFICES ASSUME NEW i \in 1..n PROVE \E s \in S : Cardinality(below(s)) = i - 1
    OBVIOUS
  <2>1. i - 1 \in Ranks
    BY <1>1
  <2> QED
    BY <1>7, <2>1 DEF Surjection
<1>9. \A s, t \in S : Cardinality(below(s)) = Cardinality(below(t)) => s = t
  BY <1>5 DEF Injection, IsInjective
<1> QED
  BY <1>1, <1>2, <1>3, <1>8, <1>9

\* Every position names a step of the set, the one with that many before it.
LEMMA NthStepExists ==
    ASSUME NEW S \in SUBSET Steps, NEW i \in 1..Cardinality(S)
    PROVE  NthStep(S, i) \in S /\ Cardinality({t \in S : t < NthStep(S, i)}) = i - 1
<1>1. \E s \in S : Cardinality({t \in S : t < s}) = i - 1
  BY StepRanks
<1> QED
  BY <1>1 DEF NthStep

\* And every step of the set is named by a position.
LEMMA StepIsNth ==
    ASSUME NEW S \in SUBSET Steps, NEW s \in S
    PROVE  \E i \in 1..Cardinality(S) : NthStep(S, i) = s
<1> DEFINE rank == Cardinality({t \in S : t < s})
<1>1. rank \in Nat /\ rank < Cardinality(S) /\ Cardinality(S) \in Nat
  BY StepRanks
<1> HIDE DEF rank
<1>2. rank + 1 \in 1..Cardinality(S) /\ (rank + 1) - 1 = rank
  BY <1>1
<1>3. NthStep(S, rank + 1) \in S /\ Cardinality({t \in S : t < NthStep(S, rank + 1)}) = rank
  BY <1>2, NthStepExists
<1>4. NthStep(S, rank + 1) = s
  <2> DEFINE nth == NthStep(S, rank + 1)
  <2>1. nth \in S /\ Cardinality({t \in S : t < nth}) = Cardinality({t \in S : t < s})
    BY <1>3 DEF rank
  <2> HIDE DEF nth
  <2>2. nth = s
    BY <2>1, StepRanks
  <2> QED
    BY <2>2 DEF nth
<1> QED
  BY <1>2, <1>4

-----------------------------------------------------------------------------
(* Records that only time, or nobody, has touched, and events *)

\* A step nobody has claimed.
LEMMA NewStepSound ==
    ASSUME NEW s \in Steps PROVE NewStep(s) \in StepRecord /\ LeaseIsOpenAttempt(NewStep(s))
<1>1. <<>> \in Seq(Attempt) /\ Len(<<>>) = 0
  OBVIOUS
<1>2. NewStep(s) \in StepRecord
  BY <1>1, WorkflowAssumption DEF NewStep, StepRecord, StepStatuses, Backoff
<1>3. LeaseIsOpenAttempt(NewStep(s))
  BY <1>1 DEF NewStep, LeaseIsOpenAttempt
<1> QED
  BY <1>2, <1>3

\* A step event of the vocabulary is a well-typed event.
LEMMA StepEventType ==
    ASSUME NEW kind \in StepEventKinds, NEW s \in Steps, NEW n \in Nat
    PROVE  StepEvent(kind, s, n) \in Event
BY DEF StepEvent, Event

LEMMA RunEventType ==
    ASSUME NEW kind \in {"RunStarted", "RunFinished"}, NEW st \in RunStatuses
    PROVE  RunEvent(kind, st) \in Event
BY DEF RunEvent, Event

\* Renewing a lease and the passing of time keep the lease's worker and token.
LEMMA LeaseTimeChanged ==
    ASSUME NEW rec \in StepRecord, LeaseIsOpenAttempt(rec), rec.lease # NoLease,
           NEW left \in 0..LeaseTicks
    PROVE  /\ [rec EXCEPT !.lease.left = left] \in StepRecord
           /\ LeaseIsOpenAttempt([rec EXCEPT !.lease.left = left])
           /\ [rec EXCEPT !.lease.left = left].status = rec.status
           /\ [rec EXCEPT !.lease.left = left].attempts = rec.attempts
<1> DEFINE lease == [rec.lease EXCEPT !.left = left]
           new   == [rec EXCEPT !.lease = lease]
<1>1. rec.lease \in Lease
  BY DEF StepRecord
<1>2. /\ lease \in Lease /\ lease # NoLease
      /\ lease.token = rec.lease.token /\ lease.worker = rec.lease.worker
  BY <1>1, NullsAssumption DEF Lease, NoLease
<1>3. [rec EXCEPT !.lease.left = left] = new
  OBVIOUS
<1> HIDE DEF lease
<1>4. new \in StepRecord /\ new.lease = lease /\ new.history = rec.history
      /\ new.status = rec.status /\ new.attempts = rec.attempts
  BY <1>2 DEF StepRecord
<1> HIDE DEF new
<1>5. LeaseIsOpenAttempt(new)
  BY <1>2, <1>4 DEF LeaseIsOpenAttempt
<1> QED
  BY <1>3, <1>4, <1>5

\* Nor does a backoff's elapsing touch the attempt.
LEMMA BackoffChanged ==
    ASSUME NEW rec \in StepRecord, LeaseIsOpenAttempt(rec), NEW b \in Backoff
    PROVE  /\ [rec EXCEPT !.backoff = b] \in StepRecord
           /\ LeaseIsOpenAttempt([rec EXCEPT !.backoff = b])
           /\ [rec EXCEPT !.backoff = b].status = rec.status
           /\ [rec EXCEPT !.backoff = b].attempts = rec.attempts
<1> DEFINE new == [rec EXCEPT !.backoff = b]
<1>1. new \in StepRecord /\ new.lease = rec.lease /\ new.history = rec.history
      /\ new.status = rec.status /\ new.attempts = rec.attempts
  BY DEF StepRecord
<1> HIDE DEF new
<1>2. LeaseIsOpenAttempt(new)
  BY <1>1 DEF LeaseIsOpenAttempt
<1> QED
  BY <1>1, <1>2 DEF new

-----------------------------------------------------------------------------
(* What identifies an attempt *)

\* The attempts of a record, their tokens and their workers.
SameIdentities(old, new) ==
    /\ new.attempts = old.attempts
    /\ new.history \in Seq(Attempt) /\ Len(new.history) = Len(old.history)
    /\ \A i \in 1..Len(old.history) :
           /\ new.history[i].token = old.history[i].token
           /\ new.history[i].worker = old.history[i].worker

\* Closing an attempt keeps every token and every worker of the history.
LEMMA CloseKeepsIdentities ==
    ASSUME NEW rec \in StepRecord, NEW st \in StepStatuses \ {"Absent"}
    PROVE  LET new == CloseAttempt(rec, st).history
           IN  /\ new \in Seq(Attempt) /\ Len(new) = Len(rec.history)
               /\ \A i \in 1..Len(rec.history) :
                      new[i].token = rec.history[i].token /\ new[i].worker = rec.history[i].worker
<1> DEFINE new == CloseAttempt(rec, st).history
           n   == Len(rec.history)
<1>1. \A i \in 1..n : rec.history[i] \in Attempt
  BY DEF StepRecord
<1>2. /\ new \in Seq(Attempt) /\ Len(new) = n
      /\ \A i \in 1..n : new[i] = IF i = n THEN [rec.history[i] EXCEPT !.status = st]
                                           ELSE rec.history[i]
  BY CloseAttemptHistory
<1> HIDE DEF new, n
<1>3. \A i \in 1..n : new[i].token = rec.history[i].token /\ new[i].worker = rec.history[i].worker
  BY <1>1, <1>2 DEF Attempt
<1> QED
  BY <1>2, <1>3 DEF new, n

\* So does ending it, and so does cancelling the step.
LEMMA EndKeepsIdentities ==
    ASSUME NEW s \in Steps, NEW rec \in StepRecord, NEW kind \in CompletionKinds,
           NEW output \in Outputs \cup {NoOutput}, NEW backoff \in Backoff,
           kind = "StepFallbackSelected" => Fallback[s] # NoTask
    PROVE  SameIdentities(rec, EndAttempt(s, rec, kind, output, backoff))
<1> DEFINE new == EndAttempt(s, rec, kind, output, backoff)
<1>1. /\ new.attempts = rec.attempts
      /\ new.status \in {"Retrying", "Succeeded", "Failed"}
      /\ new.history = CloseAttempt(rec, new.status).history
  BY EndAttemptType
<1> HIDE DEF new
<1>2. new.status \in StepStatuses \ {"Absent"}
  BY <1>1 DEF StepStatuses
<1>3. SameIdentities(rec, new)
  BY <1>1, <1>2, CloseKeepsIdentities DEF SameIdentities
<1> QED
  BY <1>3 DEF new

LEMMA CancelKeepsIdentities ==
    ASSUME NEW rec \in StepRecord PROVE SameIdentities(rec, CancelStep(rec))
<1> DEFINE closed == IF Last(rec.history).status = "Running"
                     THEN CloseAttempt(rec, "Cancelled") ELSE rec
           new    == [closed EXCEPT !.status = "Cancelled", !.lease = NoLease]
<1>1. "Cancelled" \in StepStatuses \ {"Absent"}
  BY DEF StepStatuses
<1>2. CloseAttempt(rec, "Cancelled") \in StepRecord
      /\ CloseAttempt(rec, "Cancelled").attempts = rec.attempts
  BY <1>1, CloseAttemptType DEF StepRecord
<1>3. SameIdentities(rec, CloseAttempt(rec, "Cancelled"))
  BY <1>1, <1>2, CloseKeepsIdentities DEF SameIdentities
<1>4. SameIdentities(rec, rec)
  BY DEF SameIdentities, StepRecord
<1>5. closed \in StepRecord /\ SameIdentities(rec, closed)
  BY <1>2, <1>3, <1>4
<1> HIDE DEF closed
<1>6. new.attempts = closed.attempts /\ new.history = closed.history
  BY <1>5 DEF StepRecord
<1>7. SameIdentities(rec, new)
  BY <1>5, <1>6 DEF SameIdentities
<1>8. CancelStep(rec) = rec \/ CancelStep(rec) = new
  BY DEF CancelStep, closed
<1> QED
  BY <1>4, <1>7, <1>8

\* The tokens of a record's attempts are numbers.
LEMMA AttemptTokens ==
    ASSUME NEW rec \in StepRecord, NEW i \in 1..Len(rec.history)
    PROVE  rec.history[i].token \in Nat
<1>1. rec.history \in Seq(Attempt)
  BY DEF StepRecord
<1>2. rec.history[i] \in Attempt
  BY <1>1
<1> QED
  BY <1>2 DEF Attempt

\* A history of rising tokens, none above m, extended by an attempt under m + 1.
LEMMA AppendedToken ==
    ASSUME NEW h \in Seq(Attempt), NEW new, NEW m \in Nat,
           new[Len(h) + 1].token = m + 1,
           \A i \in 1..Len(h) : new[i] = h[i] /\ h[i].token <= m,
           \A i, j \in 1..Len(h) : i < j => h[i].token < h[j].token
    PROVE  /\ \A i \in 1..(Len(h) + 1) : new[i].token <= m + 1
           /\ \A i, j \in 1..(Len(h) + 1) : i < j => new[i].token < new[j].token
<1> DEFINE n == Len(h)
           tok(i) == new[i].token
<1>1. n \in Nat
  OBVIOUS
<1>2. \A i \in 1..n : h[i] \in Attempt
  OBVIOUS
<1>3. \A i \in 1..n : tok(i) \in Nat /\ tok(i) <= m
  BY <1>2 DEF Attempt
<1>4. \A i, j \in 1..n : i < j => tok(i) < tok(j)
  OBVIOUS
<1>5. tok(n + 1) = m + 1
  OBVIOUS
<1> HIDE DEF n, tok
<1>6. \A i \in 1..(n + 1) : i \in 1..n \/ i = n + 1
  BY <1>1
<1>7. \A i \in 1..(n + 1) : tok(i) <= m + 1
  BY <1>3, <1>5, <1>6
<1>8. ASSUME NEW i \in 1..(n + 1), NEW j \in 1..(n + 1), i < j PROVE tok(i) < tok(j)
  <2>1. i \in 1..n
    BY <1>1, <1>8
  <2>2. CASE j \in 1..n
    BY <1>4, <1>8, <2>1, <2>2
  <2>3. CASE j = n + 1
    BY <1>3, <1>5, <2>1, <2>3
  <2> QED
    BY <1>6, <2>2, <2>3
<1> QED
  BY <1>7, <1>8 DEF n, tok

-----------------------------------------------------------------------------
(* Least and greatest numbers *)

\* A nonempty set of numbers has a least one: the initial segments of its
\* members are finite sets, and strict inclusion of those is well founded.
LEMMA LeastExists ==
    ASSUME NEW S \in SUBSET Nat, S # {}
    PROVE  \E n \in S : \A m \in S : n <= m
<1> DEFINE below(n) == 1..n
           T == {below(n) : n \in S}
<1>1. \A n \in Nat : below(n) \in FiniteSubsetsOf(Nat)
  <2>1. \A n \in Nat : below(n) \in SUBSET Nat /\ IsFiniteSet(below(n))
    BY FS_Interval
  <2> QED
    BY <2>1 DEF FiniteSubsetsOf
<1>2. T \subseteq FiniteSubsetsOf(Nat) /\ T # {}
  BY <1>1
<1>3. IsWellFoundedOn(StrictSubsetOrdering(Nat), FiniteSubsetsOf(Nat))
  BY FS_StrictSubsetOrderingWellFounded
<1> HIDE DEF T
<1>4. PICK t \in T : \A u \in T : ~(<<u, t>> \in StrictSubsetOrdering(Nat))
  BY <1>2, <1>3, WFMin
<1> USE DEF T
<1>5. PICK n \in S : t = below(n)
  OBVIOUS
<1>6. ASSUME NEW m \in S, m < n PROVE FALSE
  <2>1. below(m) \in SUBSET Nat /\ below(n) \in SUBSET Nat
    OBVIOUS
  <2>2. \A i \in Nat : i <= m => i <= n
    BY <1>6
  <2>3. below(m) \subseteq below(n)
    BY <2>2
  <2>4. n \in below(n) /\ n \notin below(m)
    BY <1>6
  <2>5. <<below(m), below(n)>> \in StrictSubsetOrdering(Nat)
    BY <2>1, <2>3, <2>4 DEF StrictSubsetOrdering
  <2> QED
    BY <1>4, <1>5, <2>5
<1> QED
  BY <1>6

\* What is listed is finite.
LEMMA ListedIsFinite ==
    ASSUME NEW n \in Nat, NEW T, NEW f \in [1..n -> T], \A t \in T : \E i \in 1..n : f[i] = t
    PROVE  IsFiniteSet(T)
<1>1. f \in Surjection(1..n, T)
  BY DEF Surjection
<1>2. IsFiniteSet(1..n)
  BY FS_Interval
<1> QED
  BY <1>1, <1>2, FS_Surjection

\* A nonempty finite set of numbers has a greatest one: of the sets of its
\* members from n on, a least one by inclusion is that of the greatest.
LEMMA MaxExists ==
    ASSUME NEW S \in SUBSET Nat, IsFiniteSet(S), S # {}
    PROVE  Max(S) \in S /\ \A m \in S : m <= Max(S)
<1> DEFINE above(n) == {m \in S : n <= m}
           T == {above(n) : n \in S}
<1>1. \A n \in S : above(n) \in FiniteSubsetsOf(S)
  <2>1. \A n \in S : above(n) \in SUBSET S /\ IsFiniteSet(above(n))
    BY FS_Subset
  <2> QED
    BY <2>1 DEF FiniteSubsetsOf
<1>2. T \subseteq FiniteSubsetsOf(S) /\ T # {}
  BY <1>1
<1>3. IsWellFoundedOn(StrictSubsetOrdering(S), FiniteSubsetsOf(S))
  BY FS_StrictSubsetOrderingWellFounded
<1> HIDE DEF T
<1>4. PICK t \in T : \A u \in T : ~(<<u, t>> \in StrictSubsetOrdering(S))
  BY <1>2, <1>3, WFMin
<1> USE DEF T
<1>5. PICK n \in S : t = above(n)
  OBVIOUS
<1>6. ASSUME NEW m \in S, ~(m <= n) PROVE FALSE
  <2>1. above(m) \in SUBSET S /\ above(n) \in SUBSET S
    OBVIOUS
  <2>2. \A i \in S : m <= i => n <= i
    BY <1>6
  <2>3. above(m) \subseteq above(n)
    BY <2>2
  <2>4. n \in above(n) /\ n \notin above(m)
    BY <1>6
  <2>5. <<above(m), above(n)>> \in StrictSubsetOrdering(S)
    BY <2>1, <2>3, <2>4 DEF StrictSubsetOrdering
  <2> QED
    BY <1>4, <1>5, <2>5
<1>7. \E x \in S : \A y \in S : x >= y
  BY <1>6
<1> QED
  BY <1>7 DEF Max

LEMMA NumbersWithZero ==
    ASSUME NEW S \in SUBSET Nat, IsFiniteSet(S)
    PROVE  {0} \cup S \in SUBSET Nat /\ IsFiniteSet({0} \cup S)
<1>1. IsFiniteSet({0})
  BY FS_Singleton
<1>2. IsFiniteSet({0} \cup S)
  BY <1>1, FS_Union
<1>3. {0} \cup S \in SUBSET Nat
  OBVIOUS
<1> QED
  BY <1>2, <1>3
=============================================================================
