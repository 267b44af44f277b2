--------------------------- MODULE PostgresProofs ---------------------------
(***************************************************************************)
(* Proofs for PostgresRunStore: every row is well formed and no key ever   *)
(* has two rows, whatever the statements of concurrent submissions do; and *)
(* each row implements the RunRepository contract on its own.              *)
(***************************************************************************)
EXTENDS RowContract, RunRecordProofs

-----------------------------------------------------------------------------
(* One row *)

\* A row whose attempts and leases belong together.
SoundRow(run) == run \in Row /\ \A s \in Steps : LeaseIsOpenAttempt(run.steps[s])

\* The sequence number of the last event, 0 without one.
LEMMA LastSequenceType ==
    ASSUME NEW run \in Row PROVE LastSequence(run) \in Nat
<1>1. run.log \in Seq(EventEnvelope)
  BY DEF Row
<1>2. CASE run.log = <<>>
  BY <1>2 DEF LastSequence
<1>3. CASE run.log # <<>>
  <2>1. Len(run.log) \in 1..Len(run.log)
    BY <1>1, <1>3
  <2>2. run.log[Len(run.log)] \in EventEnvelope
    BY <1>1, <2>1
  <2> QED
    BY <1>3, <2>2 DEF LastSequence, Last, EventEnvelope
<1> QED
  BY <1>2, <1>3

\* append_run_event numbers the event after the last one.
LEMMA AppendedRow ==
    ASSUME NEW run \in Row, NEW e \in Event
    PROVE  LET new == AppendRunEvent(run, e)
           IN  /\ new \in Row
               /\ new.status = run.status /\ new.steps = run.steps
               /\ new.gatesPassed = run.gatesPassed
               /\ new.key = run.key /\ new.payload = run.payload
               /\ new.log = Append(run.log, [sequence |-> LastSequence(run) + 1, event |-> e])
               /\ LastSequence(run) \in Nat
               /\ LastSequence(new) = LastSequence(run) + 1
<1> DEFINE n   == LastSequence(run)
           x   == [sequence |-> n + 1, event |-> e]
           new == [run EXCEPT !.log = Append(run.log, x)]
<1>1. run.log \in Seq(EventEnvelope)
  BY DEF Row
<1>2. n \in Nat
  BY LastSequenceType
<1> HIDE DEF n
<1>3. x \in EventEnvelope
  BY <1>2 DEF EventEnvelope
<1> HIDE DEF x
<1>4. Append(run.log, x) \in Seq(EventEnvelope)
  BY <1>1, <1>3
<1>5. /\ new \in Row /\ new.status = run.status /\ new.steps = run.steps
      /\ new.gatesPassed = run.gatesPassed
      /\ new.key = run.key /\ new.payload = run.payload
      /\ new.log = Append(run.log, x)
  BY <1>4 DEF Row
<1>6. AppendRunEvent(run, e) = new
  BY DEF AppendRunEvent, n, x
<1>7. LastSequence(new) = n + 1
  <2> HIDE DEF new
  <2>1. /\ Len(new.log) = Len(run.log) + 1 /\ Len(run.log) \in Nat
        /\ new.log[Len(run.log) + 1] = x
    BY <1>1, <1>3, <1>5
  <2>2. new.log # <<>>
    BY <2>1
  <2>3. x.sequence = n + 1
    BY DEF x
  <2> QED
    BY <2>1, <2>2, <2>3 DEF LastSequence, Last
<1> HIDE DEF new
<1> QED
  BY <1>2, <1>5, <1>6, <1>7 DEF n, x

\* One step of a row gets a new record.
LEMMA StepReplaced ==
    ASSUME NEW run, SoundRow(run), NEW s \in Steps,
           NEW rec \in StepRecord, LeaseIsOpenAttempt(rec)
    PROVE  LET new == [run EXCEPT !.steps[s] = rec]
           IN  /\ SoundRow(new)
               /\ new.steps = [run.steps EXCEPT ![s] = rec]
               /\ new.status = run.status /\ new.log = run.log
               /\ new.gatesPassed = run.gatesPassed
               /\ new.key = run.key /\ new.payload = run.payload
<1> DEFINE steps == [run.steps EXCEPT ![s] = rec]
           new   == [run EXCEPT !.steps = steps]
<1>1. run \in Row /\ run.steps \in [Steps -> StepRecord]
  BY DEF SoundRow, Row
<1>2. steps \in [Steps -> StepRecord]
  BY <1>1
<1>3. \A t \in Steps : LeaseIsOpenAttempt(steps[t])
  <2> SUFFICES ASSUME NEW t \in Steps PROVE LeaseIsOpenAttempt(steps[t])
    OBVIOUS
  <2>1. steps[t] = IF t = s THEN rec ELSE run.steps[t]
    BY <1>1
  <2> QED
    BY <2>1 DEF SoundRow
<1> HIDE DEF steps
<1>4. /\ new \in Row /\ new.steps = steps
      /\ new.status = run.status /\ new.log = run.log
      /\ new.gatesPassed = run.gatesPassed
      /\ new.key = run.key /\ new.payload = run.payload
  BY <1>1, <1>2 DEF Row
<1>5. [run EXCEPT !.steps[s] = rec] = new
  BY DEF steps
<1> HIDE DEF new
<1> QED
  BY <1>3, <1>4, <1>5 DEF SoundRow, steps

\* The row that is not there is well formed.
LEMMA NoRowSound ==
    SoundRow(NoRow) /\ NoRow.status = "Absent" /\ NoRow.log = <<>>
<1>1. \A s \in Steps : NewStep(s) \in StepRecord /\ LeaseIsOpenAttempt(NewStep(s))
  BY NewStepSound
<1>2. \A s \in Steps : NoRow.steps[s] = NewStep(s)
  BY DEF NoRow
<1>3. NoRow.steps \in [Steps -> StepRecord]
  BY <1>1 DEF NoRow
<1>4. NoRow.payload \in Payloads
  BY PayloadsAssumption DEF NoRow
<1> HIDE DEF NewStep
<1>5. NoRow \in Row
  BY <1>3, <1>4 DEF NoRow, Row, RunStatuses
<1> QED
  BY <1>1, <1>2, <1>5 DEF SoundRow, NoRow

-----------------------------------------------------------------------------
(* The tokens of a row *)

\* The row's attempts keep their tokens and workers.
SameAttempts(old, new) ==
    \A s \in Steps : SameIdentities(old.steps[s], new.steps[s])

\* The tokens of a row are those of its attempts, and they are finitely many.
LEMMA RowTokens ==
    ASSUME NEW run, SoundRow(run)
    PROVE  /\ \A t : t \in TokensOf(run) <=>
                  \E s \in Steps : \E i \in 1..Len(run.steps[s].history) :
                      t = run.steps[s].history[i].token
           /\ TokensOf(run) \in SUBSET Nat /\ IsFiniteSet(TokensOf(run))
<1> DEFINE h(s)    == run.steps[s].history
           Told(s) == {a.token : a \in ToSet(h(s))}
           All     == {Told(s) : s \in Steps}
<1>1. ASSUME NEW s \in Steps
      PROVE  /\ run.steps[s] \in StepRecord /\ h(s) \in Seq(Attempt) /\ Len(h(s)) \in Nat
             /\ DOMAIN h(s) = 1..Len(h(s))
  <2>1. run.steps[s] \in StepRecord
    BY DEF SoundRow, Row
  <2>2. h(s) \in Seq(Attempt)
    BY <2>1 DEF StepRecord
  <2> QED
    BY <2>1, <2>2
<1>2. ASSUME NEW s \in Steps
      PROVE  /\ Told(s) = {h(s)[i].token : i \in 1..Len(h(s))}
             /\ \A i \in 1..Len(h(s)) : h(s)[i].token \in Nat
  <2>1. Told(s) = {h(s)[i].token : i \in 1..Len(h(s))}
    BY <1>1 DEF ToSet
  <2> QED
    BY <1>1, <2>1, AttemptTokens
<1>3. ASSUME NEW s \in Steps PROVE Told(s) \in SUBSET Nat /\ IsFiniteSet(Told(s))
  <2> DEFINE f == [i \in 1..Len(h(s)) |-> h(s)[i].token]
  <2>1. f \in [1..Len(h(s)) -> Told(s)] /\ \A t \in Told(s) : \E i \in 1..Len(h(s)) : f[i] = t
    BY <1>2
  <2> HIDE DEF f
  <2>2. IsFiniteSet(Told(s))
    BY <1>1, <2>1, ListedIsFinite
  <2>3. ASSUME NEW t \in Told(s) PROVE t \in Nat
    <3>1. Told(s) = {h(s)[i].token : i \in 1..Len(h(s))}
      BY <1>2
    <3>2. PICK i \in 1..Len(h(s)) : t = h(s)[i].token
      BY <3>1
    <3> QED
      BY <1>2, <3>2
  <2> HIDE DEF Told
  <2> QED
    BY <2>2, <2>3
<1>4. IsFiniteSet(All)
  <2> DEFINE f == [s \in 1..NumSteps |-> Told(s)]
  <2>1. f \in [1..NumSteps -> All] /\ \A t \in All : \E s \in 1..NumSteps : f[s] = t
    BY DEF Steps
  <2> HIDE DEF f, All
  <2> QED
    BY <2>1, CountsAssumption, ListedIsFinite
<1>5. IsFiniteSet(UNION All) /\ UNION All \in SUBSET Nat
  BY <1>3, <1>4, FS_UNION
<1>6. TokensOf(run) = UNION All
  BY DEF TokensOf
<1>7. \A t : t \in UNION All <=> \E s \in Steps : t \in Told(s)
  OBVIOUS
<1>8. \A s \in Steps : \A t : t \in Told(s) <=> \E i \in 1..Len(h(s)) : t = h(s)[i].token
  BY <1>2
<1> HIDE DEF Told, All
<1>9. ASSUME NEW t
      PROVE  t \in TokensOf(run) <=>
                 \E s \in Steps : \E i \in 1..Len(h(s)) : t = h(s)[i].token
  <2>1. t \in TokensOf(run) <=> \E s \in Steps : t \in Told(s)
    BY <1>6, <1>7
  <2>2. \A s \in Steps : t \in Told(s) <=> \E i \in 1..Len(h(s)) : t = h(s)[i].token
    BY <1>8
  <2> HIDE DEF h
  <2> QED
    BY <2>1, <2>2
<1> QED
  BY <1>5, <1>6, <1>9

\* next_lease_token: the next token is above all of them, by one.
LEMMA LastToken ==
    ASSUME NEW run, SoundRow(run)
    PROVE  /\ NextLeaseToken(run) \in Nat \ {0}
           /\ \A t \in TokensOf(run) : t < NextLeaseToken(run)
           /\ NextLeaseToken(run) - 1 \in {0} \cup TokensOf(run)
<1> DEFINE S == {0} \cup TokensOf(run)
<1>1. S \in SUBSET Nat /\ IsFiniteSet(S)
  BY RowTokens, NumbersWithZero
<1>2. \A t \in TokensOf(run) : t \in S
  OBVIOUS
<1>3. 0 \in S
  OBVIOUS
<1>4. NextLeaseToken(run) = 1 + Max(S)
  BY DEF NextLeaseToken
<1> HIDE DEF S
<1>5. Max(S) \in S /\ \A t \in S : t <= Max(S)
  BY <1>1, <1>3, MaxExists
<1>6. Max(S) \in Nat /\ \A t \in S : t \in Nat
  BY <1>1, <1>5
<1>7. NextLeaseToken(run) \in Nat \ {0} /\ NextLeaseToken(run) - 1 = Max(S)
  BY <1>4, <1>6
<1>8. \A t \in S : t < NextLeaseToken(run)
  BY <1>4, <1>5, <1>6
<1> QED
  BY <1>2, <1>5, <1>7, <1>8 DEF S

\* What rewrites no attempt's token moves no counter.
LEMMA SameTokens ==
    ASSUME NEW old, NEW new, SoundRow(old), SoundRow(new), SameAttempts(old, new)
    PROVE  NextLeaseToken(new) = NextLeaseToken(old)
<1>1. \A s \in Steps :
          /\ Len(new.steps[s].history) = Len(old.steps[s].history)
          /\ \A i \in 1..Len(old.steps[s].history) :
                 new.steps[s].history[i].token = old.steps[s].history[i].token
  BY DEF SameAttempts, SameIdentities
<1>2. /\ \A t : t \in TokensOf(new) <=>
             \E s \in Steps : \E i \in 1..Len(new.steps[s].history) :
                 t = new.steps[s].history[i].token
      /\ \A t : t \in TokensOf(old) <=>
             \E s \in Steps : \E i \in 1..Len(old.steps[s].history) :
                 t = old.steps[s].history[i].token
  BY RowTokens
<1>3. ASSUME NEW t PROVE t \in TokensOf(new) <=> t \in TokensOf(old)
  <2>1. ASSUME t \in TokensOf(new) PROVE t \in TokensOf(old)
    <3>1. PICK s \in Steps : \E i \in 1..Len(new.steps[s].history) :
                                 t = new.steps[s].history[i].token
      BY <1>2, <2>1
    <3>2. \E i \in 1..Len(old.steps[s].history) : t = old.steps[s].history[i].token
      BY <1>1, <3>1
    <3> QED
      BY <1>2, <3>2
  <2>2. ASSUME t \in TokensOf(old) PROVE t \in TokensOf(new)
    <3>1. PICK s \in Steps : \E i \in 1..Len(old.steps[s].history) :
                                 t = old.steps[s].history[i].token
      BY <1>2, <2>2
    <3>2. \E i \in 1..Len(new.steps[s].history) : t = new.steps[s].history[i].token
      BY <1>1, <3>1
    <3> QED
      BY <1>2, <3>2
  <2> QED
    BY <2>1, <2>2
<1>4. TokensOf(new) = TokensOf(old)
  BY <1>3
<1> QED
  BY <1>4 DEF NextLeaseToken

\* A claim issues the next token.
LEMMA TokenIssued ==
    ASSUME NEW old, NEW new, SoundRow(old), SoundRow(new), NEW s \in Steps, NEW w,
           new.steps = [old.steps EXCEPT
                            ![s] = StartAttempt(old.steps[s], w, NextLeaseToken(old))]
    PROVE  NextLeaseToken(new) = NextLeaseToken(old) + 1
<1> DEFINE n   == NextLeaseToken(old)
           rec == old.steps[s]
           h(t) == old.steps[t].history
           g(t) == new.steps[t].history
<1>1. rec \in StepRecord /\ old.steps \in [Steps -> StepRecord]
  BY DEF SoundRow, Row
<1>2. g(s) = Append(h(s), [number |-> rec.attempts + 1, worker |-> w,
                           token |-> n, status |-> "Running"])
  BY <1>1 DEF StartAttempt, StepRecord
<1>3. h(s) \in Seq(Attempt) /\ Len(h(s)) \in Nat
  BY <1>1 DEF StepRecord
<1>4. /\ Len(g(s)) = Len(h(s)) + 1 /\ g(s)[Len(h(s)) + 1].token = n
      /\ \A i \in 1..Len(h(s)) : g(s)[i] = h(s)[i]
  BY <1>2, <1>3
<1>5. \A t \in Steps \ {s} : g(t) = h(t)
  BY <1>1
<1>6. /\ \A t : t \in TokensOf(new) <=> \E u \in Steps : \E i \in 1..Len(g(u)) : t = g(u)[i].token
      /\ \A t : t \in TokensOf(old) <=> \E u \in Steps : \E i \in 1..Len(h(u)) : t = h(u)[i].token
  BY RowTokens
<1> HIDE DEF n, h, g
<1>7. ASSUME NEW t \in TokensOf(new) PROVE t = n \/ t \in TokensOf(old)
  <2>1. PICK u \in Steps : \E i \in 1..Len(g(u)) : t = g(u)[i].token
    BY <1>6
  <2>2. PICK i \in 1..Len(g(u)) : t = g(u)[i].token
    BY <2>1
  <2>3. CASE u = s /\ i = Len(h(s)) + 1
    BY <1>4, <2>2, <2>3
  <2>4. CASE u = s /\ i # Len(h(s)) + 1
    <3>1. i \in 1..Len(h(s))
      BY <1>3, <1>4, <2>4
    <3>2. t = h(s)[i].token
      BY <1>4, <2>2, <2>4, <3>1
    <3> QED
      BY <1>6, <3>1, <3>2
  <2>5. CASE u # s
    <3>1. t = h(u)[i].token /\ i \in 1..Len(h(u))
      BY <1>5, <2>2, <2>5
    <3> QED
      BY <1>6, <3>1
  <2> QED
    BY <2>3, <2>4, <2>5
<1>8. n \in TokensOf(new)
  <2>1. Len(g(s)) \in 1..Len(g(s)) /\ g(s)[Len(g(s))].token = n
    BY <1>3, <1>4
  <2> QED
    BY <1>6, <2>1
<1>9. /\ n \in Nat \ {0} /\ NextLeaseToken(new) \in Nat \ {0}
      /\ \A t \in TokensOf(old) : t < n
      /\ \A t \in TokensOf(new) : t < NextLeaseToken(new)
      /\ NextLeaseToken(new) - 1 \in {0} \cup TokensOf(new)
  BY LastToken DEF n
<1>10. NextLeaseToken(new) - 1 <= n
  <2>1. TokensOf(old) \in SUBSET Nat
    BY RowTokens
  <2>2. CASE NextLeaseToken(new) - 1 = 0
    BY <1>9, <2>2
  <2>3. CASE NextLeaseToken(new) - 1 \in TokensOf(new)
    BY <1>7, <1>9, <2>1, <2>3
  <2> QED
    BY <1>9, <2>2, <2>3
<1>11. n < NextLeaseToken(new)
  BY <1>8, <1>9
<1> QED
  BY <1>9, <1>10, <1>11 DEF n

-----------------------------------------------------------------------------
(* Recovery of one row *)

\* A row keeps its identity, its verdict and its gates.
SameRun(old, new) ==
    /\ new.status = old.status /\ new.gatesPassed = old.gatesPassed
    /\ new.key = old.key /\ new.payload = old.payload

\* recover_expired_step leaves each record well formed.
LEMMA RecoveredSteps ==
    ASSUME NEW run, SoundRow(run), NEW s \in Steps
    PROVE  LET rec  == run.steps[s]
               kind == RecoveryKind(s, rec)
               new  == IF s \in Expired(run)
                       THEN EndAttempt(s, rec, kind, rec.output, "None") ELSE rec
           IN  /\ new \in StepRecord /\ LeaseIsOpenAttempt(new) /\ SameIdentities(rec, new)
               /\ kind \in CompletionKinds
               /\ kind = "StepFallbackSelected" => Fallback[s] # NoTask
<1> DEFINE rec  == run.steps[s]
           kind == RecoveryKind(s, rec)
           end  == EndAttempt(s, rec, kind, rec.output, "None")
           new  == IF s \in Expired(run) THEN end ELSE rec
<1>1. rec \in StepRecord /\ LeaseIsOpenAttempt(rec)
  BY DEF SoundRow, Row
<1>2. kind \in CompletionKinds /\ (kind = "StepFallbackSelected" => Fallback[s] # NoTask)
  BY DEF RecoveryKind, CompletionKinds, StepEventKinds, Announces
<1>3. rec.output \in Outputs \cup {NoOutput} /\ "None" \in Backoff
  BY <1>1 DEF StepRecord, Backoff
<1>4. SameIdentities(rec, rec)
  BY <1>1 DEF SameIdentities, StepRecord
<1> HIDE DEF kind, rec
<1>5. end \in StepRecord /\ LeaseIsOpenAttempt(end) /\ SameIdentities(rec, end)
  BY <1>1, <1>2, <1>3, EndAttemptType, EndAttemptFenced, EndKeepsIdentities
<1> HIDE DEF end
<1>6. new \in StepRecord /\ LeaseIsOpenAttempt(new) /\ SameIdentities(rec, new)
  BY <1>1, <1>4, <1>5
<1> QED
  BY <1>2, <1>6 DEF end, kind, rec

\* recover_expired appends one event per ended attempt to the row's own log.
LEMMA RecoveredRow ==
    ASSUME NEW run, SoundRow(run)
    PROVE  LET new == Recovered(run)
           IN  /\ SoundRow(new) /\ SameRun(run, new) /\ SameAttempts(run, new)
               /\ Cardinality(Expired(run)) \in Nat
               /\ LastSequence(new) = LastSequence(run) + Cardinality(Expired(run))
<1> DEFINE n      == Cardinality(Expired(run))
           last   == LastSequence(run)
           kind(s) == RecoveryKind(s, run.steps[s])
           rec(s) == IF s \in Expired(run)
                     THEN EndAttempt(s, run.steps[s], kind(s), run.steps[s].output, "None")
                     ELSE run.steps[s]
           event(i) == LET s == NthStep(Expired(run), i)
                       IN  StepEvent(kind(s), s, run.steps[s].attempts)
           appended == [i \in 1..n |-> [sequence |-> last + i, event |-> event(i)]]
           steps  == [s \in Steps |-> rec(s)]
           log    == run.log \o appended
           new    == [run EXCEPT !.steps = steps, !.log = log]
<1>1. run \in Row /\ run.log \in Seq(EventEnvelope) /\ last \in Nat
  BY LastSequenceType DEF SoundRow, Row
<1>2. Expired(run) \in SUBSET Steps
  BY DEF Expired
<1>3. n \in Nat
  BY <1>2, StepRanks
<1>4. ASSUME NEW s \in Steps
      PROVE  /\ rec(s) \in StepRecord /\ LeaseIsOpenAttempt(rec(s))
             /\ SameIdentities(run.steps[s], rec(s)) /\ kind(s) \in StepEventKinds
  BY RecoveredSteps DEF CompletionKinds
<1>5. ASSUME NEW i \in 1..n PROVE event(i) \in Event
  <2> DEFINE s == NthStep(Expired(run), i)
  <2>1. s \in Steps
    BY <1>2, NthStepExists
  <2> HIDE DEF s
  <2>2. run.steps[s].attempts \in Nat /\ kind(s) \in StepEventKinds
    BY <1>1, <1>4, <2>1 DEF Row, StepRecord
  <2> HIDE DEF kind
  <2>3. StepEvent(kind(s), s, run.steps[s].attempts) \in Event
    BY <2>1, <2>2, StepEventType
  <2> QED
    BY <2>3 DEF s
<1>6. Recovered(run) = new
  BY DEF Recovered
<1> HIDE DEF n, last, rec, event
<1>7. appended \in [1..n -> EventEnvelope]
  <2>1. ASSUME NEW i \in 1..n
        PROVE  [sequence |-> last + i, event |-> event(i)] \in EventEnvelope
    BY <1>1, <1>3, <1>5 DEF EventEnvelope
  <2> QED
    BY <2>1
<1>8. /\ appended \in Seq(EventEnvelope) /\ Len(appended) = n
      /\ \A i \in 1..n : appended[i].sequence = last + i
  <2>1. appended \in Seq(EventEnvelope)
    BY <1>3, <1>7, FunctionIsSeq
  <2>2. DOMAIN appended = 1..n /\ \A i \in 1..n : appended[i].sequence = last + i
    OBVIOUS
  <2> HIDE DEF appended
  <2>3. Len(appended) = n
    BY <1>3, <2>1, <2>2
  <2> QED
    BY <2>1, <2>2, <2>3
<1> HIDE DEF appended
<1>9. steps \in [Steps -> StepRecord] /\ \A s \in Steps : steps[s] = rec(s)
  BY <1>4
<1>10. log \in Seq(EventEnvelope)
  BY <1>1, <1>8
<1> HIDE DEF steps
<1>11. new \in Row /\ new.steps = steps /\ new.log = log /\ SameRun(run, new)
  <2> HIDE DEF log
  <2> QED
    BY <1>1, <1>9, <1>10 DEF Row, SameRun
<1>12. SoundRow(new) /\ SameAttempts(run, new)
  <2> HIDE DEF new
  <2> QED
    BY <1>4, <1>9, <1>11 DEF SoundRow, SameAttempts
<1>13. LastSequence(new) = last + n
  <2> HIDE DEF new
  <2>1. CASE n = 0
    <3>1. log = run.log
      BY <1>1, <1>8, <2>1
    <3>2. LastSequence(new) = last
      BY <1>11, <3>1 DEF LastSequence, last
    <3> QED
      BY <1>1, <2>1, <3>2
  <2>2. CASE n > 0
    <3> DEFINE m == Len(run.log)
    <3>1. m \in Nat /\ n \in 1..Len(appended) /\ Len(appended) = n
      BY <1>1, <1>3, <1>8, <2>2
    <3>2. Len(log) = m + n /\ log[m + n] = appended[n]
      BY <1>1, <1>8, <3>1
    <3>3. log # <<>>
      BY <1>10, <2>2, <3>1, <3>2
    <3>4. Len(log) = Len(run.log) + n /\ log[Len(log)] = appended[n] /\ log # <<>>
      BY <3>1, <3>2, <3>3
    <3>5. appended[n].sequence = last + n
      BY <1>3, <1>8, <2>2
    <3> QED
      BY <1>11, <3>4, <3>5 DEF LastSequence, Last
  <2> QED
    BY <1>3, <2>1, <2>2
<1> HIDE DEF new
<1> QED
  BY <1>3, <1>6, <1>11, <1>12, <1>13 DEF n, last

-----------------------------------------------------------------------------
(* What each operation writes to the row it locked *)

\* Every row is sound, and a row that is not there is the empty one.
RowsInv ==
    /\ rows \in [Runs -> Row]
    /\ \A r \in Runs : SoundRow(rows[r]) /\ (~Stored(r) => rows[r] = NoRow)
ClaimsInv == RowsInv /\ claims \subseteq ClaimOn(Runs)

\* A transaction that wrote the stored row r, and no other.
Rewrites(r, run) ==
    /\ Stored(r) /\ rows' = [rows EXCEPT ![r] = run]
    /\ SoundRow(run) /\ run.status # "Absent"
    /\ run.key = rows[r].key /\ run.payload = rows[r].payload

\* claim_next_step.
LEMMA ClaimRow ==
    ASSUME RowsInv, NEW r \in Runs, NEW s \in Steps, NEW w \in Workers, ClaimStep(r, s, w)
    PROVE  LET run == [rows[r] EXCEPT !.steps[s] =
                           StartAttempt(rows[r].steps[s], w, NextLeaseToken(rows[r]))]
           IN  /\ Rewrites(r, run) /\ SameRun(rows[r], run) /\ run.log = rows[r].log
               /\ run.steps = [rows[r].steps EXCEPT ![s] =
                      StartAttempt(rows[r].steps[s], w, NextLeaseToken(rows[r]))]
               /\ NextLeaseToken(run) = NextLeaseToken(rows[r]) + 1
               /\ NextLeaseToken(rows[r]) \in Nat \ {0}
               /\ StartAttempt(rows[r].steps[s], w, NextLeaseToken(rows[r])).attempts \in Nat \ {0}
<1> DEFINE old == rows[r]
           rec == old.steps[s]
           n   == NextLeaseToken(old)
           new == StartAttempt(rec, w, n)
           run == [old EXCEPT !.steps[s] = new]
<1>1. SoundRow(old)
  BY DEF RowsInv
<1>2. rec \in StepRecord /\ LeaseIsOpenAttempt(rec) /\ rec.status # "Running"
  BY <1>1 DEF SoundRow, Row, ClaimStep, Grant, Claimable, Available
<1>3. n \in Nat \ {0}
  BY <1>1, LastToken
<1>4. new \in StepRecord /\ LeaseIsOpenAttempt(new) /\ new.attempts \in Nat \ {0}
  <2>1. rec.attempts \in Nat
    BY <1>2 DEF StepRecord
  <2> HIDE DEF n, rec
  <2> QED
    BY <1>2, <1>3, <2>1, StartAttemptFenced
<1>5. /\ Stored(r) /\ rows' = [rows EXCEPT ![r] = run] /\ old.status # "Absent"
  BY DEF ClaimStep, Grant, Loads, Stored, Persist
<1> HIDE DEF new
<1>6. /\ SoundRow(run) /\ SameRun(old, run) /\ run.log = old.log
      /\ run.steps = [old.steps EXCEPT ![s] = new]
  <2> HIDE DEF old
  <2> QED
    BY <1>1, <1>4, StepReplaced DEF SameRun
<1> HIDE DEF run, old
<1>7. NextLeaseToken(run) = n + 1
  BY <1>1, <1>6, TokenIssued DEF new, n, rec
<1>8. Rewrites(r, run)
  BY <1>5, <1>6 DEF Rewrites, SameRun, old
<1> QED
  BY <1>3, <1>4, <1>6, <1>7, <1>8 DEF old, rec, n, new, run

\* What a claim remembers has the types of its columns.
LEMMA ClaimType ==
    ASSUME ClaimsInv, NEW r \in Runs, NEW s \in Steps, NEW w \in Workers, ClaimStep(r, s, w)
    PROVE  claims' \subseteq ClaimOn(Runs)
<1> DEFINE run == rows[r]
           n   == NextLeaseToken(run)
           new == StartAttempt(run.steps[s], w, n)
           claim == [run |-> r, step |-> s, task |-> new.task, worker |-> w,
                     token |-> n, attempt |-> new.attempts, fallbackUsed |-> new.fallbackUsed,
                     input |-> [d \in Deps[s] |-> run.steps[d].output]]
<1>1. run.steps \in [Steps -> StepRecord] /\ LeaseIsOpenAttempt(run.steps[s])
  BY DEF ClaimsInv, RowsInv, SoundRow, Row
<1>2. n \in Nat \ {0} /\ new.attempts \in Nat \ {0}
  BY ClaimRow DEF ClaimsInv
<1>3. new \in StepRecord
  <2>1. run.steps[s].status # "Running"
    BY DEF ClaimStep, Grant, Claimable, Available
  <2> HIDE DEF n
  <2> QED
    BY <1>1, <1>2, <2>1, StartAttemptFenced
<1>4. claim.input \in UNION {[D -> Outputs \cup {NoOutput}] : D \in SUBSET Steps}
  <2>1. Deps[s] \in SUBSET Steps
    BY WorkflowAssumption
  <2>2. \A d \in Deps[s] : run.steps[d].output \in Outputs \cup {NoOutput}
    BY <1>1, <2>1 DEF StepRecord
  <2>3. claim.input \in [Deps[s] -> Outputs \cup {NoOutput}]
    BY <2>2
  <2> QED
    BY <2>1, <2>3
<1>5. claims' = claims \cup {claim}
  BY DEF ClaimStep
<1>6. new.task \in Tasks /\ new.fallbackUsed \in BOOLEAN
  BY <1>3 DEF StepRecord
<1> HIDE DEF new, n
<1>7. claim \in ClaimOn(Runs)
  BY <1>2, <1>4, <1>6 DEF ClaimOn
<1> HIDE DEF claim
<1> QED
  BY <1>5, <1>7 DEF ClaimsInv

\* A caller that holds a lease holds one of a stored row's running steps.
LEMMA HolderRow ==
    ASSUME ClaimsInv, NEW c \in claims, HoldsLease(c)
    PROVE  LET rec == rows[c.run].steps[c.step]
           IN  /\ c.run \in Runs /\ c.step \in Steps /\ c.attempt \in Nat
               /\ Stored(c.run) /\ SoundRow(rows[c.run])
               /\ rec \in StepRecord /\ LeaseIsOpenAttempt(rec)
               /\ rec.lease # NoLease /\ rec.status = "Running"
<1>1. /\ c.run \in Runs /\ c.step \in Steps /\ c.worker \in Workers /\ c.attempt \in Nat
  BY DEF ClaimsInv, ClaimOn
<1>2. SoundRow(rows[c.run]) /\ Stored(c.run)
  BY <1>1 DEF ClaimsInv, RowsInv, HoldsLease, Loads
<1>3. rows[c.run].steps[c.step] \in StepRecord /\ LeaseIsOpenAttempt(rows[c.run].steps[c.step])
  BY <1>1, <1>2 DEF SoundRow, Row
<1>4. rows[c.run].steps[c.step].lease # NoLease
  BY <1>1, NullsAssumption DEF HoldsLease, NoLease
<1> QED
  BY <1>1, <1>2, <1>3, <1>4 DEF LeaseIsOpenAttempt

\* A record whose lease or backoff moved has the attempts it had.
LEMMA TimedRow ==
    ASSUME NEW run, SoundRow(run), NEW s \in Steps, NEW rec \in StepRecord,
           LeaseIsOpenAttempt(rec), rec.history = run.steps[s].history,
           rec.attempts = run.steps[s].attempts
    PROVE  LET new == [run EXCEPT !.steps[s] = rec]
           IN  /\ SoundRow(new) /\ SameRun(run, new) /\ new.log = run.log
               /\ new.steps = [run.steps EXCEPT ![s] = rec]
               /\ NextLeaseToken(new) = NextLeaseToken(run)
<1> DEFINE new == [run EXCEPT !.steps[s] = rec]
<1>1. /\ SoundRow(new) /\ SameRun(run, new) /\ new.log = run.log
      /\ new.steps = [run.steps EXCEPT ![s] = rec]
  BY StepReplaced DEF SameRun
<1> HIDE DEF new
<1>2. ASSUME NEW t \in Steps PROVE SameIdentities(run.steps[t], new.steps[t])
  <2>1. run.steps \in [Steps -> StepRecord] /\ run.steps[t] \in StepRecord
    BY DEF SoundRow, Row
  <2>2. new.steps[t] = IF t = s THEN rec ELSE run.steps[t]
    BY <1>1, <2>1
  <2>3. rec.history \in Seq(Attempt) /\ run.steps[t].history \in Seq(Attempt)
    BY <2>1 DEF StepRecord
  <2> QED
    BY <2>2, <2>3 DEF SameIdentities
<1>3. NextLeaseToken(new) = NextLeaseToken(run)
  BY <1>1, <1>2, SameTokens DEF SameAttempts
<1> QED
  BY <1>1, <1>3 DEF new

\* Renewal, and time on a lease.
LEMMA LeaseMoved ==
    ASSUME NEW run, SoundRow(run), NEW s \in Steps, run.steps[s].lease # NoLease,
           NEW left \in 0..LeaseTicks
    PROVE  LET new == [run EXCEPT !.steps[s].lease.left = left]
           IN  /\ SoundRow(new) /\ SameRun(run, new) /\ new.log = run.log
               /\ new.steps = [run.steps EXCEPT ![s].lease.left = left]
               /\ NextLeaseToken(new) = NextLeaseToken(run)
<1> DEFINE rec == [run.steps[s] EXCEPT !.lease.left = left]
<1>1. run.steps[s] \in StepRecord /\ LeaseIsOpenAttempt(run.steps[s])
  BY DEF SoundRow, Row
<1>2. /\ rec \in StepRecord /\ LeaseIsOpenAttempt(rec)
      /\ rec.history = run.steps[s].history /\ rec.attempts = run.steps[s].attempts
  <2>1. rec.history = run.steps[s].history
    BY <1>1 DEF StepRecord
  <2> QED
    BY <1>1, <2>1, LeaseTimeChanged
<1>3. /\ [run EXCEPT !.steps[s].lease.left = left] = [run EXCEPT !.steps[s] = rec]
      /\ [run.steps EXCEPT ![s].lease.left = left] = [run.steps EXCEPT ![s] = rec]
  OBVIOUS
<1> HIDE DEF rec
<1> QED
  BY <1>2, <1>3, TimedRow

\* A backoff that elapses.
LEMMA BackoffMoved ==
    ASSUME NEW run, SoundRow(run), NEW s \in Steps, NEW b \in Backoff
    PROVE  LET new == [run EXCEPT !.steps[s].backoff = b]
           IN  /\ SoundRow(new) /\ SameRun(run, new) /\ new.log = run.log
               /\ new.steps = [run.steps EXCEPT ![s].backoff = b]
               /\ NextLeaseToken(new) = NextLeaseToken(run)
<1> DEFINE rec == [run.steps[s] EXCEPT !.backoff = b]
<1>1. run.steps[s] \in StepRecord /\ LeaseIsOpenAttempt(run.steps[s])
  BY DEF SoundRow, Row
<1>2. /\ rec \in StepRecord /\ LeaseIsOpenAttempt(rec)
      /\ rec.history = run.steps[s].history /\ rec.attempts = run.steps[s].attempts
  <2>1. rec.history = run.steps[s].history
    BY <1>1 DEF StepRecord
  <2> QED
    BY <1>1, <2>1, BackoffChanged
<1>3. /\ [run EXCEPT !.steps[s].backoff = b] = [run EXCEPT !.steps[s] = rec]
      /\ [run.steps EXCEPT ![s].backoff = b] = [run.steps EXCEPT ![s] = rec]
  OBVIOUS
<1> HIDE DEF rec
<1> QED
  BY <1>2, <1>3, TimedRow

\* renew_step.
LEMMA RenewRow ==
    ASSUME ClaimsInv, NEW c \in claims, RenewStep(c)
    PROVE  LET run == [rows[c.run] EXCEPT !.steps[c.step].lease.left = LeaseTicks]
           IN  /\ Rewrites(c.run, run) /\ SameRun(rows[c.run], run)
               /\ run.log = rows[c.run].log
               /\ run.steps = [rows[c.run].steps EXCEPT ![c.step].lease.left = LeaseTicks]
               /\ NextLeaseToken(run) = NextLeaseToken(rows[c.run])
<1> DEFINE old == rows[c.run]
           run == [old EXCEPT !.steps[c.step].lease.left = LeaseTicks]
<1>1. /\ c.run \in Runs /\ c.step \in Steps /\ Stored(c.run) /\ SoundRow(old)
      /\ old.steps[c.step].lease # NoLease
  BY HolderRow DEF RenewStep
<1>2. LeaseTicks \in 0..LeaseTicks
  BY CountsAssumption
<1>3. rows' = [rows EXCEPT ![c.run] = run]
  BY DEF RenewStep, Persist
<1> HIDE DEF old
<1>4. /\ SoundRow(run) /\ SameRun(old, run) /\ run.log = old.log
      /\ run.steps = [old.steps EXCEPT ![c.step].lease.left = LeaseTicks]
      /\ NextLeaseToken(run) = NextLeaseToken(old)
  BY <1>1, <1>2, LeaseMoved DEF old
<1> HIDE DEF run
<1> QED
  BY <1>1, <1>3, <1>4 DEF Rewrites, SameRun, Stored, old, run

\* A tick of one lease.
LEMMA TickRow ==
    ASSUME RowsInv, NEW r \in Runs, NEW s \in Steps, LeaseTicksDown(r, s)
    PROVE  LET left == rows[r].steps[s].lease.left - 1
               run  == [rows[r] EXCEPT !.steps[s].lease.left = left]
           IN  /\ Rewrites(r, run) /\ SameRun(rows[r], run) /\ run.log = rows[r].log
               /\ run.steps = [rows[r].steps EXCEPT ![s].lease.left = left]
               /\ NextLeaseToken(run) = NextLeaseToken(rows[r])
<1> DEFINE old  == rows[r]
           left == old.steps[s].lease.left - 1
           run  == [old EXCEPT !.steps[s].lease.left = left]
<1>1. SoundRow(old) /\ old.steps[s] \in StepRecord
  BY DEF RowsInv, SoundRow, Row
<1>2. old.steps[s].lease # NoLease /\ old.steps[s].lease.left > 0
  BY DEF LeaseTicksDown
<1>3. Stored(r)
  BY <1>2 DEF RowsInv, NoRow, NewStep
<1>4. left \in 0..LeaseTicks
  <2>1. old.steps[s].lease \in Lease
    BY <1>1, <1>2 DEF StepRecord
  <2>2. old.steps[s].lease.left \in 0..LeaseTicks
    BY <2>1 DEF Lease
  <2> HIDE DEF old
  <2> QED
    BY <1>2, <2>2, CountsAssumption
<1>5. rows' = [rows EXCEPT ![r] = run]
  BY DEF LeaseTicksDown
<1> HIDE DEF left
<1>6. /\ SoundRow(run) /\ SameRun(old, run) /\ run.log = old.log
      /\ run.steps = [old.steps EXCEPT ![s].lease.left = left]
      /\ NextLeaseToken(run) = NextLeaseToken(old)
  BY <1>1, <1>2, <1>4, LeaseMoved
<1> HIDE DEF run
<1>7. Rewrites(r, run)
  BY <1>3, <1>5, <1>6 DEF Rewrites, SameRun, Stored
<1> QED
  BY <1>6, <1>7 DEF run, left

\* The end of one backoff.
LEMMA ElapseRow ==
    ASSUME RowsInv, NEW r \in Runs, NEW s \in Steps, BackoffElapses(r, s)
    PROVE  LET run == [rows[r] EXCEPT !.steps[s].backoff = "Elapsed"]
           IN  /\ Rewrites(r, run) /\ SameRun(rows[r], run) /\ run.log = rows[r].log
               /\ run.steps = [rows[r].steps EXCEPT ![s].backoff = "Elapsed"]
               /\ NextLeaseToken(run) = NextLeaseToken(rows[r])
<1> DEFINE old == rows[r]
           run == [old EXCEPT !.steps[s].backoff = "Elapsed"]
<1>1. SoundRow(old) /\ "Elapsed" \in Backoff
  BY DEF RowsInv, Backoff
<1>2. Stored(r)
  BY DEF BackoffElapses, RowsInv, NoRow, NewStep
<1>3. rows' = [rows EXCEPT ![r] = run]
  BY DEF BackoffElapses
<1>4. /\ SoundRow(run) /\ SameRun(old, run) /\ run.log = old.log
      /\ run.steps = [old.steps EXCEPT ![s].backoff = "Elapsed"]
      /\ NextLeaseToken(run) = NextLeaseToken(old)
  BY <1>1, BackoffMoved
<1> HIDE DEF run
<1>5. Rewrites(r, run)
  BY <1>2, <1>3, <1>4 DEF Rewrites, SameRun, Stored
<1> QED
  BY <1>4, <1>5 DEF run

\* A lease that has longer to run once the clock is set back.
LEMMA ReviveRow ==
    ASSUME RowsInv, NEW r \in Runs, NEW s \in Steps, LeaseRevives(r, s)
    PROVE  LET left == rows[r].steps[s].lease.left + 1
               run  == [rows[r] EXCEPT !.steps[s].lease.left = left]
           IN  /\ Rewrites(r, run) /\ SameRun(rows[r], run) /\ run.log = rows[r].log
               /\ run.steps = [rows[r].steps EXCEPT ![s].lease.left = left]
               /\ NextLeaseToken(run) = NextLeaseToken(rows[r])
<1> DEFINE old  == rows[r]
           left == old.steps[s].lease.left + 1
           run  == [old EXCEPT !.steps[s].lease.left = left]
<1>1. SoundRow(old) /\ old.steps[s] \in StepRecord
  BY DEF RowsInv, SoundRow, Row
<1>2. old.steps[s].lease # NoLease /\ old.steps[s].lease.left < LeaseTicks
  BY DEF LeaseRevives
<1>3. Stored(r)
  BY <1>2 DEF RowsInv, NoRow, NewStep
<1>4. left \in 0..LeaseTicks
  <2>1. old.steps[s].lease \in Lease
    BY <1>1, <1>2 DEF StepRecord
  <2>2. old.steps[s].lease.left \in 0..LeaseTicks
    BY <2>1 DEF Lease
  <2> HIDE DEF old
  <2> QED
    BY <1>2, <2>2, CountsAssumption
<1>5. rows' = [rows EXCEPT ![r] = run]
  BY DEF LeaseRevives
<1> HIDE DEF left
<1>6. /\ SoundRow(run) /\ SameRun(old, run) /\ run.log = old.log
      /\ run.steps = [old.steps EXCEPT ![s].lease.left = left]
      /\ NextLeaseToken(run) = NextLeaseToken(old)
  BY <1>1, <1>2, <1>4, LeaseMoved
<1> HIDE DEF run
<1>7. Rewrites(r, run)
  BY <1>3, <1>5, <1>6 DEF Rewrites, SameRun, Stored
<1> QED
  BY <1>6, <1>7 DEF run, left

\* A backoff that is pending again once the clock is set back.
LEMMA ReturnRow ==
    ASSUME RowsInv, NEW r \in Runs, NEW s \in Steps, BackoffReturns(r, s)
    PROVE  LET run == [rows[r] EXCEPT !.steps[s].backoff = "Pending"]
           IN  /\ Rewrites(r, run) /\ SameRun(rows[r], run) /\ run.log = rows[r].log
               /\ run.steps = [rows[r].steps EXCEPT ![s].backoff = "Pending"]
               /\ NextLeaseToken(run) = NextLeaseToken(rows[r])
<1> DEFINE old == rows[r]
           run == [old EXCEPT !.steps[s].backoff = "Pending"]
<1>1. SoundRow(old) /\ "Pending" \in Backoff
  BY DEF RowsInv, Backoff
<1>2. Stored(r)
  BY DEF BackoffReturns, RowsInv, NoRow, NewStep
<1>3. rows' = [rows EXCEPT ![r] = run]
  BY DEF BackoffReturns
<1>4. /\ SoundRow(run) /\ SameRun(old, run) /\ run.log = old.log
      /\ run.steps = [old.steps EXCEPT ![s].backoff = "Pending"]
      /\ NextLeaseToken(run) = NextLeaseToken(old)
  BY <1>1, BackoffMoved
<1> HIDE DEF run
<1>5. Rewrites(r, run)
  BY <1>2, <1>3, <1>4 DEF Rewrites, SameRun, Stored
<1> QED
  BY <1>4, <1>5 DEF run

\* An appended event changes the log and the sequence, and nothing else.
LEMMA EventAppended ==
    ASSUME NEW run, SoundRow(run), NEW e \in Event
    PROVE  LET new == AppendRunEvent(run, e)
           IN  /\ SoundRow(new) /\ SameRun(run, new) /\ new.steps = run.steps
               /\ new.log = Append(run.log, [sequence |-> LastSequence(run) + 1, event |-> e])
               /\ LastSequence(new) = LastSequence(run) + 1
               /\ NextLeaseToken(new) = NextLeaseToken(run)
<1> DEFINE new == AppendRunEvent(run, e)
<1>1. run \in Row
  BY DEF SoundRow
<1>2. /\ new \in Row /\ SameRun(run, new) /\ new.steps = run.steps
      /\ new.log = Append(run.log, [sequence |-> LastSequence(run) + 1, event |-> e])
      /\ LastSequence(new) = LastSequence(run) + 1
  BY <1>1, AppendedRow DEF SameRun
<1> HIDE DEF new
<1>3. SoundRow(new)
  BY <1>2 DEF SoundRow
<1>4. NextLeaseToken(new) = NextLeaseToken(run)
  BY <1>2 DEF NextLeaseToken, TokensOf
<1> QED
  BY <1>2, <1>3, <1>4 DEF new

\* complete_step.
LEMMA CompleteRow ==
    ASSUME ClaimsInv, NEW c \in claims, NEW k \in StepCompletion, CompleteStep(c, k)
    PROVE  LET old == rows[c.run]
               new == EndAttempt(c.step, old.steps[c.step], k.kind, k.output, k.backoff)
               e   == StepEvent(k.kind, c.step, c.attempt)
               run == AppendRunEvent([old EXCEPT !.steps[c.step] = new], e)
           IN  /\ Rewrites(c.run, run) /\ SameRun(old, run)
               /\ run.steps = [old.steps EXCEPT ![c.step] = new]
               /\ run.log = Append(old.log, [sequence |-> LastSequence(old) + 1, event |-> e])
               /\ LastSequence(run) = LastSequence(old) + 1
               /\ NextLeaseToken(run) = NextLeaseToken(old)
<1> DEFINE old == rows[c.run]
           rec == old.steps[c.step]
           new == EndAttempt(c.step, rec, k.kind, k.output, k.backoff)
           e   == StepEvent(k.kind, c.step, c.attempt)
           mid == [old EXCEPT !.steps[c.step] = new]
           run == AppendRunEvent(mid, e)
<1>1. /\ c.run \in Runs /\ c.step \in Steps /\ c.attempt \in Nat
      /\ Stored(c.run) /\ SoundRow(old)
      /\ rec \in StepRecord /\ LeaseIsOpenAttempt(rec)
  BY HolderRow DEF CompleteStep
<1>2. k.kind \in CompletionKinds /\ k.output \in Outputs \cup {NoOutput} /\ k.backoff \in Backoff
  BY DEF StepCompletion, CompletionKinds, StepEventKinds, Announces, Backoff
<1>3. k.kind = "StepFallbackSelected" => Fallback[c.step] # NoTask
  BY DEF CompleteStep, CompletionMatchesClaim
<1>4. rows' = [rows EXCEPT ![c.run] = run]
  BY DEF CompleteStep, Persist
<1>5. e \in Event
  BY <1>1, <1>2, StepEventType DEF CompletionKinds
<1> HIDE DEF old, rec, e
<1>6. new \in StepRecord /\ LeaseIsOpenAttempt(new) /\ SameIdentities(rec, new)
  BY <1>1, <1>2, <1>3, EndAttemptType, EndAttemptFenced, EndKeepsIdentities
<1> HIDE DEF new
<1>7. /\ SoundRow(mid) /\ SameRun(old, mid) /\ mid.log = old.log
      /\ mid.steps = [old.steps EXCEPT ![c.step] = new]
  BY <1>1, <1>6, StepReplaced DEF SameRun
<1> HIDE DEF mid
<1>8. NextLeaseToken(mid) = NextLeaseToken(old)
  <2>1. ASSUME NEW t \in Steps PROVE SameIdentities(old.steps[t], mid.steps[t])
    <3>1. old.steps \in [Steps -> StepRecord] /\ old.steps[t].history \in Seq(Attempt)
      BY <1>1 DEF SoundRow, Row, StepRecord
    <3>2. mid.steps[t] = IF t = c.step THEN new ELSE old.steps[t]
      BY <1>7, <3>1
    <3> QED
      BY <1>6, <3>1, <3>2 DEF SameIdentities, rec
  <2> QED
    BY <1>1, <1>7, <2>1, SameTokens DEF SameAttempts
<1>9. LastSequence(mid) = LastSequence(old)
  BY <1>7 DEF LastSequence
<1>10. /\ SoundRow(run) /\ SameRun(mid, run) /\ run.steps = mid.steps
       /\ run.log = Append(mid.log, [sequence |-> LastSequence(mid) + 1, event |-> e])
       /\ LastSequence(run) = LastSequence(mid) + 1
       /\ NextLeaseToken(run) = NextLeaseToken(mid)
  BY <1>5, <1>7, EventAppended
<1> HIDE DEF run
<1>11. SameRun(old, run)
  BY <1>7, <1>10 DEF SameRun
<1>12. Rewrites(c.run, run)
  BY <1>1, <1>4, <1>10, <1>11 DEF Rewrites, SameRun, Stored, old
<1>13. /\ run.steps = [old.steps EXCEPT ![c.step] = new]
       /\ run.log = Append(old.log, [sequence |-> LastSequence(old) + 1, event |-> e])
       /\ LastSequence(run) = LastSequence(old) + 1
       /\ NextLeaseToken(run) = NextLeaseToken(old)
  BY <1>7, <1>8, <1>9, <1>10
<1> QED
  BY <1>11, <1>12, <1>13 DEF run, mid, new, e, rec, old

\* record_event.
LEMMA EventRow ==
    ASSUME RowsInv, NEW r \in Runs, NEW e \in StepEventsOf(rows[r]) \cup RunEventsOf,
           RecordEvent(r, e)
    PROVE  LET old == rows[r]
               run == AppendRunEvent(old, e)
           IN  /\ e \in Event /\ Rewrites(r, run) /\ SameRun(old, run)
               /\ run.steps = old.steps
               /\ run.log = Append(old.log, [sequence |-> LastSequence(old) + 1, event |-> e])
               /\ LastSequence(run) = LastSequence(old) + 1
               /\ NextLeaseToken(run) = NextLeaseToken(old)
<1> DEFINE old == rows[r]
           run == AppendRunEvent(old, e)
<1>1. SoundRow(old) /\ Stored(r) /\ rows' = [rows EXCEPT ![r] = run]
  BY DEF RowsInv, RecordEvent, Loads, Persist
<1>2. e \in Event
  <2>1. CASE e \in StepEventsOf(rows[r])
    <3>1. PICK kind \in StepEventKinds, s \in Steps :
              e = StepEvent(kind, s, rows[r].steps[s].attempts)
      BY <2>1 DEF StepEventsOf
    <3>2. rows[r].steps[s].attempts \in Nat
      BY <1>1 DEF SoundRow, Row, StepRecord
    <3> QED
      BY <3>1, <3>2, StepEventType
  <2>2. CASE e \in RunEventsOf
    BY <2>2, RunEventType DEF RunEventsOf, RunStatuses, Terminal
  <2> QED
    BY <2>1, <2>2
<1>3. /\ SoundRow(run) /\ SameRun(old, run) /\ run.steps = old.steps
      /\ run.log = Append(old.log, [sequence |-> LastSequence(old) + 1, event |-> e])
      /\ LastSequence(run) = LastSequence(old) + 1
      /\ NextLeaseToken(run) = NextLeaseToken(old)
  BY <1>1, <1>2, EventAppended
<1> HIDE DEF run
<1>4. Rewrites(r, run)
  BY <1>1, <1>3 DEF Rewrites, SameRun, Stored
<1> QED
  BY <1>2, <1>3, <1>4 DEF run

\* What finish_run and cancel_run put into a row before they append the event.
LEMMA SettledRow ==
    ASSUME NEW run, SoundRow(run), NEW new \in Row, new.log = run.log,
           \A s \in Steps : /\ LeaseIsOpenAttempt(new.steps[s])
                            /\ SameIdentities(run.steps[s], new.steps[s])
    PROVE  /\ SoundRow(new)
           /\ LastSequence(new) = LastSequence(run)
           /\ NextLeaseToken(new) = NextLeaseToken(run)
<1>1. SoundRow(new) /\ SameAttempts(run, new)
  BY DEF SoundRow, SameAttempts
<1>2. NextLeaseToken(new) = NextLeaseToken(run)
  BY <1>1, SameTokens
<1>3. LastSequence(new) = LastSequence(run)
  BY DEF LastSequence
<1> QED
  BY <1>1, <1>2, <1>3

\* Steps nobody wrote keep their tokens.
LEMMA SameSteps ==
    ASSUME NEW run, SoundRow(run)
    PROVE  /\ run.steps \in [Steps -> StepRecord]
           /\ \A s \in Steps : /\ LeaseIsOpenAttempt(run.steps[s])
                               /\ SameIdentities(run.steps[s], run.steps[s])
<1>1. run.steps \in [Steps -> StepRecord]
  BY DEF SoundRow, Row
<1> QED
  BY <1>1 DEF SoundRow, SameIdentities, StepRecord

\* finish_run.
LEMMA FinishRow ==
    ASSUME RowsInv, NEW r \in Runs, NEW pass \in BOOLEAN, NEW finite \in BOOLEAN,
           FinishRun(r, pass, finite)
    PROVE  \E run :
               LET old     == rows[r]
                   verdict == Verdict([old EXCEPT !.gatesPassed = pass], pass)
               IN  /\ Rewrites(r, run) /\ run.steps = old.steps
                   /\ run.status = verdict /\ run.gatesPassed = pass
                   /\ NextLeaseToken(run) = NextLeaseToken(old)
                   /\ \/ /\ verdict = old.status /\ run.log = old.log
                         /\ LastSequence(run) = LastSequence(old)
                      \/ /\ verdict # old.status
                         /\ Cardinality(FinishEvents(old)) < MaxFinishEvents
                         /\ run.log = Append(old.log, [sequence |-> LastSequence(old) + 1,
                                                       event |-> RunEvent("RunFinished", verdict)])
                         /\ LastSequence(run) = LastSequence(old) + 1
<1> DEFINE old     == rows[r]
           mid     == [old EXCEPT !.gatesPassed = pass]
           verdict == Verdict(mid, pass)
           ended   == [mid EXCEPT !.status = verdict]
           event   == RunEvent("RunFinished", verdict)
<1>1. SoundRow(old) /\ Stored(r) /\ old \in Row
  BY DEF RowsInv, SoundRow, FinishRun, Loads
<1>2. verdict \in RunStatuses \ {"Absent"}
  <2>1. mid.status = old.status /\ old.status \in RunStatuses \ {"Absent"}
    BY <1>1 DEF Row, Stored
  <2> HIDE DEF mid
  <2>2. verdict \in {"Failed", "Succeeded", mid.status}
    BY DEF Verdict
  <2> QED
    BY <2>1, <2>2 DEF RunStatuses, Terminal
<1>3. event \in Event
  BY <1>2, RunEventType
<1>4. \/ verdict = mid.status /\ rows' = [rows EXCEPT ![r] = mid]
      \/ /\ verdict # mid.status
         /\ Cardinality(FinishEvents(old)) < MaxFinishEvents
         /\ rows' = [rows EXCEPT ![r] = AppendRunEvent(ended, event)]
  BY DEF FinishRun, Persist
<1>5. mid.status = old.status
  BY <1>1 DEF Row
<1>6. /\ mid = [old EXCEPT !.status = old.status, !.gatesPassed = pass, !.steps = old.steps]
      /\ ended = [old EXCEPT !.status = verdict, !.gatesPassed = pass, !.steps = old.steps]
  <2> HIDE DEF verdict
  <2> QED
    BY <1>1 DEF Row
<1> HIDE DEF verdict, mid, ended, event
<1>7. /\ old.steps \in [Steps -> StepRecord]
      /\ \A s \in Steps : /\ LeaseIsOpenAttempt(old.steps[s])
                          /\ SameIdentities(old.steps[s], old.steps[s])
      /\ old.status \in RunStatuses
  BY <1>1, SameSteps DEF Row
<1> DEFINE settled(st) == [old EXCEPT !.status = st, !.gatesPassed = pass, !.steps = old.steps]
<1> HIDE DEF old
<1>8. ASSUME NEW st \in RunStatuses, NEW new, new = settled(st)
      PROVE  /\ SoundRow(new) /\ new.status = st /\ new.gatesPassed = pass
             /\ new.steps = old.steps /\ new.log = old.log
             /\ new.key = old.key /\ new.payload = old.payload
             /\ LastSequence(new) = LastSequence(old)
             /\ NextLeaseToken(new) = NextLeaseToken(old)
  <2>1. /\ new \in Row /\ new.status = st /\ new.gatesPassed = pass
        /\ new.steps = old.steps /\ new.log = old.log
        /\ new.key = old.key /\ new.payload = old.payload
    BY <1>1, <1>8 DEF Row
  <2>2. /\ SoundRow(new) /\ LastSequence(new) = LastSequence(old)
        /\ NextLeaseToken(new) = NextLeaseToken(old)
    BY <1>1, <1>7, <2>1, SettledRow
  <2> QED
    BY <2>1, <2>2
<1>9. mid = settled(old.status) /\ ended = settled(verdict)
  BY <1>6
<1> HIDE DEF settled
<1>10. CASE verdict = old.status
  <2>1. /\ SoundRow(mid) /\ mid.status = verdict /\ mid.gatesPassed = pass
        /\ mid.steps = old.steps /\ mid.log = old.log
        /\ mid.key = old.key /\ mid.payload = old.payload
        /\ LastSequence(mid) = LastSequence(old)
        /\ NextLeaseToken(mid) = NextLeaseToken(old)
    BY <1>7, <1>8, <1>9, <1>10
  <2>2. Rewrites(r, mid)
    BY <1>1, <1>2, <1>4, <1>5, <1>10, <2>1 DEF Rewrites, old
  <2> QED
    BY <1>10, <2>1, <2>2 DEF verdict, mid, old
<1>11. CASE verdict # old.status
  <2> DEFINE run == AppendRunEvent(ended, event)
  <2>1. /\ SoundRow(ended) /\ ended.status = verdict /\ ended.gatesPassed = pass
        /\ ended.steps = old.steps /\ ended.log = old.log
        /\ ended.key = old.key /\ ended.payload = old.payload
        /\ LastSequence(ended) = LastSequence(old)
        /\ NextLeaseToken(ended) = NextLeaseToken(old)
    BY <1>2, <1>8, <1>9
  <2>2. /\ SoundRow(run) /\ SameRun(ended, run) /\ run.steps = ended.steps
        /\ run.log = Append(ended.log, [sequence |-> LastSequence(ended) + 1, event |-> event])
        /\ LastSequence(run) = LastSequence(ended) + 1
        /\ NextLeaseToken(run) = NextLeaseToken(ended)
    BY <1>3, <2>1, EventAppended
  <2> HIDE DEF run
  <2>3. Rewrites(r, run)
    BY <1>1, <1>2, <1>4, <1>5, <1>11, <2>1, <2>2 DEF Rewrites, SameRun, run, old
  <2>4. Cardinality(FinishEvents(old)) < MaxFinishEvents
    BY <1>4, <1>5, <1>11
  <2>5. run.status = verdict /\ run.gatesPassed = pass /\ run.steps = old.steps
    BY <2>1, <2>2 DEF SameRun
  <2>6. /\ run.log = Append(old.log, [sequence |-> LastSequence(old) + 1, event |-> event])
        /\ LastSequence(run) = LastSequence(old) + 1
        /\ NextLeaseToken(run) = NextLeaseToken(old)
    BY <2>1, <2>2
  <2> QED
    BY <1>11, <2>3, <2>4, <2>5, <2>6 DEF verdict, mid, event, old
<1> QED
  BY <1>10, <1>11

\* cancel_run.
LEMMA CancelRow ==
    ASSUME RowsInv, NEW r \in Runs, CancelRun(r)
    PROVE  \E run :
               LET old == rows[r]
               IN  /\ Rewrites(r, run)
                   /\ run.steps = [s \in Steps |-> CancelStep(old.steps[s])]
                   /\ run.status = "Cancelled" /\ run.gatesPassed = old.gatesPassed
                   /\ run.log = Append(old.log, [sequence |-> LastSequence(old) + 1,
                                                 event |-> RunEvent("RunFinished", "Cancelled")])
                   /\ LastSequence(run) = LastSequence(old) + 1
                   /\ NextLeaseToken(run) = NextLeaseToken(old)
<1> DEFINE old   == rows[r]
           steps == [s \in Steps |-> CancelStep(old.steps[s])]
           mid   == [old EXCEPT !.status = "Cancelled", !.steps = steps]
           event == RunEvent("RunFinished", "Cancelled")
           run   == AppendRunEvent(mid, event)
<1>1. SoundRow(old) /\ Stored(r) /\ old \in Row
  BY DEF RowsInv, SoundRow, CancelRun, Loads
<1>2. rows' = [rows EXCEPT ![r] = run]
  BY DEF CancelRun, Persist
<1>3. event \in Event
  BY RunEventType DEF RunStatuses, Terminal
<1> HIDE DEF old, event
<1>4. ASSUME NEW s \in Steps
      PROVE  /\ CancelStep(old.steps[s]) \in StepRecord
             /\ LeaseIsOpenAttempt(CancelStep(old.steps[s]))
             /\ SameIdentities(old.steps[s], CancelStep(old.steps[s]))
  <2>1. old.steps[s] \in StepRecord /\ LeaseIsOpenAttempt(old.steps[s])
    BY <1>1 DEF SoundRow, Row
  <2> QED
    BY <2>1, CancelStepFenced, CancelKeepsIdentities
<1>5. steps \in [Steps -> StepRecord] /\ \A s \in Steps : steps[s] = CancelStep(old.steps[s])
  BY <1>4
<1> HIDE DEF steps
<1>6. /\ mid \in Row /\ mid.status = "Cancelled" /\ mid.gatesPassed = old.gatesPassed
      /\ mid.steps = steps /\ mid.log = old.log
      /\ mid.key = old.key /\ mid.payload = old.payload
  BY <1>1, <1>5 DEF Row, RunStatuses, Terminal
<1> HIDE DEF mid
<1>7. /\ SoundRow(mid) /\ LastSequence(mid) = LastSequence(old)
      /\ NextLeaseToken(mid) = NextLeaseToken(old)
  BY <1>1, <1>4, <1>5, <1>6, SettledRow
<1>8. /\ SoundRow(run) /\ SameRun(mid, run) /\ run.steps = mid.steps
      /\ run.log = Append(mid.log, [sequence |-> LastSequence(mid) + 1, event |-> event])
      /\ LastSequence(run) = LastSequence(mid) + 1
      /\ NextLeaseToken(run) = NextLeaseToken(mid)
  BY <1>3, <1>7, EventAppended
<1> HIDE DEF run
<1>9. Rewrites(r, run)
  BY <1>1, <1>2, <1>6, <1>8 DEF Rewrites, SameRun, old
<1>10. /\ run.steps = steps /\ run.status = "Cancelled" /\ run.gatesPassed = old.gatesPassed
       /\ run.log = Append(old.log, [sequence |-> LastSequence(old) + 1, event |-> event])
       /\ LastSequence(run) = LastSequence(old) + 1
       /\ NextLeaseToken(run) = NextLeaseToken(old)
  BY <1>6, <1>7, <1>8 DEF SameRun
<1> QED
  BY <1>9, <1>10 DEF steps, event, old

\* A new row starts empty, with its first event.
LEMMA NewRow ==
    ASSUME NEW key \in Keys \cup {NoKey}, NEW payload \in Payloads
    PROVE  LET run == AppendRunEvent(
                          [NoRow EXCEPT !.status = "Running", !.key = key, !.payload = payload],
                          RunEvent("RunStarted", "Running"))
           IN  /\ SoundRow(run) /\ run.status = "Running" /\ run.key = key /\ run.payload = payload
               /\ run.steps = NoRow.steps /\ run.gatesPassed = NoRow.gatesPassed
               /\ run.log = Append(<<>>, [sequence |-> 1,
                                          event |-> RunEvent("RunStarted", "Running")])
               /\ LastSequence(NoRow) = 0 /\ LastSequence(run) = 1
               /\ NextLeaseToken(run) = NextLeaseToken(NoRow)
<1> DEFINE mid   == [NoRow EXCEPT !.status = "Running", !.key = key, !.payload = payload]
           event == RunEvent("RunStarted", "Running")
           run   == AppendRunEvent(mid, event)
<1>1. SoundRow(NoRow) /\ NoRow \in Row /\ NoRow.log = <<>>
  BY NoRowSound DEF SoundRow
<1>2. event \in Event
  BY RunEventType DEF RunStatuses
<1> HIDE DEF event
<1>3. /\ mid \in Row /\ mid.status = "Running" /\ mid.key = key /\ mid.payload = payload
      /\ mid.steps = NoRow.steps /\ mid.gatesPassed = NoRow.gatesPassed /\ mid.log = NoRow.log
  BY <1>1 DEF Row, RunStatuses
<1> HIDE DEF mid
<1>4. \A s \in Steps : /\ LeaseIsOpenAttempt(NoRow.steps[s])
                       /\ SameIdentities(NoRow.steps[s], NoRow.steps[s])
  BY <1>1, SameSteps
<1>5. /\ SoundRow(mid) /\ LastSequence(mid) = LastSequence(NoRow)
      /\ NextLeaseToken(mid) = NextLeaseToken(NoRow)
  BY <1>1, <1>3, <1>4, SettledRow
<1>6. /\ SoundRow(run) /\ SameRun(mid, run) /\ run.steps = mid.steps
      /\ run.log = Append(mid.log, [sequence |-> LastSequence(mid) + 1, event |-> event])
      /\ LastSequence(run) = LastSequence(mid) + 1
      /\ NextLeaseToken(run) = NextLeaseToken(mid)
  BY <1>2, <1>5, EventAppended
<1>7. LastSequence(NoRow) = 0
  BY <1>1 DEF LastSequence
<1> HIDE DEF run
<1>8. /\ SoundRow(run) /\ run.status = "Running" /\ run.key = key /\ run.payload = payload
      /\ run.steps = NoRow.steps /\ run.gatesPassed = NoRow.gatesPassed
      /\ run.log = Append(<<>>, [sequence |-> 1, event |-> event])
      /\ LastSequence(NoRow) = 0 /\ LastSequence(run) = 1
      /\ NextLeaseToken(run) = NextLeaseToken(NoRow)
  BY <1>1, <1>3, <1>5, <1>6, <1>7 DEF SameRun
<1> QED
  BY <1>8 DEF run, mid, event

-----------------------------------------------------------------------------
(* What every operation leaves of the rows *)

\* A row stays what it was created as; one that is not there stays away.
Remains(q) ==
    /\ SoundRow(rows'[q])
    /\ rows'[q].key = rows[q].key /\ rows'[q].payload = rows[q].payload
    /\ Stored(q)' <=> Stored(q)
    /\ ~Stored(q) => rows'[q] = rows[q]
RowsRemain == rows' \in [Runs -> Row] /\ \A q \in Runs : Remains(q)

\* A transaction on one row leaves every other row as it was.
LEMMA RewrittenRemain ==
    ASSUME RowsInv, NEW r \in Runs, NEW run, Rewrites(r, run)
    PROVE  /\ RowsRemain /\ rows'[r] = run
           /\ \A q \in Runs \ {r} : rows'[q] = rows[q]
<1>1. /\ rows' = [rows EXCEPT ![r] = run] /\ run \in Row /\ SoundRow(run)
      /\ Stored(r) /\ run.status # "Absent"
      /\ run.key = rows[r].key /\ run.payload = rows[r].payload
  BY DEF Rewrites, SoundRow
<1>2. /\ rows \in [Runs -> Row] /\ \A q \in Runs : SoundRow(rows[q])
  BY DEF RowsInv
<1>3. rows' \in [Runs -> Row] /\ rows'[r] = run /\ \A q \in Runs \ {r} : rows'[q] = rows[q]
  BY <1>1, <1>2
<1>4. ASSUME NEW q \in Runs PROVE Remains(q)
  BY <1>1, <1>2, <1>3 DEF Remains, Stored
<1> QED
  BY <1>3, <1>4 DEF RowsRemain

\* So does a step that writes no row.
LEMMA UntouchedRemain ==
    ASSUME RowsInv, UNCHANGED rows PROVE RowsRemain
BY DEF RowsInv, RowsRemain, Remains, Stored

\* recover_expired rewrites the rows of its batch, and no other.
LEMMA BatchRemains ==
    ASSUME RowsInv, NEW B \in SUBSET Runs, RecoverExpired(B)
    PROVE  RowsRemain /\ \A q \in Runs : rows'[q] = IF q \in B THEN Recovered(rows[q]) ELSE rows[q]
<1>1. /\ \A q \in B : Stored(q)
      /\ rows' = [r \in Runs |-> IF r \in B THEN Recovered(rows[r]) ELSE rows[r]]
  BY DEF RecoverExpired, Loads
<1>2. \A q \in Runs : rows'[q] = IF q \in B THEN Recovered(rows[q]) ELSE rows[q]
  BY <1>1
<1>3. ASSUME NEW q \in Runs PROVE Remains(q) /\ rows'[q] \in Row
  <2>1. SoundRow(rows[q])
    BY DEF RowsInv
  <2>2. SoundRow(Recovered(rows[q])) /\ SameRun(rows[q], Recovered(rows[q]))
    BY <2>1, RecoveredRow
  <2>3. CASE q \in B
    BY <1>1, <1>2, <2>2, <2>3 DEF Remains, SameRun, Stored, SoundRow
  <2>4. CASE q \notin B
    BY <1>2, <2>1, <2>4 DEF Remains, Stored, SoundRow
  <2> QED
    BY <2>3, <2>4
<1>4. rows' \in [Runs -> Row]
  BY <1>1, <1>3
<1> QED
  BY <1>2, <1>3, <1>4 DEF RowsRemain

-----------------------------------------------------------------------------
(* The scan order *)

\* Touched rows go to the end, behind one another by run id.
LEMMA TouchedOrder ==
    ASSUME OrdersStoredRows, NEW B \in SUBSET Runs, Touch(B),
           \A r \in Runs : Stored(r)' <=> Stored(r) \/ r \in B
    PROVE  OrdersStoredRows'
<1> DEFINE stored == {r \in Runs : Stored(r)}
           after  == {r \in Runs : Stored(r)'}
           Old(q, r) == <<q, r>> \in scanOrder
           New(q, r) == <<q, r>> \in scanOrder'
<1>1. after = stored \cup B /\ stored \subseteq after /\ B \subseteq after
  OBVIOUS
<1>2. /\ scanOrder \subseteq stored \X stored
      /\ \A q, r \in stored : q # r => (Old(q, r) <=> ~Old(r, q))
      /\ \A p, q, r \in stored : Old(p, q) /\ Old(q, r) => Old(p, r)
      /\ \A r \in stored : ~Old(r, r)
  BY DEF OrdersStoredRows
<1>3. scanOrder' = {e \in scanOrder : e[1] \notin B /\ e[2] \notin B}
                       \cup ({q \in Runs \ B : Stored(q)} \X B)
                       \cup {e \in B \X B : e[1] < e[2]}
  BY DEF Touch
<1>4. scanOrder' \subseteq after \X after
  BY <1>1, <1>2, <1>3
<1>5. ASSUME NEW q \in after, NEW r \in after
      PROVE  New(q, r) <=> \/ q \notin B /\ r \notin B /\ Old(q, r)
                           \/ q \notin B /\ r \in B
                           \/ q \in B /\ r \in B /\ q < r
  <2>1. q \in Runs /\ r \in Runs /\ (q \notin B => Stored(q))
    BY <1>1
  <2> QED
    BY <1>3, <2>1
<1>6. \A r \in after : r \in Int
  BY DEF Runs
<1>7. \A r \in after : r \notin B => r \in stored
  BY <1>1
<1> HIDE DEF stored, after, Old, New
<1>8. \A q, r \in after : q # r => (New(q, r) <=> ~New(r, q))
  BY <1>2, <1>5, <1>6, <1>7
<1>9. \A p, q, r \in after : New(p, q) /\ New(q, r) => New(p, r)
  <2> SUFFICES ASSUME NEW p \in after, NEW q \in after, NEW r \in after,
                      New(p, q), New(q, r)
               PROVE  New(p, r)
    OBVIOUS
  <2>1. CASE r \notin B
    BY <1>2, <1>5, <1>7, <2>1
  <2>2. CASE r \in B
    BY <1>5, <1>6, <2>2
  <2> QED
    BY <2>1, <2>2
<1>10. \A r \in after : ~New(r, r)
  BY <1>2, <1>5, <1>6, <1>7
<1>11. /\ \A q, r \in after : q # r => (<<q, r>> \in scanOrder' <=> <<r, q>> \notin scanOrder')
       /\ \A p, q, r \in after : <<p, q>> \in scanOrder' /\ <<q, r>> \in scanOrder'
                                     => <<p, r>> \in scanOrder'
       /\ \A r \in after : <<r, r>> \notin scanOrder'
  BY <1>8, <1>9, <1>10 DEF New
<1> QED
  BY <1>4, <1>11 DEF OrdersStoredRows, after

\* A scan returns the ids of rows.
LEMMA CandidatesAreRuns ==
    ASSUME NEW scan \in Candidates PROVE scan \in Seq(Runs)
<1> DEFINE running == {r \in Runs : rows[r].status = "Running"}
           n       == Min({BatchSize, Cardinality(running)})
<1>1. Cardinality(running) \in Nat
  <2>1. IsFiniteSet(Runs)
    BY FS_Interval, TableAssumption DEF Runs
  <2>2. running \in SUBSET Runs
    OBVIOUS
  <2> QED
    BY <2>1, <2>2, FS_Subset, FS_CardinalityType
<1>2. scan \in [1..n -> running]
  BY DEF Candidates, FirstRunning
<1> HIDE DEF running
<1>3. n \in Nat
  <2> DEFINE k == Cardinality(running)
  <2>1. BatchSize \in Nat /\ k \in Nat
    BY <1>1, TableAssumption
  <2> HIDE DEF k
  <2>2. \E x \in {BatchSize, k} : \A y \in {BatchSize, k} : x <= y
    BY <2>1
  <2>3. Min({BatchSize, k}) \in {BatchSize, k}
    BY <2>2 DEF Min
  <2> QED
    BY <2>1, <2>3 DEF k
<1> HIDE DEF n
<1>4. scan \in Seq(running)
  BY <1>2, <1>3, FunctionIsSeq
<1> QED
  BY <1>4 DEF running

-----------------------------------------------------------------------------
(* The inductive invariant *)

\* The rows two inserts have not yet committed collide with no stored row and not
\* with each other, and stored rows share no key.  This is what the primary key,
\* the unique index and the wait of ON CONFLICT guarantee between the statements
\* of create_run, and what OneRunPerKey needs to be preserved by a commit.
Inserted(c) == creating[c].stage = "Inserted"
KeysInv ==
    /\ \A q, r \in Runs :
           Stored(q) /\ Stored(r) /\ rows[q].key = rows[r].key /\ rows[r].key # NoKey => q = r
    /\ \A a \in answered :
           Stored(a.run) /\ rows[a.run].key = a.key /\ rows[a.run].payload = a.payload
    /\ \A c, d \in Clients : c # d /\ Inserted(c) /\ Inserted(d) => ~Collide(creating[c], creating[d])
    /\ \A c \in Clients, q \in Runs :
           Inserted(c) /\ Stored(q) => ~Collide(creating[c], [run |-> q, key |-> rows[q].key])
TableInv == TypeOK /\ RowsInv /\ KeysInv

\* The empty table.
LEMMA InitTable ==
    ASSUME Init PROVE TableInv
<1>1. SoundRow(NoRow) /\ NoRow.status = "Absent" /\ NoRow \in Row
  BY NoRowSound DEF SoundRow
<1>2. \A r \in Runs : rows[r] = NoRow /\ ~Stored(r)
  BY <1>1 DEF Init, Stored
<1>3. RowsInv
  BY <1>1, <1>2 DEF RowsInv, Init
<1>4. OrdersStoredRows
  BY <1>2 DEF OrdersStoredRows, Init
<1>5. NotCreating \in Creating /\ NotCreating.stage # "Inserted"
  BY PayloadsAssumption, TableAssumption DEF NotCreating, Creating, Runs
<1>6. TypeOK
  <2>1. rows \in [Runs -> Row] /\ undecodable \subseteq {r \in Runs : Stored(r)}
    BY <1>3 DEF RowsInv, Init
  <2>2. creating \in [Clients -> Creating] /\ polling \in [Workers -> Seq(Runs)]
    BY <1>5 DEF Init
  <2> QED
    BY <1>4, <2>1, <2>2 DEF TypeOK, Init
<1>7. KeysInv
  <2>1. answered = {} /\ \A c \in Clients : creating[c] = NotCreating
    BY DEF Init
  <2> HIDE DEF NotCreating
  <2> QED
    BY <1>2, <1>5, <2>1 DEF KeysInv, Inserted
<1> QED
  BY <1>3, <1>6, <1>7 DEF TableInv

-----------------------------------------------------------------------------
(* Operations on stored rows *)

\* What every step but the commit of a new row does to the table.
TableRemains ==
    /\ RowsRemain
    /\ UNCHANGED scanOrder \/ \E B \in SUBSET {r \in Runs : Stored(r)} : Touch(B)
    /\ undecodable' \subseteq {r \in Runs : Stored(r)}
    /\ claims' \subseteq ClaimOn(Runs)
    /\ polling' \in [Workers -> Seq(Runs)]

\* What stays of the invariant when the rows remain.
LEMMA StillTable ==
    ASSUME TableInv, TableRemains
    PROVE  /\ RowsInv' /\ OrdersStoredRows' /\ undecodable' \subseteq {r \in Runs : Stored(r)}'
           /\ claims' \subseteq ClaimOn(Runs) /\ polling' \in [Workers -> Seq(Runs)]
<1>1. /\ rows' \in [Runs -> Row]
      /\ \A r \in Runs : /\ SoundRow(rows'[r]) /\ (Stored(r)' <=> Stored(r))
                         /\ ~Stored(r) => rows'[r] = rows[r]
  BY DEF TableRemains, RowsRemain, Remains
<1>2. \A r \in Runs : ~Stored(r) => rows[r] = NoRow
  BY DEF TableInv, RowsInv
<1>3. \A r \in Runs : ~Stored(r)' => rows'[r] = NoRow
  BY <1>1, <1>2
<1>4. RowsInv'
  BY <1>1, <1>3 DEF RowsInv
<1>5. {r \in Runs : Stored(r)}' = {r \in Runs : Stored(r)}
  BY <1>1
<1>6. OrdersStoredRows'
  <2>1. OrdersStoredRows
    BY DEF TableInv, TypeOK
  <2>2. CASE UNCHANGED scanOrder
    BY <1>5, <2>1, <2>2 DEF OrdersStoredRows
  <2>3. ASSUME NEW B \in SUBSET {r \in Runs : Stored(r)}, Touch(B) PROVE OrdersStoredRows'
    <3>1. B \in SUBSET Runs /\ \A r \in Runs : Stored(r)' <=> Stored(r) \/ r \in B
      BY <1>1, <2>3
    <3> QED
      BY <2>1, <2>3, <3>1, TouchedOrder
  <2> QED
    BY <2>2, <2>3 DEF TableRemains
<1> QED
  BY <1>4, <1>5, <1>6 DEF TableRemains

\* persist_locked moves the row it wrote to the end of the scan.
LEMMA PersistTouches ==
    ASSUME NEW r \in Runs, NEW run, Persist(r, run), Stored(r)
    PROVE  \E B \in SUBSET {q \in Runs : Stored(q)} : Touch(B)
<1>1. {r} \in SUBSET {q \in Runs : Stored(q)} /\ Touch({r})
  BY DEF Persist
<1> QED
  BY <1>1

\* claim_next_step leaves the table well formed.
LEMMA ClaimRemains ==
    ASSUME TableInv, NEW r \in Runs, NEW s \in Steps, NEW w \in Workers, ClaimStep(r, s, w),
           polling' \in [Workers -> Seq(Runs)]
    PROVE  TableRemains
<1>1. RowsInv /\ ClaimsInv
  BY DEF TableInv, TypeOK, ClaimsInv
<1>2. claims' \subseteq ClaimOn(Runs)
  BY <1>1, ClaimType
<1>3. Stored(r)
  BY DEF ClaimStep, Grant, Loads
<1> DEFINE run == [rows[r] EXCEPT !.steps[s] =
                       StartAttempt(rows[r].steps[s], w, NextLeaseToken(rows[r]))]
<1>4. Rewrites(r, run)
  BY <1>1, ClaimRow
<1>5. Persist(r, run) /\ UNCHANGED undecodable
  BY DEF ClaimStep
<1> HIDE DEF run
<1>6. RowsRemain
  BY <1>1, <1>4, RewrittenRemain
<1>7. \E B \in SUBSET {q \in Runs : Stored(q)} : Touch(B)
  BY <1>3, <1>5, PersistTouches
<1> QED
  BY <1>2, <1>5, <1>6, <1>7 DEF TableRemains, TableInv, TypeOK

\* The operations that rewrite one row and leave claims and polls alone.
LEMMA RewriteRemains ==
    ASSUME TableInv, NEW r \in Runs, NEW run, Rewrites(r, run),
           Persist(r, rows'[r]) \/ UNCHANGED scanOrder,
           undecodable' \subseteq {q \in Runs : Stored(q)}, UNCHANGED <<claims, polling>>
    PROVE  TableRemains
<1>1. RowsRemain /\ Stored(r)
  BY RewrittenRemain DEF TableInv, Rewrites
<1>2. UNCHANGED scanOrder \/ \E B \in SUBSET {q \in Runs : Stored(q)} : Touch(B)
  BY <1>1, PersistTouches
<1> QED
  BY <1>1, <1>2 DEF TableRemains, TableInv, TypeOK

\* So do the calls of a claim's holder.
LEMMA CallRemains ==
    ASSUME TableInv, NEW c \in claims
    PROVE  /\ RenewStep(c) => TableRemains
           /\ \A k \in StepCompletion : CompleteStep(c, k) => TableRemains
<1>1. ClaimsInv /\ c.run \in Runs /\ undecodable \subseteq {q \in Runs : Stored(q)}
      /\ rows \in [Runs -> Row]
  BY DEF TableInv, TypeOK, ClaimsInv, ClaimOn
<1>2. ASSUME RenewStep(c) PROVE TableRemains
  <2> DEFINE run == [rows[c.run] EXCEPT !.steps[c.step].lease.left = LeaseTicks]
  <2>1. /\ rows' = [rows EXCEPT ![c.run] = run] /\ Persist(c.run, run)
        /\ UNCHANGED undecodable /\ UNCHANGED <<claims, polling>>
    BY <1>2 DEF RenewStep, Persist
  <2>2. Rewrites(c.run, run)
    BY <1>1, <1>2, RenewRow
  <2> HIDE DEF run
  <2>3. rows'[c.run] = run
    BY <1>1, <2>1
  <2> QED
    BY <1>1, <2>1, <2>2, <2>3, RewriteRemains
<1>3. ASSUME NEW k \in StepCompletion, CompleteStep(c, k) PROVE TableRemains
  <2> DEFINE new == EndAttempt(c.step, rows[c.run].steps[c.step], k.kind, k.output, k.backoff)
             run == AppendRunEvent([rows[c.run] EXCEPT !.steps[c.step] = new],
                                   StepEvent(k.kind, c.step, c.attempt))
  <2>1. /\ rows' = [rows EXCEPT ![c.run] = run] /\ Persist(c.run, run)
        /\ UNCHANGED undecodable /\ UNCHANGED <<claims, polling>>
    BY <1>3 DEF CompleteStep, Persist
  <2>2. Rewrites(c.run, run)
    BY <1>1, <1>3, CompleteRow
  <2> HIDE DEF run
  <2>3. rows'[c.run] = run
    BY <1>1, <2>1
  <2> QED
    BY <1>1, <2>1, <2>2, <2>3, RewriteRemains
<1> QED
  BY <1>2, <1>3

\* So do record_event, finish_run and cancel_run.
LEMMA RunCallRemains ==
    ASSUME TableInv, NEW r \in Runs
    PROVE  /\ \A e \in StepEventsOf(rows[r]) \cup RunEventsOf : RecordEvent(r, e) => TableRemains
           /\ \A pass, finite \in BOOLEAN : FinishRun(r, pass, finite) => TableRemains
           /\ CancelRun(r) => TableRemains
<1>1. /\ RowsInv /\ undecodable \subseteq {q \in Runs : Stored(q)} /\ rows \in [Runs -> Row]
  BY DEF TableInv, TypeOK
<1>2. ASSUME NEW e \in StepEventsOf(rows[r]) \cup RunEventsOf, RecordEvent(r, e)
      PROVE  TableRemains
  <2> DEFINE run == AppendRunEvent(rows[r], e)
  <2>1. /\ rows' = [rows EXCEPT ![r] = run] /\ Persist(r, run)
        /\ UNCHANGED undecodable /\ UNCHANGED <<claims, polling>>
    BY <1>2 DEF RecordEvent, Persist
  <2>2. Rewrites(r, run)
    BY <1>1, <1>2, EventRow
  <2> HIDE DEF run
  <2>3. rows'[r] = run
    BY <1>1, <2>1
  <2> QED
    BY <1>1, <2>1, <2>2, <2>3, RewriteRemains
<1>3. ASSUME NEW pass \in BOOLEAN, NEW finite \in BOOLEAN, FinishRun(r, pass, finite)
      PROVE  TableRemains
  <2>1. PICK run : Rewrites(r, run)
    BY <1>1, <1>3, FinishRow
  <2>2. rows'[r] = run
    BY <1>1, <2>1 DEF Rewrites
  <2>3. \E other : Persist(r, other)
    BY <1>3 DEF FinishRun
  <2>4. Persist(r, rows'[r])
    BY <1>1, <2>3 DEF Persist
  <2>5. /\ undecodable' \subseteq {q \in Runs : Stored(q)} /\ UNCHANGED <<claims, polling>>
    BY <1>1, <1>3 DEF FinishRun, Loads, WriteNumbers
  <2> QED
    BY <2>1, <2>4, <2>5, RewriteRemains
<1>4. ASSUME CancelRun(r) PROVE TableRemains
  <2>1. PICK run : Rewrites(r, run)
    BY <1>1, <1>4, CancelRow
  <2>2. \E other : Persist(r, other)
    BY <1>4 DEF CancelRun
  <2>3. Persist(r, rows'[r])
    BY <1>1, <2>2 DEF Persist
  <2>4. UNCHANGED undecodable /\ UNCHANGED <<claims, polling>>
    BY <1>4 DEF CancelRun
  <2> QED
    BY <1>1, <2>1, <2>3, <2>4, RewriteRemains
<1> QED
  BY <1>2, <1>3, <1>4

\* So does recover_expired.
LEMMA RecoverRemains ==
    ASSUME TableInv, NEW B \in SUBSET Runs, RecoverExpired(B)
    PROVE  TableRemains
<1>1. RowsRemain
  BY BatchRemains DEF TableInv
<1>2. B \in SUBSET {q \in Runs : Stored(q)} /\ Touch(B)
  BY DEF RecoverExpired, Loads
<1>3. UNCHANGED <<undecodable, claims, polling>>
  BY DEF RecoverExpired
<1> QED
  BY <1>1, <1>2, <1>3 DEF TableRemains, TableInv, TypeOK

\* So does the clock.
LEMMA ClockRemains ==
    ASSUME TableInv, Clock
    PROVE  TableRemains
<1>1. PICK r \in Runs, s \in Steps : LeaseTicksDown(r, s) \/ BackoffElapses(r, s)
  BY DEF Clock
<1>2. UNCHANGED scanOrder /\ UNCHANGED undecodable /\ UNCHANGED <<claims, polling>>
  BY <1>1 DEF LeaseTicksDown, BackoffElapses
<1>3. RowsInv /\ undecodable \subseteq {q \in Runs : Stored(q)}
  BY DEF TableInv, TypeOK
<1>4. \E run : Rewrites(r, run)
  BY <1>1, <1>3, TickRow, ElapseRow
<1> QED
  BY <1>2, <1>3, <1>4, RewriteRemains

\* Also when it is set back.
LEMMA ClockBackRemains ==
    ASSUME TableInv, ClockStepsBack
    PROVE  TableRemains
<1>1. PICK r \in Runs, s \in Steps : LeaseRevives(r, s) \/ BackoffReturns(r, s)
  BY DEF ClockStepsBack
<1>2. UNCHANGED scanOrder /\ UNCHANGED undecodable /\ UNCHANGED <<claims, polling>>
  BY <1>1 DEF LeaseRevives, BackoffReturns
<1>3. RowsInv /\ undecodable \subseteq {q \in Runs : Stored(q)}
  BY DEF TableInv, TypeOK
<1>4. \E run : Rewrites(r, run)
  BY <1>1, <1>3, ReviveRow, ReturnRow
<1> QED
  BY <1>2, <1>3, <1>4, RewriteRemains

\* Polls and the statements of create_run that commit no row leave the table alone.
LEMMA IdleRemains ==
    ASSUME TableInv, UNCHANGED <<rows, undecodable, scanOrder, claims>>,
           polling' \in [Workers -> Seq(Runs)]
    PROVE  TableRemains
<1>1. RowsRemain
  BY UntouchedRemain DEF TableInv
<1> QED
  BY <1>1 DEF TableRemains, TableInv, TypeOK

\* So does each transaction of claim_next_runnable_step.
LEMMA PollRemains ==
    ASSUME TableInv, NEW w \in Workers, PollStep(w)
    PROVE  TableRemains
<1>1. polling \in [Workers -> Seq(Runs)]
  BY DEF TableInv, TypeOK
<1>2. CASE PollScans(w)
  <2>1. PICK scan \in Candidates : polling' = [polling EXCEPT ![w] = scan]
    BY <1>2 DEF PollScans
  <2>2. polling' \in [Workers -> Seq(Runs)]
    BY <1>1, <2>1, CandidatesAreRuns
  <2> QED
    BY <1>2, <2>2, IdleRemains DEF PollScans
<1>3. CASE PollSkips(w)
  <2>1. Tail(polling[w]) \in Seq(Runs)
    BY <1>1, <1>3 DEF PollSkips
  <2>2. polling' \in [Workers -> Seq(Runs)]
    BY <1>1, <1>3, <2>1 DEF PollSkips
  <2> QED
    BY <1>3, <2>2, IdleRemains DEF PollSkips
<1>4. CASE PollFails(w)
  <2>1. polling' \in [Workers -> Seq(Runs)]
    BY <1>1, <1>4 DEF PollFails
  <2> QED
    BY <1>4, <2>1, IdleRemains DEF PollFails
<1>5. ASSUME NEW s \in Steps, PollClaims(w, s) PROVE TableRemains
  <2>1. polling[w] \in Seq(Runs) /\ polling[w] # <<>>
    BY <1>1, <1>5 DEF PollClaims
  <2>2. Head(polling[w]) \in Runs
    BY <2>1
  <2>3. polling' \in [Workers -> Seq(Runs)]
    BY <1>1, <1>5 DEF PollClaims
  <2> QED
    BY <1>5, <2>2, <2>3, ClaimRemains DEF PollClaims
<1> QED
  BY <1>2, <1>3, <1>4, <1>5 DEF PollStep

-----------------------------------------------------------------------------
(* create_run *)

KeyedAnswer == [key : Keys, payload : Payloads, run : Runs]

\* An answer that names the stored row which was made from the request.
TrueAnswer(a) ==
    /\ a \in KeyedAnswer
    /\ Stored(a.run) /\ rows[a.run].key = a.key /\ rows[a.run].payload = a.payload

\* A statement of a caller: the rows stay, answers are true, and a caller only
\* counts as having inserted a row that collides with nothing.
LEMMA CallerMoves ==
    ASSUME TableInv, UNCHANGED <<rows, undecodable, scanOrder, polling, claims>>,
           NEW c \in Clients, NEW rec \in Creating, creating' = [creating EXCEPT ![c] = rec],
           \A a \in answered' \ answered : TrueAnswer(a),
           rec.stage = "Inserted" =>
               /\ \A d \in Clients \ {c} : Inserted(d) => ~Collide(rec, creating[d])
               /\ \A q \in Runs : Stored(q) => ~Collide(rec, [run |-> q, key |-> rows[q].key])
    PROVE  TableInv'
<1>1. /\ creating \in [Clients -> Creating] /\ KeysInv /\ TypeOK /\ RowsInv
      /\ \A a \in answered : a \in KeyedAnswer
  BY DEF TableInv, TypeOK, KeyedAnswer
<1>2. /\ creating' \in [Clients -> Creating] /\ creating'[c] = rec
      /\ \A d \in Clients \ {c} : creating'[d] = creating[d]
  BY <1>1
<1>3. \A q \in Runs : Stored(q)' <=> Stored(q)
  BY DEF Stored
<1>4. RowsInv' /\ OrdersStoredRows' /\ undecodable' \subseteq {r \in Runs : Stored(r)}'
  BY <1>1, <1>3 DEF RowsInv, OrdersStoredRows, TypeOK
<1>5. answered' \subseteq KeyedAnswer
      /\ \A a \in answered' : Stored(a.run) /\ rows[a.run].key = a.key
                                            /\ rows[a.run].payload = a.payload
  BY <1>1 DEF KeysInv, TrueAnswer
<1>6. TypeOK'
  BY <1>1, <1>2, <1>4, <1>5 DEF TypeOK, KeyedAnswer
<1>7. \A a, b : Collide(a, b) <=> Collide(b, a)
  BY DEF Collide
<1>8. ASSUME NEW d \in Clients, NEW e \in Clients, d # e, Inserted(d)', Inserted(e)'
      PROVE  ~Collide(creating'[d], creating'[e])
  <2>1. CASE d = c
    BY <1>2, <1>8, <2>1 DEF Inserted
  <2>2. CASE e = c
    BY <1>2, <1>7, <1>8, <2>2 DEF Inserted
  <2>3. CASE d # c /\ e # c
    BY <1>1, <1>2, <1>8, <2>3 DEF Inserted, KeysInv
  <2> QED
    BY <2>1, <2>2, <2>3
<1>9. ASSUME NEW d \in Clients, NEW q \in Runs, Inserted(d)', Stored(q)'
      PROVE  ~Collide(creating'[d], [run |-> q, key |-> rows'[q].key])
  <2>1. CASE d = c
    BY <1>2, <1>3, <1>9, <2>1 DEF Inserted
  <2>2. CASE d # c
    BY <1>1, <1>2, <1>3, <1>9, <2>2 DEF Inserted, KeysInv
  <2> QED
    BY <2>1, <2>2
<1>10. ASSUME NEW q \in Runs, NEW r \in Runs, Stored(q)', Stored(r)',
              rows'[q].key = rows'[r].key, rows'[r].key # NoKey
       PROVE  q = r
  <2>1. Stored(q) /\ Stored(r) /\ rows[q].key = rows[r].key /\ rows[r].key # NoKey
    BY <1>3, <1>10
  <2> QED
    BY <1>1, <2>1 DEF KeysInv
<1>11. \A a \in answered' : /\ Stored(a.run)' /\ rows'[a.run].key = a.key
                            /\ rows'[a.run].payload = a.payload
  BY <1>5 DEF Stored
<1>12. KeysInv'
  BY <1>8, <1>9, <1>10, <1>11 DEF KeysInv
<1> QED
  BY <1>4, <1>6, <1>12 DEF TableInv

\* An answer taken from a stored row is true of it.
LEMMA AnswersAreTrue ==
    ASSUME NEW key \in Keys \cup {NoKey}, NEW payload \in Payloads, NEW r \in Runs,
           Stored(r), rows[r].key = key, rows[r].payload = payload, Answer(key, payload, r)
    PROVE  \A a \in answered' \ answered : TrueAnswer(a)
<1>1. CASE key = NoKey
  BY <1>1 DEF Answer
<1>2. CASE key # NoKey
  <2> DEFINE a == [key |-> key, payload |-> payload, run |-> r]
  <2>1. answered' = answered \cup {a}
    BY <1>2 DEF Answer
  <2>2. a \in KeyedAnswer /\ a.run = r /\ a.key = key /\ a.payload = payload
    BY <1>2 DEF KeyedAnswer
  <2>3. TrueAnswer(a)
    BY <2>2 DEF TrueAnswer
  <2> HIDE DEF a
  <2> QED
    BY <2>1, <2>3
<1> QED
  BY <1>1, <1>2

\* The SELECT by key that finds the row of an earlier request.
LEMMA AnswerExistingTable ==
    ASSUME TableInv, NEW key \in Keys, NEW payload \in Payloads, AnswerExisting(key, payload)
    PROVE  TableInv'
<1>1. PICK r \in Runs : /\ Loads(r) /\ rows[r].key = key /\ rows[r].payload = payload
                        /\ Answer(key, payload, r)
  BY DEF AnswerExisting
<1>2. \A a \in answered' \ answered : TrueAnswer(a)
  BY <1>1, AnswersAreTrue DEF Loads
<1>3. UNCHANGED <<rows, undecodable, scanOrder, creating, polling, claims>>
  BY DEF AnswerExisting
<1>4. CASE Clients = {}
  <2>1. TypeOK'
    BY <1>2, <1>3 DEF TableInv, TypeOK, TrueAnswer, KeyedAnswer, OrdersStoredRows, Stored
  <2>2. RowsInv'
    BY <1>3 DEF TableInv, RowsInv, Stored
  <2>3. KeysInv'
    BY <1>2, <1>3, <1>4 DEF TableInv, KeysInv, TrueAnswer, Stored
  <2> QED
    BY <2>1, <2>2, <2>3 DEF TableInv
<1>5. ASSUME NEW c \in Clients PROVE TableInv'
  <2>1. /\ creating[c] \in Creating /\ creating' = [creating EXCEPT ![c] = creating[c]]
    BY <1>3 DEF TableInv, TypeOK
  <2>2. creating[c].stage = "Inserted" =>
            /\ \A d \in Clients \ {c} : Inserted(d) => ~Collide(creating[c], creating[d])
            /\ \A q \in Runs : Stored(q) => ~Collide(creating[c], [run |-> q, key |-> rows[q].key])
    BY DEF TableInv, KeysInv, Inserted
  <2> QED
    BY <1>2, <1>3, <2>1, <2>2, CallerMoves
<1> QED
  BY <1>4, <1>5

\* The statements of create_run before its commit, and those that give up.
LEMMA CallersTable ==
    ASSUME TableInv, NEW c \in Clients
    PROVE  /\ \A r \in Runs, key \in Keys \cup {NoKey}, payload \in Payloads :
                  BeginCreate(c, r, key, payload) => TableInv'
           /\ LookForRun(c) => TableInv'
           /\ Insert(c) => TableInv'
           /\ SelectAgain(c) => TableInv'
           /\ AbortCreate(c) => TableInv'
<1> DEFINE me == creating[c]
<1>1. /\ creating \in [Clients -> Creating] /\ me \in Creating
      /\ me.run \in Runs /\ me.key \in Keys \cup {NoKey} /\ me.payload \in Payloads
  BY DEF TableInv, TypeOK, Creating
<1>2. NotCreating \in Creating /\ NotCreating.stage # "Inserted"
  BY PayloadsAssumption, TableAssumption DEF NotCreating, Creating, Runs
<1>3. ASSUME NEW r \in Runs, NEW key \in Keys \cup {NoKey}, NEW payload \in Payloads,
             BeginCreate(c, r, key, payload)
      PROVE  TableInv'
  <2> DEFINE rec == [stage |-> IF key = NoKey THEN "RunFree" ELSE "KeyFree",
                     run |-> r, key |-> key, payload |-> payload]
  <2>1. rec \in Creating /\ rec.stage # "Inserted"
    BY DEF Creating
  <2>2. /\ creating' = [creating EXCEPT ![c] = rec] /\ answered' = answered
        /\ UNCHANGED <<rows, undecodable, scanOrder, polling, claims>>
    BY <1>3 DEF BeginCreate
  <2> HIDE DEF rec
  <2> QED
    BY <2>1, <2>2, CallerMoves
<1>4. ASSUME NEW st \in {"RunFree", "Refused"}, Stage(c, st), UNCHANGED answered,
             UNCHANGED <<rows, undecodable, scanOrder, polling, claims>>
      PROVE  TableInv'
  <2> DEFINE rec == [me EXCEPT !.stage = st]
  <2>1. rec \in Creating /\ rec.stage # "Inserted"
    BY <1>1, <1>4 DEF Creating
  <2>2. creating' = [creating EXCEPT ![c] = rec]
    BY <1>4 DEF Stage
  <2> HIDE DEF rec
  <2> QED
    BY <1>4, <2>1, <2>2, CallerMoves
<1>5. ASSUME creating' = [creating EXCEPT ![c] = NotCreating],
             \A a \in answered' \ answered : TrueAnswer(a),
             UNCHANGED <<rows, undecodable, scanOrder, polling, claims>>
      PROVE  TableInv'
  BY <1>2, <1>5, CallerMoves
<1>6. ASSUME LookForRun(c) PROVE TableInv'
  <2>1. /\ creating' = [creating EXCEPT ![c] = NotCreating] \/ Stage(c, "RunFree")
        /\ answered' = answered
        /\ UNCHANGED <<rows, undecodable, scanOrder, polling, claims>>
    BY <1>6 DEF LookForRun
  <2> QED
    BY <1>4, <1>5, <2>1
<1>7. ASSUME Insert(c) PROVE TableInv'
  <2>1. /\ \A d \in Clients \ {c} : Inserted(d) => ~Collide(me, creating[d])
        /\ answered' = answered
        /\ UNCHANGED <<rows, undecodable, scanOrder, polling, claims>>
    BY <1>7 DEF Insert, Inserted
  <2>2. CASE Stage(c, "Refused")
    BY <1>4, <2>1, <2>2
  <2>3. CASE /\ Stage(c, "Inserted")
             /\ ~\E q \in Runs : Stored(q) /\ Collide(me, [run |-> q, key |-> rows[q].key])
    <3> DEFINE rec == [me EXCEPT !.stage = "Inserted"]
    <3>1. rec \in Creating /\ rec.run = me.run /\ rec.key = me.key
      BY <1>1 DEF Creating
    <3>2. creating' = [creating EXCEPT ![c] = rec]
      BY <2>3 DEF Stage
    <3> HIDE DEF rec, me
    <3>3. /\ \A d \in Clients \ {c} : Inserted(d) => ~Collide(rec, creating[d])
          /\ \A q \in Runs : Stored(q) => ~Collide(rec, [run |-> q, key |-> rows[q].key])
      BY <2>1, <2>3, <3>1 DEF Collide
    <3> QED
      BY <2>1, <3>1, <3>2, <3>3, CallerMoves
  <2> QED
    BY <1>7, <2>2, <2>3 DEF Insert
<1>8. ASSUME SelectAgain(c) PROVE TableInv'
  <2>1. \A a \in answered' \ answered : TrueAnswer(a)
    <3>1. CASE UNCHANGED answered
      BY <3>1
    <3>2. ASSUME NEW q \in Runs, Repeats(q, me), Answer(me.key, me.payload, q)
          PROVE  \A a \in answered' \ answered : TrueAnswer(a)
      <4>1. Stored(q) /\ rows[q].key = me.key /\ rows[q].payload = me.payload
        BY <3>2 DEF Repeats, Loads
      <4> HIDE DEF me
      <4> QED
        BY <1>1, <3>2, <4>1, AnswersAreTrue
    <3> QED
      BY <1>8, <3>1, <3>2 DEF SelectAgain
  <2>2. /\ creating' = [creating EXCEPT ![c] = NotCreating]
        /\ UNCHANGED <<rows, undecodable, scanOrder, polling, claims>>
    BY <1>8 DEF SelectAgain
  <2> QED
    BY <1>5, <2>1, <2>2
<1>9. ASSUME AbortCreate(c) PROVE TableInv'
  <2>1. /\ creating' = [creating EXCEPT ![c] = NotCreating] /\ answered' = answered
        /\ UNCHANGED <<rows, undecodable, scanOrder, polling, claims>>
    BY <1>9 DEF AbortCreate
  <2> QED
    BY <1>5, <2>1
<1> QED
  BY <1>3, <1>6, <1>7, <1>8, <1>9

\* What a commit makes of the table: one row more.
LEMMA CommitRow ==
    ASSUME TableInv, NEW c \in Clients, CommitCreate(c)
    PROVE  LET me  == creating[c]
               run == AppendRunEvent(
                          [NoRow EXCEPT !.status = "Running", !.key = me.key, !.payload = me.payload],
                          RunEvent("RunStarted", "Running"))
           IN  /\ me \in Creating /\ Inserted(c)
               /\ me.run \in Runs /\ me.key \in Keys \cup {NoKey} /\ me.payload \in Payloads
               /\ rows[me.run] = NoRow /\ ~Stored(me.run)
               /\ \A q \in Runs : Stored(q) => ~Collide(me, [run |-> q, key |-> rows[q].key])
               /\ SoundRow(run) /\ run.status = "Running"
               /\ run.key = me.key /\ run.payload = me.payload
               /\ rows' \in [Runs -> Row] /\ rows'[me.run] = run
               /\ \A q \in Runs \ {me.run} : rows'[q] = rows[q]
<1> DEFINE me  == creating[c]
           run == AppendRunEvent(
                      [NoRow EXCEPT !.status = "Running", !.key = me.key, !.payload = me.payload],
                      RunEvent("RunStarted", "Running"))
<1>1. /\ me \in Creating /\ Inserted(c)
      /\ me.run \in Runs /\ me.key \in Keys \cup {NoKey} /\ me.payload \in Payloads
  BY DEF TableInv, TypeOK, Creating, CommitCreate, Inserted
<1>2. \A q \in Runs : Stored(q) => ~Collide(me, [run |-> q, key |-> rows[q].key])
  BY <1>1 DEF TableInv, KeysInv
<1>3. ~Stored(me.run) /\ rows[me.run] = NoRow
  BY <1>1, <1>2 DEF Collide, TableInv, RowsInv
<1>4. rows' = [rows EXCEPT ![me.run] = run]
  BY DEF CommitCreate, Persist
<1> HIDE DEF me
<1>5. /\ SoundRow(run) /\ run.status = "Running"
      /\ run.key = me.key /\ run.payload = me.payload
  BY <1>1, NewRow
<1> HIDE DEF run
<1>6. /\ rows' \in [Runs -> Row] /\ rows'[me.run] = run
      /\ \A q \in Runs \ {me.run} : rows'[q] = rows[q]
  BY <1>1, <1>4, <1>5 DEF TableInv, RowsInv, SoundRow
<1> QED
  BY <1>1, <1>2, <1>3, <1>5, <1>6 DEF me, run

\* The commit of create_run: the row it adds collides with no other row.
LEMMA CommitTable ==
    ASSUME TableInv, NEW c \in Clients, CommitCreate(c)
    PROVE  TableInv'
<1> DEFINE me  == creating[c]
           new == rows'[me.run]
<1>1. /\ me \in Creating /\ Inserted(c)
      /\ me.run \in Runs /\ me.key \in Keys \cup {NoKey} /\ me.payload \in Payloads
      /\ ~Stored(me.run)
      /\ \A q \in Runs : Stored(q) => ~Collide(me, [run |-> q, key |-> rows[q].key])
      /\ SoundRow(new) /\ new.status = "Running" /\ new.key = me.key /\ new.payload = me.payload
      /\ rows' \in [Runs -> Row]
      /\ \A q \in Runs \ {me.run} : rows'[q] = rows[q]
  BY CommitRow
<1>2. /\ Touch({me.run}) /\ Answer(me.key, me.payload, me.run)
      /\ creating' = [creating EXCEPT ![c] = NotCreating]
      /\ undecodable' \subseteq undecodable \cup {me.run} /\ UNCHANGED <<polling, claims>>
  BY DEF CommitCreate, Persist, WriteNumbers
<1>3. /\ TypeOK /\ RowsInv /\ KeysInv
  BY DEF TableInv
<1> HIDE DEF new
<1>4. \A q \in Runs : Stored(q)' <=> Stored(q) \/ q = me.run
  BY <1>1 DEF Stored, new
<1>5. RowsInv'
  <2>1. ASSUME NEW q \in Runs PROVE SoundRow(rows'[q]) /\ (~Stored(q)' => rows'[q] = NoRow)
    <3>1. CASE q = me.run
      BY <1>1, <1>4, <3>1 DEF new
    <3>2. CASE q # me.run
      BY <1>1, <1>3, <1>4, <3>2 DEF RowsInv
    <3> QED
      BY <3>1, <3>2
  <2> QED
    BY <1>1, <2>1 DEF RowsInv
<1>6. OrdersStoredRows'
  <2>1. {me.run} \in SUBSET Runs /\ \A q \in Runs : Stored(q)' <=> Stored(q) \/ q \in {me.run}
    BY <1>1, <1>4
  <2> QED
    BY <1>2, <1>3, <2>1, TouchedOrder DEF TypeOK
<1>7. undecodable' \subseteq {q \in Runs : Stored(q)}'
  BY <1>1, <1>2, <1>3, <1>4 DEF TypeOK
<1>8. NotCreating \in Creating /\ NotCreating.stage # "Inserted"
  BY PayloadsAssumption, TableAssumption DEF NotCreating, Creating, Runs
<1>9. /\ creating' \in [Clients -> Creating] /\ creating'[c] = NotCreating
      /\ \A d \in Clients \ {c} : creating'[d] = creating[d]
  BY <1>2, <1>3, <1>8 DEF TypeOK
<1>10. ASSUME NEW a \in answered'
       PROVE  /\ a \in KeyedAnswer /\ Stored(a.run)'
              /\ rows'[a.run].key = a.key /\ rows'[a.run].payload = a.payload
  <2>1. CASE a \in answered
    <3>1. a \in KeyedAnswer /\ a.run \in Runs
      BY <1>3, <2>1 DEF TypeOK, KeyedAnswer
    <3>2. Stored(a.run) /\ rows[a.run].key = a.key /\ rows[a.run].payload = a.payload
      BY <1>3, <2>1 DEF KeysInv
    <3>3. rows'[a.run] = rows[a.run] /\ Stored(a.run)'
      BY <1>1, <1>4, <3>1, <3>2
    <3> QED
      BY <3>1, <3>2, <3>3
  <2>2. CASE a \notin answered
    <3>1. a = [key |-> me.key, payload |-> me.payload, run |-> me.run] /\ me.key # NoKey
      BY <1>2, <1>10, <2>2 DEF Answer
    <3>2. a \in KeyedAnswer /\ a.run = me.run /\ a.key = me.key /\ a.payload = me.payload
      BY <1>1, <3>1 DEF KeyedAnswer
    <3>3. Stored(a.run)'
      BY <1>1, <1>4, <3>2
    <3> QED
      BY <1>1, <3>2, <3>3 DEF new
  <2> QED
    BY <2>1, <2>2
<1>11. TypeOK'
  <2>1. answered' \subseteq KeyedAnswer
    BY <1>10
  <2>2. polling' \in [Workers -> Seq(Runs)] /\ claims' \subseteq ClaimOn(Runs)
    BY <1>2, <1>3 DEF TypeOK
  <2> QED
    BY <1>1, <1>6, <1>7, <1>9, <2>1, <2>2 DEF TypeOK, KeyedAnswer
<1>12. ASSUME NEW q \in Runs, NEW r \in Runs, Stored(q)', Stored(r)',
              rows'[q].key = rows'[r].key, rows'[r].key # NoKey
       PROVE  q = r
  <2> SUFFICES ASSUME q # r PROVE FALSE
    OBVIOUS
  <2>1. CASE q = me.run
    <3>1. Stored(r) /\ rows[r].key = me.key /\ me.key # NoKey
      BY <1>1, <1>4, <1>12, <2>1 DEF new
    <3> QED
      BY <1>1, <3>1 DEF Collide
  <2>2. CASE r = me.run
    <3>1. Stored(q) /\ rows[q].key = me.key /\ me.key # NoKey
      BY <1>1, <1>4, <1>12, <2>2 DEF new
    <3> QED
      BY <1>1, <3>1 DEF Collide
  <2>3. CASE q # me.run /\ r # me.run
    <3>1. Stored(q) /\ Stored(r) /\ rows[q].key = rows[r].key /\ rows[r].key # NoKey
      BY <1>1, <1>4, <1>12, <2>3
    <3> QED
      BY <1>3, <3>1 DEF KeysInv
  <2> QED
    BY <2>1, <2>2, <2>3
<1>13. ASSUME NEW d \in Clients, NEW e \in Clients, d # e, Inserted(d)', Inserted(e)'
       PROVE  ~Collide(creating'[d], creating'[e])
  <2>1. d # c /\ e # c /\ creating'[d] = creating[d] /\ creating'[e] = creating[e]
    BY <1>8, <1>9, <1>13 DEF Inserted
  <2> QED
    BY <1>3, <1>13, <2>1 DEF Inserted, KeysInv
<1>14. ASSUME NEW d \in Clients, NEW q \in Runs, Inserted(d)', Stored(q)'
       PROVE  ~Collide(creating'[d], [run |-> q, key |-> rows'[q].key])
  <2>1. d # c /\ creating'[d] = creating[d] /\ Inserted(d)
    BY <1>8, <1>9, <1>14 DEF Inserted
  <2>2. CASE q = me.run
    <3>1. ~Collide(creating[d], me)
      BY <1>1, <1>3, <2>1 DEF KeysInv
    <3> QED
      BY <1>1, <2>1, <2>2, <3>1 DEF Collide, new
  <2>3. CASE q # me.run
    <3>1. Stored(q) /\ rows'[q] = rows[q]
      BY <1>1, <1>4, <1>14, <2>3
    <3> QED
      BY <1>3, <2>1, <3>1 DEF KeysInv
  <2> QED
    BY <2>2, <2>3
<1>15. KeysInv'
  BY <1>10, <1>12, <1>13, <1>14 DEF KeysInv
<1> QED
  BY <1>5, <1>11, <1>15 DEF TableInv

-----------------------------------------------------------------------------
(* The invariant holds *)

\* Steps that leave the callers of create_run alone.
LEMMA RemainingTable ==
    ASSUME TableInv, TableRemains, UNCHANGED <<creating, answered>>
    PROVE  TableInv'
<1>1. /\ RowsInv' /\ OrdersStoredRows' /\ undecodable' \subseteq {r \in Runs : Stored(r)}'
      /\ claims' \subseteq ClaimOn(Runs) /\ polling' \in [Workers -> Seq(Runs)]
  BY StillTable
<1>2. TypeOK'
  BY <1>1 DEF TypeOK, RowsInv, TableInv
<1>3. \A q \in Runs : /\ Stored(q)' <=> Stored(q)
                      /\ rows'[q].key = rows[q].key /\ rows'[q].payload = rows[q].payload
  BY DEF TableRemains, RowsRemain, Remains
<1>4. \A a \in answered : a.run \in Runs
  BY DEF TableInv, TypeOK
<1>5. KeysInv
  BY DEF TableInv
<1>6. ASSUME NEW q \in Runs, NEW r \in Runs, Stored(q)', Stored(r)',
             rows'[q].key = rows'[r].key, rows'[r].key # NoKey
      PROVE  q = r
  <2>1. Stored(q) /\ Stored(r) /\ rows[q].key = rows[r].key /\ rows[r].key # NoKey
    BY <1>3, <1>6
  <2> QED
    BY <1>5, <2>1 DEF KeysInv
<1>7. ASSUME NEW a \in answered'
      PROVE  Stored(a.run)' /\ rows'[a.run].key = a.key /\ rows'[a.run].payload = a.payload
  BY <1>3, <1>4, <1>5 DEF KeysInv
<1>8. ASSUME NEW d \in Clients, NEW e \in Clients, d # e, Inserted(d)', Inserted(e)'
      PROVE  ~Collide(creating'[d], creating'[e])
  BY <1>5, <1>8 DEF KeysInv, Inserted
<1>9. ASSUME NEW d \in Clients, NEW q \in Runs, Inserted(d)', Stored(q)'
      PROVE  ~Collide(creating'[d], [run |-> q, key |-> rows'[q].key])
  BY <1>3, <1>5, <1>9 DEF KeysInv, Inserted
<1>10. KeysInv'
  BY <1>6, <1>7, <1>8, <1>9 DEF KeysInv
<1> QED
  BY <1>1, <1>2, <1>10 DEF TableInv

\* Every step keeps the invariant of the table.
LEMMA NextTable ==
    ASSUME TableInv, [Next]_vars
    PROVE  TableInv'
<1>1. CASE UNCHANGED vars
  <2>1. UNCHANGED <<rows, undecodable, scanOrder, claims>> /\ UNCHANGED <<creating, answered>>
        /\ polling' = polling
    BY <1>1 DEF vars
  <2>2. TableRemains
    BY <2>1, IdleRemains DEF TableInv, TypeOK
  <2> QED
    BY <2>1, <2>2, RemainingTable
<1>2. ASSUME NEW key \in Keys, NEW p \in Payloads, AnswerExisting(key, p)
      PROVE  TableInv'
  BY <1>2, AnswerExistingTable
<1>3. ASSUME NEW c \in Clients, NEW r \in Runs, NEW key \in Keys \cup {NoKey}, NEW p \in Payloads,
             BeginCreate(c, r, key, p)
      PROVE  TableInv'
  BY <1>3, CallersTable
<1>4. ASSUME NEW c \in Clients, CreateStep(c) PROVE TableInv'
  BY <1>4, CallersTable, CommitTable DEF CreateStep
<1>5. ASSUME NEW w \in Workers, PollStep(w) PROVE TableInv'
  <2>1. UNCHANGED <<creating, answered>>
    BY <1>5 DEF PollStep, PollScans, PollSkips, PollFails, PollClaims, ClaimStep
  <2> QED
    BY <1>5, <2>1, PollRemains, RemainingTable
<1>6. ASSUME NEW r \in Runs, NEW s \in Steps, NEW w \in Workers, ClaimNextStep(r, s, w)
      PROVE  TableInv'
  <2>1. /\ ClaimStep(r, s, w) /\ polling' \in [Workers -> Seq(Runs)]
        /\ UNCHANGED <<creating, answered>>
    BY <1>6 DEF ClaimNextStep, ClaimStep, TableInv, TypeOK
  <2> QED
    BY <2>1, ClaimRemains, RemainingTable
<1>7. ASSUME NEW c \in claims, RenewStep(c) PROVE TableInv'
  <2>1. UNCHANGED <<creating, answered>>
    BY <1>7 DEF RenewStep
  <2> QED
    BY <1>7, <2>1, CallRemains, RemainingTable
<1>8. ASSUME NEW c \in claims, NEW k \in StepCompletion, CompleteStep(c, k) PROVE TableInv'
  <2>1. UNCHANGED <<creating, answered>>
    BY <1>8 DEF CompleteStep
  <2> QED
    BY <1>8, <2>1, CallRemains, RemainingTable
<1>9. ASSUME NEW r \in Runs, NEW e \in StepEventsOf(rows[r]) \cup RunEventsOf, RecordEvent(r, e)
      PROVE  TableInv'
  <2>1. UNCHANGED <<creating, answered>>
    BY <1>9 DEF RecordEvent
  <2> QED
    BY <1>9, <2>1, RunCallRemains, RemainingTable
<1>10. ASSUME NEW r \in Runs, NEW pass \in BOOLEAN, NEW finite \in BOOLEAN,
              FinishRun(r, pass, finite)
       PROVE  TableInv'
  <2>1. UNCHANGED <<creating, answered>>
    BY <1>10 DEF FinishRun
  <2> QED
    BY <1>10, <2>1, RunCallRemains, RemainingTable
<1>11. ASSUME NEW r \in Runs, CancelRun(r) PROVE TableInv'
  <2>1. UNCHANGED <<creating, answered>>
    BY <1>11 DEF CancelRun
  <2> QED
    BY <1>11, <2>1, RunCallRemains, RemainingTable
<1>12. ASSUME NEW B \in SUBSET Runs, RecoverExpired(B) PROVE TableInv'
  <2>1. UNCHANGED <<creating, answered>>
    BY <1>12 DEF RecoverExpired
  <2> QED
    BY <1>12, <2>1, RecoverRemains, RemainingTable
<1>13. ASSUME Clock PROVE TableInv'
  <2>1. UNCHANGED <<creating, answered>>
    BY <1>13 DEF Clock, LeaseTicksDown, BackoffElapses
  <2> QED
    BY <1>13, <2>1, ClockRemains, RemainingTable
<1>14. ASSUME ClockStepsBack PROVE TableInv'
  <2>1. UNCHANGED <<creating, answered>>
    BY <1>14 DEF ClockStepsBack, LeaseRevives, BackoffReturns
  <2> QED
    BY <1>14, <2>1, ClockBackRemains, RemainingTable
<1> QED
  BY <1>1, <1>2, <1>3, <1>4, <1>5, <1>6, <1>7, <1>8, <1>9, <1>10, <1>11, <1>12, <1>13, <1>14
  DEF Next

\* So the invariant holds for ever.
LEMMA AlwaysTable == Spec => []TableInv
<1>1. Init => TableInv
  BY InitTable
<1>2. TableInv /\ [Next]_vars => TableInv'
  BY NextTable
<1> QED
  BY <1>1, <1>2, PTL DEF Spec

\* The row, the scan order, the callers and the claims stay what the columns allow,
\* whatever transactions and statements of create_run interleave.
THEOREM TypeCorrect == Spec => []TypeOK
<1>1. TableInv => TypeOK
  BY DEF TableInv
<1> QED
  BY <1>1, AlwaysTable, PTL

\* create_run of PostgresRunStore: although SELECT ... FOR UPDATE locks no row that
\* does not exist yet, all answers to a key name the one stored run with that key.
THEOREM SubmissionIsIdempotent == Spec => []OneRunPerKey
<1>1. ASSUME TableInv PROVE OneRunPerKey
  <2>1. KeysInv /\ \A a \in answered : a.key \in Keys /\ a.run \in Runs
    BY <1>1 DEF TableInv, TypeOK
  <2>2. NoKey \notin Keys
    BY NullsAssumption
  <2>3. \A a \in answered : /\ Stored(a.run) /\ rows[a.run].key = a.key
                            /\ rows[a.run].payload = a.payload /\ a.key # NoKey
    BY <2>1, <2>2 DEF KeysInv
  <2>4. \A q, r \in Runs : Stored(q) /\ Stored(r) /\ rows[q].key = rows[r].key
                               /\ rows[r].key # NoKey => q = r
    BY <2>1 DEF KeysInv
  <2>5. \A a, b \in answered : a.key = b.key => a.run = b.run
    BY <2>1, <2>3, <2>4
  <2>6. \A a \in answered : \A q \in Runs \ {a.run} : Stored(q) => rows[q].key # a.key
    BY <2>1, <2>3, <2>4
  <2> QED
    BY <2>3, <2>5, <2>6 DEF OneRunPerKey
<1>2. TableInv => OneRunPerKey
  BY <1>1
<1> QED
  BY <1>2, AlwaysTable, PTL

-----------------------------------------------------------------------------
(* The row as a repository of its own *)

\* The operators on step records are the same in both repositories.
LEMMA ContractRecords ==
    /\ Contract!Steps = Steps
    /\ \A rec, w, t : Contract!StartAttempt(rec, w, t) = StartAttempt(rec, w, t)
    /\ \A s, rec, kind, output, backoff :
           Contract!EndAttempt(s, rec, kind, output, backoff) = EndAttempt(s, rec, kind, output, backoff)
    /\ \A rec : Contract!CancelStep(rec) = CancelStep(rec)
    /\ \A s, rec : Contract!RecoveryKind(s, rec) = RecoveryKind(s, rec)
    /\ \A s, rec : Contract!Available(s, rec) <=> Available(s, rec)
    /\ \A k, c : Contract!CompletionMatchesClaim(k, c) <=> CompletionMatchesClaim(k, c)
    /\ \A S, i : Contract!NthStep(S, i) = NthStep(S, i)
    /\ \A kind, s, n : Contract!StepEvent(kind, s, n) = StepEvent(kind, s, n)
    /\ \A kind, st : Contract!RunEvent(kind, st) = RunEvent(kind, st)
    /\ Contract!NoLease = NoLease /\ Contract!Terminal = Terminal
    /\ Contract!StepCompletion = StepCompletion
    /\ Contract!StepEventKinds = StepEventKinds /\ Contract!Announces = Announces
    /\ Contract!Runs = 1..1
<1>1. Contract!Steps = Steps /\ Contract!Runs = 1..1
  BY DEF Steps, Contract!Steps, Contract!Runs
<1>2. \A rec, w, t : Contract!StartAttempt(rec, w, t) = StartAttempt(rec, w, t)
  BY DEF StartAttempt, Contract!StartAttempt
<1>3. Contract!Announces = Announces /\ Contract!NoLease = NoLease
  BY DEF Announces, Contract!Announces, NoLease, Contract!NoLease
<1>3a. Contract!StepEventKinds = StepEventKinds /\ Contract!Terminal = Terminal
  BY <1>3 DEF StepEventKinds, Contract!StepEventKinds, Terminal, Contract!Terminal
<1>4. \A rec, st : Contract!CloseAttempt(rec, st) = CloseAttempt(rec, st)
  BY DEF CloseAttempt, Contract!CloseAttempt
<1>5. \A s, rec, kind, output, backoff :
          Contract!EndAttempt(s, rec, kind, output, backoff) = EndAttempt(s, rec, kind, output, backoff)
  BY <1>3, <1>4 DEF EndAttempt, Contract!EndAttempt
<1>6. \A rec : Contract!CancelStep(rec) = CancelStep(rec)
  <2>1. \A seq : Contract!Last(seq) = Last(seq)
    BY DEF Last, Contract!Last
  <2> QED
    BY <1>3, <1>4, <2>1 DEF CancelStep, Contract!CancelStep
<1>7. \A s : Contract!Budget(s) = Budget(s)
  BY DEF Budget, Contract!Budget
<1>8. \A s, rec : Contract!RecoveryKind(s, rec) = RecoveryKind(s, rec)
  BY <1>7 DEF RecoveryKind, Contract!RecoveryKind
<1>9. \A s, rec : Contract!Available(s, rec) <=> Available(s, rec)
  BY <1>3, <1>7 DEF Available, Contract!Available
<1>10. \A k, c : Contract!CompletionMatchesClaim(k, c) <=> CompletionMatchesClaim(k, c)
  BY <1>7 DEF CompletionMatchesClaim, Contract!CompletionMatchesClaim
<1>11. \A S, i : Contract!NthStep(S, i) = NthStep(S, i)
  <2>1. \A S : Contract!Cardinality(S) = Cardinality(S)
    BY DEF Cardinality, Contract!Cardinality
  <2> QED
    BY <2>1 DEF NthStep, Contract!NthStep
<1>12. \A kind, s, n : Contract!StepEvent(kind, s, n) = StepEvent(kind, s, n)
  BY DEF StepEvent, Contract!StepEvent
<1>13. \A kind, st : Contract!RunEvent(kind, st) = RunEvent(kind, st)
  BY DEF RunEvent, Contract!RunEvent
<1>14. Contract!StepCompletion = StepCompletion
  BY DEF StepCompletion, Contract!StepCompletion
<1> QED
  BY <1>1, <1>2, <1>3, <1>3a, <1>5, <1>6, <1>8, <1>9, <1>10, <1>11, <1>12, <1>13, <1>14

\* A step that leaves the row and what was claimed and answered of it alone.
LEMMA OtherRow ==
    ASSUME rows'[row] = rows[row], Alone(claims') = Alone(claims),
           Alone(answered') = Alone(answered)
    PROVE  UNCHANGED Contract!vars
BY DEF Contract!vars, Stored

\* A claim or answer of this run is one more for its repository.
LEMMA AloneAdds ==
    ASSUME NEW S, NEW c, c.run = row
    PROVE  Alone(S \cup {c}) = Alone(S) \cup {[c EXCEPT !.run = 1]}
BY DEF Alone

\* The request and the index of the repository that holds the row alone.
Created == <<Only([key |-> rows[row].key, payload |-> rows[row].payload]),
             [k \in Keys |-> IF Stored(row) /\ rows[row].key = k THEN 1 ELSE NoRun]>>

\* A transaction on the stored row changes neither.
LEMMA SameCreated ==
    ASSUME RowsInv, NEW run, Rewrites(row, run)
    PROVE  rows'[row] = run /\ UNCHANGED Created
<1>1. rows'[row] = run
  BY RowAssumption, RewrittenRemain
<1>2. /\ Stored(row) /\ run.status # "Absent"
      /\ run.key = rows[row].key /\ run.payload = rows[row].payload
  BY DEF Rewrites
<1> QED
  BY <1>1, <1>2 DEF Stored, Only, Created

\* claim_next_step grants what the in-memory store would grant.
LEMMA ClaimMaps ==
    ASSUME RowsInv, NEW s \in Steps, NEW w \in Workers, ClaimStep(row, s, w)
    PROVE  Contract!ClaimStep(1, s, w)
<1> DEFINE old == rows[row]
           n   == NextLeaseToken(old)
           new == StartAttempt(old.steps[s], w, n)
           run == [old EXCEPT !.steps[s] = new]
<1>1. /\ Rewrites(row, run) /\ SameRun(old, run) /\ run.log = old.log
      /\ run.steps = [old.steps EXCEPT ![s] = new]
      /\ NextLeaseToken(run) = n + 1 /\ n \in Nat \ {0}
  BY RowAssumption, ClaimRow
<1>2. rows'[row] = run /\ UNCHANGED Created
  BY <1>1, SameCreated
<1>3. Contract!NextClaimable(1, s, w)
  BY ContractRecords DEF Contract!NextClaimable, Contract!Claimable, Contract!Ready, Only,
     ClaimStep, Grant, Claimable
<1> HIDE DEF run
<1>4. (NextLeaseToken(rows[row]) - 1)' = NextLeaseToken(rows[row]) - 1 + 1
      /\ (NextLeaseToken(rows[row]) - 1)' = n
  BY <1>1, <1>2 DEF n, old
<1>5. Only(rows[row].steps)' = [Only(rows[row].steps) EXCEPT ![1][s] = new]
  BY <1>1, <1>2 DEF Only, old
<1>6. UNCHANGED <<Only(rows[row].status), Only(rows[row].log), Only(rows[row].gatesPassed),
                  LastSequence(rows[row]), Alone(answered)>>
  BY <1>1, <1>2 DEF Only, SameRun, old, LastSequence, ClaimStep
<1>7. Alone(claims)' = Alone(claims) \cup
          {[run |-> 1, step |-> s, task |-> old.steps[s].task, worker |-> w,
            token |-> n, attempt |-> new.attempts, fallbackUsed |-> old.steps[s].fallbackUsed,
            input |-> [d \in Deps[s] |-> old.steps[d].output]]}
  <2> DEFINE input == [d \in Deps[s] |-> old.steps[d].output]
  <2>1. claims' = claims \cup
            {[run |-> row, step |-> s, task |-> new.task, worker |-> w, token |-> n,
              attempt |-> new.attempts, fallbackUsed |-> new.fallbackUsed, input |-> input]}
    BY DEF ClaimStep
  <2>2. old.steps[s] \in StepRecord
    BY RowAssumption DEF RowsInv, SoundRow, Row
  <2>3. new.task = old.steps[s].task /\ new.fallbackUsed = old.steps[s].fallbackUsed
    <3> HIDE DEF n
    <3> QED
      BY <2>2 DEF StartAttempt, StepRecord
  <2> HIDE DEF new, n, old, input
  <2> DEFINE used    == old.steps[s].fallbackUsed
             task    == old.steps[s].task
             attempt == new.attempts
             c == [run |-> row, step |-> s, task |-> task, worker |-> w, token |-> n,
                   attempt |-> attempt, fallbackUsed |-> used, input |-> input]
             d == [run |-> 1, step |-> s, task |-> task, worker |-> w, token |-> n,
                   attempt |-> attempt, fallbackUsed |-> used, input |-> input]
  <2>4. claims' = claims \cup {c}
    BY <2>1, <2>3
  <2> HIDE DEF used, task, attempt
  <2>5. c.run = row /\ [c EXCEPT !.run = 1] = d
    OBVIOUS
  <2> HIDE DEF c
  <2>6. Alone(claims') = Alone(claims) \cup {[c EXCEPT !.run = 1]}
    BY <2>4, <2>5, AloneAdds
  <2> QED
    BY <2>5, <2>6 DEF input, used, task, attempt
<1>8. \A x : Only(x)[1] = x
  BY DEF Only
<1>9. Contract!StartAttempt(Only(rows[row].steps)[1][s], w, (NextLeaseToken(rows[row]) - 1)') = new
  BY <1>4, <1>8, ContractRecords
<1> HIDE DEF new
<1> QED
  BY <1>2, <1>3, <1>4, <1>5, <1>6, <1>7, <1>8, <1>9 DEF Contract!ClaimStep, n, old, Created

\* Functions on one run.
LEMMA OnlyOne ==
    /\ \A x : Only(x)[1] = x
    /\ \A x, y : [Only(x) EXCEPT ![1] = y] = Only(y)
<1>1. ASSUME NEW x, NEW y PROVE Only(x)[1] = x /\ [Only(x) EXCEPT ![1] = y] = Only(y)
  BY DEF Only
<1> QED
  BY <1>1

\* append_event with the row's own sequence.
LEMMA AppendMaps ==
    ASSUME NEW e, LastSequence(rows'[row]) = LastSequence(rows[row]) + 1,
           rows'[row].log = Append(rows[row].log,
                                   [sequence |-> LastSequence(rows[row]) + 1, event |-> e])
    PROVE  Contract!AppendEvent(1, e)
<1> DEFINE old == rows[row].log
           new == Append(old, [sequence |-> LastSequence(rows[row]) + 1, event |-> e])
<1>1. Only(rows[row].log)' = Only(new)
  BY DEF Only
<1>2. Only(new) = [Only(old) EXCEPT ![1] = new]
  <2> HIDE DEF new, old
  <2> QED
    BY OnlyOne
<1>3. Only(old)[1] = old
  BY OnlyOne
<1>4. LastSequence(rows[row])' = LastSequence(rows[row]) + 1
  OBVIOUS
<1>5. new = Append(Only(old)[1], [sequence |-> LastSequence(rows[row])', event |-> e])
  BY <1>3, <1>4
<1> QED
  BY <1>1, <1>2, <1>4, <1>5 DEF Contract!AppendEvent

\* The claim as the contract of the row knows it.
LEMMA AloneClaim ==
    ASSUME ClaimsInv, NEW c \in claims, c.run = row
    PROVE  LET d == [c EXCEPT !.run = 1]
           IN  /\ d \in Alone(claims) /\ d.run = 1 /\ d.step = c.step /\ d.worker = c.worker
               /\ d.token = c.token /\ d.attempt = c.attempt /\ d.fallbackUsed = c.fallbackUsed
<1>1. c \in ClaimOn(Runs)
  BY DEF ClaimsInv
<1>2. [c EXCEPT !.run = 1] \in Alone(claims)
  BY DEF Alone
<1> QED
  BY <1>1, <1>2 DEF ClaimOn

\* renew_step.
LEMMA RenewMaps ==
    ASSUME ClaimsInv, NEW c \in claims, c.run = row, RenewStep(c)
    PROVE  \E d \in Alone(claims) : Contract!RenewStep(d)
<1> DEFINE old == rows[row]
           run == [old EXCEPT !.steps[c.step].lease.left = LeaseTicks]
           d   == [c EXCEPT !.run = 1]
<1>1. /\ Rewrites(row, run) /\ SameRun(old, run) /\ run.log = old.log
      /\ run.steps = [old.steps EXCEPT ![c.step].lease.left = LeaseTicks]
      /\ NextLeaseToken(run) = NextLeaseToken(old)
  BY RenewRow
<1>2. rows'[row] = run /\ UNCHANGED Created
  BY <1>1, SameCreated DEF ClaimsInv
<1>3. /\ d \in Alone(claims) /\ d.run = 1 /\ d.step = c.step /\ d.worker = c.worker
      /\ d.token = c.token
  BY AloneClaim
<1> HIDE DEF run, d
<1>4. Contract!HoldsLease(d)
  BY <1>3, OnlyOne DEF Contract!HoldsLease, RenewStep, HoldsLease
<1>5. Only(rows[row].steps)' =
          [Only(rows[row].steps) EXCEPT ![d.run][d.step].lease.left = LeaseTicks]
  BY <1>1, <1>2, <1>3 DEF Only, old
<1>6. UNCHANGED <<Only(rows[row].status), Only(rows[row].log), Only(rows[row].gatesPassed),
                  NextLeaseToken(rows[row]) - 1, LastSequence(rows[row]),
                  Alone(claims), Alone(answered)>>
  BY <1>1, <1>2 DEF Only, SameRun, old, LastSequence, RenewStep
<1>7. Contract!RenewStep(d)
  BY <1>2, <1>4, <1>5, <1>6 DEF Contract!RenewStep, Created
<1> QED
  BY <1>3, <1>7

\* complete_step.
LEMMA CompleteMaps ==
    ASSUME ClaimsInv, NEW c \in claims, c.run = row, NEW k \in StepCompletion, CompleteStep(c, k)
    PROVE  \E d \in Alone(claims) : Contract!CompleteStep(d, k)
<1> DEFINE old == rows[row]
           new == EndAttempt(c.step, old.steps[c.step], k.kind, k.output, k.backoff)
           e   == StepEvent(k.kind, c.step, c.attempt)
           run == AppendRunEvent([old EXCEPT !.steps[c.step] = new], e)
           d   == [c EXCEPT !.run = 1]
<1>1. /\ Rewrites(row, run) /\ SameRun(old, run)
      /\ run.steps = [old.steps EXCEPT ![c.step] = new]
      /\ run.log = Append(old.log, [sequence |-> LastSequence(old) + 1, event |-> e])
      /\ LastSequence(run) = LastSequence(old) + 1
      /\ NextLeaseToken(run) = NextLeaseToken(old)
  BY CompleteRow
<1> HIDE DEF run
<1>2. rows'[row] = run /\ UNCHANGED Created
  BY <1>1, SameCreated DEF ClaimsInv
<1>3. /\ d \in Alone(claims) /\ d.run = 1 /\ d.step = c.step /\ d.worker = c.worker
      /\ d.token = c.token /\ d.attempt = c.attempt /\ d.fallbackUsed = c.fallbackUsed
  BY AloneClaim
<1> HIDE DEF d
<1>4. Contract!HoldsLease(d)
  BY <1>3, OnlyOne DEF Contract!HoldsLease, CompleteStep, HoldsLease
<1>5. Contract!CompletionMatchesClaim(k, d)
  <2>1. CompletionMatchesClaim(k, c)
    BY DEF CompleteStep
  <2>2. CompletionMatchesClaim(k, d)
    BY <1>3, <2>1 DEF CompletionMatchesClaim
  <2> QED
    BY <2>2, ContractRecords
<1>6. /\ Contract!EndAttempt(d.step, Only(rows[row].steps)[d.run][d.step],
                             k.kind, k.output, k.backoff) = new
      /\ Contract!StepEvent(k.kind, d.step, d.attempt) = e
  BY <1>3, OnlyOne, ContractRecords
<1> HIDE DEF new, e
<1>7. Only(rows[row].steps)' = [Only(rows[row].steps) EXCEPT ![d.run][d.step] = new]
  BY <1>1, <1>2, <1>3 DEF Only, old
<1>9. Contract!AppendEvent(d.run, e)
  BY <1>1, <1>2, <1>3, AppendMaps DEF old
<1>10. UNCHANGED <<Only(rows[row].status), Only(rows[row].gatesPassed),
                   NextLeaseToken(rows[row]) - 1, Alone(claims), Alone(answered)>>
  BY <1>1, <1>2 DEF Only, SameRun, old, CompleteStep
<1>11. Contract!CompleteStep(d, k)
  BY <1>2, <1>4, <1>5, <1>6, <1>7, <1>9, <1>10 DEF Contract!CompleteStep, Created
<1> QED
  BY <1>3, <1>11

\* record_event: event_is_valid_for_record judges the row as it would the run.
LEMMA EventMaps ==
    ASSUME RowsInv, NEW e \in StepEventsOf(rows[row]) \cup RunEventsOf, RecordEvent(row, e)
    PROVE  \E f \in Contract!StepEventsOf(1) \cup Contract!RunEventsOf : Contract!RecordEvent(1, f)
<1> DEFINE old == rows[row]
           run == AppendRunEvent(old, e)
<1>1. /\ Rewrites(row, run) /\ SameRun(old, run) /\ run.steps = old.steps
      /\ run.log = Append(old.log, [sequence |-> LastSequence(old) + 1, event |-> e])
      /\ LastSequence(run) = LastSequence(old) + 1
      /\ NextLeaseToken(run) = NextLeaseToken(old)
  BY RowAssumption, EventRow
<1> HIDE DEF run
<1>2. rows'[row] = run /\ UNCHANGED Created
  BY <1>1, SameCreated
<1>3. e \in Contract!StepEventsOf(1) \cup Contract!RunEventsOf
  BY OnlyOne, ContractRecords
  DEF StepEventsOf, RunEventsOf, Contract!StepEventsOf, Contract!RunEventsOf
<1>4. Contract!EventIsValid(1, e)
  <2>1. EventIsValid(rows[row], e)
    BY DEF RecordEvent
  <2>2. Contract!StepEventIsValid(1, e) <=> StepEventIsValid(rows[row], e)
    BY OnlyOne, ContractRecords
    DEF StepEventIsValid, Contract!StepEventIsValid, Logged, Contract!Logged
  <2>3. Contract!RunEventIsValid(1, e) <=> RunEventIsValid(rows[row], e)
    BY OnlyOne, ContractRecords
    DEF RunEventIsValid, Contract!RunEventIsValid, Contract!LoggedKind
  <2> QED
    BY <2>1, <2>2, <2>3, ContractRecords DEF EventIsValid, Contract!EventIsValid
<1>5. Contract!AppendEvent(1, e)
  BY <1>1, <1>2, AppendMaps DEF old
<1>6. UNCHANGED <<Only(rows[row].status), Only(rows[row].steps), Only(rows[row].gatesPassed),
                  NextLeaseToken(rows[row]) - 1, Alone(claims), Alone(answered)>>
  BY <1>1, <1>2 DEF Only, SameRun, old, RecordEvent
<1>7. Contract!RecordEvent(1, e)
  BY <1>2, <1>4, <1>5, <1>6 DEF Contract!RecordEvent, Created
<1> QED
  BY <1>3, <1>7

\* finish_run, whether or not the metrics it wrote can be read again.
LEMMA FinishMaps ==
    ASSUME RowsInv, NEW pass \in BOOLEAN, NEW finite \in BOOLEAN, FinishRun(row, pass, finite)
    PROVE  Contract!FinishRun(1, pass)
<1> DEFINE old     == rows[row]
           verdict == Verdict([old EXCEPT !.gatesPassed = pass], pass)
<1>1. PICK run :
          /\ Rewrites(row, run) /\ run.steps = old.steps
          /\ run.status = verdict /\ run.gatesPassed = pass
          /\ NextLeaseToken(run) = NextLeaseToken(old)
          /\ \/ /\ verdict = old.status /\ run.log = old.log
                /\ LastSequence(run) = LastSequence(old)
             \/ /\ verdict # old.status
                /\ Cardinality(FinishEvents(old)) < MaxFinishEvents
                /\ run.log = Append(old.log, [sequence |-> LastSequence(old) + 1,
                                              event |-> RunEvent("RunFinished", verdict)])
                /\ LastSequence(run) = LastSequence(old) + 1
  BY RowAssumption, FinishRow
<1>2. rows'[row] = run /\ UNCHANGED Created
  BY <1>1, SameCreated
<1>3. Contract!RunVerdict(1, pass) = verdict
  <2>1. old \in Row
    BY RowAssumption DEF RowsInv
  <2>2. /\ [old EXCEPT !.gatesPassed = pass].steps = old.steps
        /\ [old EXCEPT !.gatesPassed = pass].status = old.status
    BY <2>1 DEF Row
  <2> QED
    BY <2>2, OnlyOne, ContractRecords DEF Contract!RunVerdict, Verdict
<1>4. Contract!FinishEvents(1) = FinishEvents(old) /\ \A S : Contract!Cardinality(S) = Cardinality(S)
  BY OnlyOne DEF Contract!FinishEvents, FinishEvents, Cardinality, Contract!Cardinality
<1> HIDE DEF verdict
<1>5. /\ Only(rows[row].gatesPassed)' = [Only(rows[row].gatesPassed) EXCEPT ![1] = pass]
      /\ Only(rows[row].status)' = [Only(rows[row].status) EXCEPT ![1] = verdict]
  BY <1>1, <1>2, OnlyOne
<1>6. /\ old.status # "Absent"
      /\ pass \in (IF HasGates THEN BOOLEAN ELSE {TRUE})
  BY DEF FinishRun, Loads, Stored
<1>7. UNCHANGED <<Only(rows[row].steps), NextLeaseToken(rows[row]) - 1,
                  Alone(claims), Alone(answered)>>
  BY <1>1, <1>2 DEF Only, old, FinishRun
<1>8. CASE verdict = old.status /\ run.log = old.log /\ LastSequence(run) = LastSequence(old)
  <2>1. UNCHANGED <<Only(rows[row].log), LastSequence(rows[row])>>
    BY <1>2, <1>8
  <2> QED
    BY <1>2, <1>3, <1>5, <1>6, <1>7, <1>8, <2>1, OnlyOne DEF Contract!FinishRun, Created
<1>9. CASE /\ verdict # old.status
           /\ Cardinality(FinishEvents(old)) < MaxFinishEvents
           /\ run.log = Append(old.log, [sequence |-> LastSequence(old) + 1,
                                         event |-> RunEvent("RunFinished", verdict)])
           /\ LastSequence(run) = LastSequence(old) + 1
  <2>1. Contract!AppendEvent(1, RunEvent("RunFinished", verdict))
    BY <1>2, <1>9, AppendMaps
  <2>2. Contract!AppendEvent(1, Contract!RunEvent("RunFinished", verdict))
    BY <2>1, ContractRecords
  <2> QED
    BY <1>2, <1>3, <1>4, <1>5, <1>6, <1>7, <1>9, <2>2, OnlyOne DEF Contract!FinishRun, Created
<1> QED
  BY <1>1, <1>8, <1>9

\* cancel_run.
LEMMA CancelMaps ==
    ASSUME RowsInv, CancelRun(row)
    PROVE  Contract!CancelRun(1)
<1> DEFINE old == rows[row]
<1>1. PICK run :
          /\ Rewrites(row, run)
          /\ run.steps = [s \in Steps |-> CancelStep(old.steps[s])]
          /\ run.status = "Cancelled" /\ run.gatesPassed = old.gatesPassed
          /\ run.log = Append(old.log, [sequence |-> LastSequence(old) + 1,
                                        event |-> RunEvent("RunFinished", "Cancelled")])
          /\ LastSequence(run) = LastSequence(old) + 1
          /\ NextLeaseToken(run) = NextLeaseToken(old)
  BY RowAssumption, CancelRow
<1>2. rows'[row] = run /\ UNCHANGED Created
  BY <1>1, SameCreated
<1>3. old.status \notin Contract!Terminal \cup {"Absent"}
  BY ContractRecords DEF CancelRun, Loads, Stored
<1>4. [s \in Contract!Steps |-> Contract!CancelStep(old.steps[s])] = run.steps
  BY <1>1, ContractRecords
<1>5. Contract!AppendEvent(1, Contract!RunEvent("RunFinished", "Cancelled"))
  BY <1>1, <1>2, AppendMaps, ContractRecords
<1>6. UNCHANGED <<Only(rows[row].gatesPassed), NextLeaseToken(rows[row]) - 1,
                  Alone(claims), Alone(answered)>>
  BY <1>1, <1>2 DEF Only, CancelRun
<1>7. /\ Only(rows[row].status)' = [Only(rows[row].status) EXCEPT ![1] = "Cancelled"]
      /\ Only(rows[row].steps)' = [Only(rows[row].steps) EXCEPT ![1] = run.steps]
  BY <1>1, <1>2, OnlyOne
<1>8. Only(rows[row].steps)' = [Only(rows[row].steps) EXCEPT ![1] =
          [s \in Contract!Steps |-> Contract!CancelStep(Only(rows[row].steps)[1][s])]]
  BY <1>4, <1>7, OnlyOne
<1> QED
  BY <1>2, <1>3, <1>5, <1>6, <1>7, <1>8, OnlyOne DEF Contract!CancelRun, Created

\* The clock of the database.
LEMMA TimeMaps ==
    ASSUME RowsInv, NEW s \in Steps
    PROVE  /\ LeaseTicksDown(row, s) => Contract!LeaseTicksDown(1, s)
           /\ BackoffElapses(row, s) => Contract!BackoffElapses(1, s)
<1> DEFINE old == rows[row]
<1>1. ASSUME LeaseTicksDown(row, s) PROVE Contract!LeaseTicksDown(1, s)
  <2> DEFINE left == old.steps[s].lease.left - 1
             run  == [old EXCEPT !.steps[s].lease.left = left]
  <2>1. /\ Rewrites(row, run) /\ SameRun(old, run) /\ run.log = old.log
        /\ run.steps = [old.steps EXCEPT ![s].lease.left = left]
        /\ NextLeaseToken(run) = NextLeaseToken(old)
    BY <1>1, RowAssumption, TickRow
  <2> HIDE DEF run
  <2>2. rows'[row] = run /\ UNCHANGED Created
    BY <2>1, SameCreated
  <2>3. old.steps[s].lease # Contract!NoLease /\ old.steps[s].lease.left > 0
    BY <1>1, ContractRecords DEF LeaseTicksDown
  <2>4. Only(rows[row].steps)' =
            [Only(rows[row].steps) EXCEPT ![1][s].lease.left = Only(rows[row].steps)[1][s].lease.left - 1]
    BY <2>1, <2>2 DEF Only
  <2>5. UNCHANGED <<Only(rows[row].status), Only(rows[row].log), Only(rows[row].gatesPassed),
                    NextLeaseToken(rows[row]) - 1, LastSequence(rows[row]),
                    Alone(claims), Alone(answered)>>
    BY <1>1, <2>1, <2>2 DEF Only, SameRun, LastSequence, LeaseTicksDown
  <2> QED
    BY <2>2, <2>3, <2>4, <2>5, OnlyOne DEF Contract!LeaseTicksDown, Created
<1>2. ASSUME BackoffElapses(row, s) PROVE Contract!BackoffElapses(1, s)
  <2> DEFINE run == [old EXCEPT !.steps[s].backoff = "Elapsed"]
  <2>1. /\ Rewrites(row, run) /\ SameRun(old, run) /\ run.log = old.log
        /\ run.steps = [old.steps EXCEPT ![s].backoff = "Elapsed"]
        /\ NextLeaseToken(run) = NextLeaseToken(old)
    BY <1>2, RowAssumption, ElapseRow
  <2> HIDE DEF run
  <2>2. rows'[row] = run /\ UNCHANGED Created
    BY <2>1, SameCreated
  <2>3. old.steps[s].backoff = "Pending"
    BY <1>2 DEF BackoffElapses
  <2>4. Only(rows[row].steps)' = [Only(rows[row].steps) EXCEPT ![1][s].backoff = "Elapsed"]
    BY <2>1, <2>2 DEF Only
  <2>5. UNCHANGED <<Only(rows[row].status), Only(rows[row].log), Only(rows[row].gatesPassed),
                    NextLeaseToken(rows[row]) - 1, LastSequence(rows[row]),
                    Alone(claims), Alone(answered)>>
    BY <1>2, <2>1, <2>2 DEF Only, SameRun, LastSequence, BackoffElapses
  <2> QED
    BY <2>2, <2>3, <2>4, <2>5, OnlyOne DEF Contract!BackoffElapses, Created
<1> QED
  BY <1>1, <1>2

\* The clock of the database, set back.
LEMMA TimeBackMaps ==
    ASSUME RowsInv, NEW s \in Steps
    PROVE  /\ LeaseRevives(row, s) => Contract!ClockStepsBack(1, s)
           /\ BackoffReturns(row, s) => Contract!ClockStepsBack(1, s)
<1> DEFINE old == rows[row]
<1>1. ASSUME LeaseRevives(row, s) PROVE Contract!ClockStepsBack(1, s)
  <2> DEFINE left == old.steps[s].lease.left + 1
             run  == [old EXCEPT !.steps[s].lease.left = left]
  <2>1. /\ Rewrites(row, run) /\ SameRun(old, run) /\ run.log = old.log
        /\ run.steps = [old.steps EXCEPT ![s].lease.left = left]
        /\ NextLeaseToken(run) = NextLeaseToken(old)
    BY <1>1, RowAssumption, ReviveRow
  <2> HIDE DEF run
  <2>2. rows'[row] = run /\ UNCHANGED Created
    BY <2>1, SameCreated
  <2>3. old.steps[s].lease # Contract!NoLease /\ old.steps[s].lease.left < LeaseTicks
    BY <1>1, ContractRecords DEF LeaseRevives
  <2>4. Only(rows[row].steps)' =
            [Only(rows[row].steps) EXCEPT ![1][s].lease.left = Only(rows[row].steps)[1][s].lease.left + 1]
    BY <2>1, <2>2 DEF Only
  <2>5. UNCHANGED <<Only(rows[row].status), Only(rows[row].log), Only(rows[row].gatesPassed),
                    NextLeaseToken(rows[row]) - 1, LastSequence(rows[row]),
                    Alone(claims), Alone(answered)>>
    BY <1>1, <2>1, <2>2 DEF Only, SameRun, LastSequence, LeaseRevives
  <2> QED
    BY <2>2, <2>3, <2>4, <2>5, OnlyOne DEF Contract!ClockStepsBack, Created
<1>2. ASSUME BackoffReturns(row, s) PROVE Contract!ClockStepsBack(1, s)
  <2> DEFINE run == [old EXCEPT !.steps[s].backoff = "Pending"]
  <2>1. /\ Rewrites(row, run) /\ SameRun(old, run) /\ run.log = old.log
        /\ run.steps = [old.steps EXCEPT ![s].backoff = "Pending"]
        /\ NextLeaseToken(run) = NextLeaseToken(old)
    BY <1>2, RowAssumption, ReturnRow
  <2> HIDE DEF run
  <2>2. rows'[row] = run /\ UNCHANGED Created
    BY <2>1, SameCreated
  <2>3. old.steps[s].backoff = "Elapsed"
    BY <1>2 DEF BackoffReturns
  <2>4. Only(rows[row].steps)' = [Only(rows[row].steps) EXCEPT ![1][s].backoff = "Pending"]
    BY <2>1, <2>2 DEF Only
  <2>5. UNCHANGED <<Only(rows[row].status), Only(rows[row].log), Only(rows[row].gatesPassed),
                    NextLeaseToken(rows[row]) - 1, LastSequence(rows[row]),
                    Alone(claims), Alone(answered)>>
    BY <1>2, <2>1, <2>2 DEF Only, SameRun, LastSequence, BackoffReturns
  <2> QED
    BY <2>2, <2>3, <2>4, <2>5, OnlyOne DEF Contract!ClockStepsBack, Created
<1> QED
  BY <1>1, <1>2

\* The commit of create_run is the in-memory store's create_run.
LEMMA CommitMaps ==
    ASSUME TableInv, NEW c \in Clients, CommitCreate(c), creating[c].run = row
    PROVE  \E key \in Keys \cup {NoKey}, p \in Payloads : Contract!CreateRun(1, key, p)
<1> DEFINE me  == creating[c]
           run == AppendRunEvent(
                      [NoRow EXCEPT !.status = "Running", !.key = me.key, !.payload = me.payload],
                      RunEvent("RunStarted", "Running"))
           index == [k \in Keys |-> IF Stored(row) /\ rows[row].key = k THEN 1 ELSE NoRun]
<1>1. /\ me.key \in Keys \cup {NoKey} /\ me.payload \in Payloads
      /\ rows[row] = NoRow /\ ~Stored(row)
      /\ run.status = "Running" /\ run.key = me.key /\ run.payload = me.payload
      /\ rows'[row] = run
  BY CommitRow
<1>2. /\ run.steps = NoRow.steps /\ run.gatesPassed = NoRow.gatesPassed
      /\ run.log = Append(<<>>, [sequence |-> 1, event |-> RunEvent("RunStarted", "Running")])
      /\ LastSequence(NoRow) = 0 /\ LastSequence(run) = 1
      /\ NextLeaseToken(run) = NextLeaseToken(NoRow)
  BY <1>1, NewRow
<1> HIDE DEF run, me
<1>3. /\ rows[row].status = "Absent" /\ rows[row].log = <<>>
      /\ \A k \in Keys : index[k] = NoRun
  BY <1>1 DEF NoRow
<1>4. index' = [k \in Keys |-> IF k = me.key THEN 1 ELSE index[k]]
  <2>1. Stored(row)'
    BY <1>1 DEF Stored
  <2>2. index' = [k \in Keys |-> IF k = me.key THEN 1 ELSE NoRun]
    BY <1>1, <2>1
  <2> HIDE DEF index
  <2> QED
    BY <1>3, <2>2
<1>5. Contract!AppendEvent(1, Contract!RunEvent("RunStarted", "Running"))
  <2>1. /\ LastSequence(rows'[row]) = LastSequence(rows[row]) + 1
        /\ rows'[row].log = Append(rows[row].log, [sequence |-> LastSequence(rows[row]) + 1,
                                                   event |-> RunEvent("RunStarted", "Running")])
    BY <1>1, <1>2, <1>3
  <2> QED
    BY <2>1, AppendMaps, ContractRecords
<1>6. /\ Only(rows[row].status)' = [Only(rows[row].status) EXCEPT ![1] = "Running"]
      /\ Only([key |-> rows[row].key, payload |-> rows[row].payload])' =
             [Only([key |-> rows[row].key, payload |-> rows[row].payload]) EXCEPT
                 ![1] = [key |-> me.key, payload |-> me.payload]]
  <2>1. /\ Only(rows[row].status)' = Only("Running")
        /\ Only([key |-> rows[row].key, payload |-> rows[row].payload])' =
               Only([key |-> me.key, payload |-> me.payload])
    BY <1>1
  <2> QED
    BY <2>1, OnlyOne
<1>7. UNCHANGED <<Only(rows[row].steps), Only(rows[row].gatesPassed),
                  NextLeaseToken(rows[row]) - 1, Alone(claims)>>
  BY <1>1, <1>2 DEF CommitCreate
<1>8. Alone(answered)' = Alone(answered) \cup
          (IF me.key \in Keys
           THEN {[key |-> me.key, payload |-> me.payload, run |-> 1]} ELSE {})
  <2> DEFINE key == me.key
             payload == me.payload
             a == [key |-> key, payload |-> payload, run |-> row]
             b == [key |-> key, payload |-> payload, run |-> 1]
  <2>1. answered' = answered \cup (IF key = NoKey THEN {} ELSE {a})
    BY DEF CommitCreate, Answer, me
  <2>2. key = NoKey <=> key \notin Keys
    BY <1>1, NullsAssumption
  <2> HIDE DEF key, payload
  <2>3. a.run = row /\ [a EXCEPT !.run = 1] = b
    OBVIOUS
  <2> HIDE DEF a, b
  <2>4. Alone(answered \cup {a}) = Alone(answered) \cup {b}
    BY <2>3, AloneAdds
  <2>5. Alone(answered)' = Alone(answered) \cup (IF key \in Keys THEN {b} ELSE {})
    BY <2>1, <2>2, <2>4
  <2> QED
    BY <2>5 DEF key, payload, b
<1>9. PICK key \in Keys \cup {NoKey}, p \in Payloads : key = me.key /\ p = me.payload
  BY <1>1
<1>10. key \in Keys => index[key] = Contract!NoRun
  BY <1>3 DEF NoRun, Contract!NoRun
<1>11. Contract!CreateRun(1, key, p)
  BY <1>3, <1>4, <1>5, <1>6, <1>7, <1>8, <1>9, <1>10, OnlyOne DEF Contract!CreateRun
<1> QED
  BY <1>11

\* A repeated request is answered from the row, or is no business of the row.
LEMMA AnswerMaps ==
    ASSUME TableInv, UNCHANGED <<rows, claims>>,
           NEW key \in Keys \cup {NoKey}, NEW p \in Payloads, NEW q \in Runs,
           Stored(q), rows[q].key = key, rows[q].payload = p, Answer(key, p, q)
    PROVE  (Contract!AnswerDuplicate(key, p) /\ key \in Keys) \/ UNCHANGED Contract!vars
<1> DEFINE a == [key |-> key, payload |-> p, run |-> q]
<1>1. CASE key = NoKey
  <2>1. answered' = answered
    BY <1>1 DEF Answer
  <2> QED
    BY <2>1, OtherRow
<1>2. CASE key # NoKey /\ q # row
  <2>1. answered' = answered \cup {a} /\ a.run # row
    BY <1>2 DEF Answer
  <2> HIDE DEF a
  <2>2. Alone(answered') = Alone(answered)
    BY <2>1 DEF Alone
  <2> QED
    BY <2>2, OtherRow
<1>3. CASE key # NoKey /\ q = row
  <2> DEFINE b == [key |-> key, payload |-> p, run |-> 1]
             index == [k \in Keys |-> IF Stored(row) /\ rows[row].key = k THEN 1 ELSE NoRun]
  <2>1. answered' = answered \cup {a}
    BY <1>3 DEF Answer
  <2>2. a.run = row /\ [a EXCEPT !.run = 1] = b
    BY <1>3
  <2> HIDE DEF a, b
  <2>3. Alone(answered') = Alone(answered) \cup {b}
    BY <2>1, <2>2, AloneAdds
  <2>4. key \in Keys /\ index[key] = 1 /\ 1 # Contract!NoRun
    BY <1>3 DEF Contract!NoRun
  <2>5. Only([key |-> rows[row].key, payload |-> rows[row].payload])[1].payload = p
    BY <1>3 DEF Only
  <2>6. Contract!Repeats(key, p)
    BY <2>4, <2>5 DEF Contract!Repeats
  <2>7. index' = index
    BY DEF Stored
  <2>8. Contract!AnswerDuplicate(key, p)
    BY <2>3, <2>4, <2>6, <2>7 DEF Contract!AnswerDuplicate, b
  <2> QED
    BY <2>4, <2>8
<1> QED
  BY <1>1, <1>2, <1>3

\* A batch of recover_expired, as far as the row is in it.
LEMMA RecoverMaps ==
    ASSUME RowsInv, NEW B \in SUBSET Runs, RecoverExpired(B), row \in B
    PROVE  Contract!RecoverExpired
<1> DEFINE old  == rows[row]
           last == LastSequence(old)
           kind(s) == RecoveryKind(s, old.steps[s])
           before(r) == Contract!Cardinality({e \in Contract!Runs \X Contract!Steps :
                            e[1] < r /\ e[2] \in Contract!Expired(e[1])})
           event(i) == LET s == NthStep(Expired(old), i)
                       IN  StepEvent(kind(s), s, old.steps[s].attempts)
<1>1. /\ SoundRow(old) /\ old \in Row /\ old.steps \in [Steps -> StepRecord]
      /\ old.log \in Seq(EventEnvelope) /\ last \in Nat
  BY RowAssumption, LastSequenceType DEF RowsInv, SoundRow, Row
<1>2. rows'[row] = Recovered(old) /\ Expired(old) # {} /\ Stored(row)
  BY RowAssumption, BatchRemains DEF RecoverExpired, Loads
<1>3. /\ SoundRow(Recovered(old)) /\ SameRun(old, Recovered(old))
      /\ SameAttempts(old, Recovered(old))
      /\ Cardinality(Expired(old)) \in Nat
      /\ LastSequence(Recovered(old)) = last + Cardinality(Expired(old))
  BY <1>1, RecoveredRow
<1>4. NextLeaseToken(Recovered(old)) = NextLeaseToken(old)
  BY <1>1, <1>3, SameTokens
<1>5. UNCHANGED Created
  BY <1>2, <1>3 DEF Created, SameRun, Stored, Only
<1>6. \A S : Contract!Cardinality(S) = Cardinality(S)
  BY DEF Cardinality, Contract!Cardinality
<1>7. Contract!Expired(1) = Expired(old)
  BY OnlyOne, ContractRecords DEF Contract!Expired, Expired
<1>8. before(1) = 0 /\ before(1 + 1) = Cardinality(Expired(old))
  <2> DEFINE E == Expired(old)
             P == {e \in Contract!Runs \X Contract!Steps :
                       e[1] < 1 + 1 /\ e[2] \in Contract!Expired(e[1])}
  <2>1. {e \in Contract!Runs \X Contract!Steps :
            e[1] < 1 /\ e[2] \in Contract!Expired(e[1])} = {}
    BY ContractRecords
  <2>2. \A e : e \in P <=> e \in {1} \X E
    BY <1>7, ContractRecords DEF Expired
  <2>3. P = {1} \X E
    BY <2>2
  <2>4. Cardinality({1} \X E) = Cardinality(E)
    <3>1. IsFiniteSet(Steps)
      BY CountsAssumption, FS_Interval DEF Steps
    <3>2. IsFiniteSet(E)
      BY <3>1, FS_Subset DEF Expired
    <3>3. IsFiniteSet({1}) /\ Cardinality({1}) = 1
      BY FS_Singleton
    <3>4. Cardinality({1} \X E) = Cardinality({1}) * Cardinality(E)
      BY <3>2, <3>3, FS_Product
    <3> HIDE DEF E
    <3> QED
      BY <1>3, <3>3, <3>4 DEF E
  <2> QED
    BY <1>6, <2>1, <2>3, <2>4, FS_EmptySet
<1> DEFINE steps    == [s \in Steps |->
                           IF s \in Expired(old)
                           THEN EndAttempt(s, old.steps[s], kind(s), old.steps[s].output, "None")
                           ELSE old.steps[s]]
           appended == [i \in 1..Cardinality(Expired(old)) |->
                           [sequence |-> last + i, event |-> event(i)]]
<1>9. /\ Recovered(old).steps = steps /\ Recovered(old).log = old.log \o appended
  BY <1>1 DEF Recovered, Row
<1>10. /\ Only(rows[row].steps)' = Only(steps)
       /\ Only(rows[row].log)' = Only(old.log \o appended)
       /\ UNCHANGED <<Only(rows[row].status), Only(rows[row].gatesPassed),
                      NextLeaseToken(rows[row]) - 1, Alone(claims), Alone(answered)>>
  BY <1>2, <1>3, <1>4, <1>9 DEF SameRun, RecoverExpired
<1>11. Only(steps) = [r \in Contract!Runs |-> [s \in Contract!Steps |->
           IF s \in Contract!Expired(r)
           THEN Contract!EndAttempt(s, Only(rows[row].steps)[r][s],
                                    Contract!RecoveryKind(s, Only(rows[row].steps)[r][s]),
                                    Only(rows[row].steps)[r][s].output, "None")
           ELSE Only(rows[row].steps)[r][s]]]
  BY <1>7, OnlyOne, ContractRecords DEF Only
<1>12. Only(old.log \o appended) = [r \in Contract!Runs |->
           Only(rows[row].log)[r] \o
               [i \in 1..Contract!Cardinality(Contract!Expired(r)) |->
                   LET s == Contract!NthStep(Contract!Expired(r), i)
                   IN  [sequence |-> last + before(r) + i,
                        event |-> Contract!StepEvent(
                                      Contract!RecoveryKind(s, Only(rows[row].steps)[r][s]),
                                      s, Only(rows[row].steps)[r][s].attempts)]]]
  <2> DEFINE n == Cardinality(Expired(old))
             seen(r) == [i \in 1..Contract!Cardinality(Contract!Expired(r)) |->
                   LET s == Contract!NthStep(Contract!Expired(r), i)
                   IN  [sequence |-> last + before(r) + i,
                        event |-> Contract!StepEvent(
                                      Contract!RecoveryKind(s, Only(rows[row].steps)[r][s]),
                                      s, Only(rows[row].steps)[r][s].attempts)]]
  <2>1. Contract!Cardinality(Contract!Expired(1)) = n
    BY <1>6, <1>7
  <2>2. ASSUME NEW i \in 1..n
        PROVE  /\ last + before(1) + i = last + i
               /\ LET s == Contract!NthStep(Contract!Expired(1), i)
                  IN  Contract!StepEvent(Contract!RecoveryKind(s, Only(rows[row].steps)[1][s]),
                                         s, Only(rows[row].steps)[1][s].attempts) = event(i)
    <3>1. i \in Nat
      BY <1>3
    <3>2. last + before(1) + i = last + i
      <4> HIDE DEF before, last
      <4> QED
        BY <1>1, <1>8, <3>1
    <3> QED
      BY <1>7, <3>2, OnlyOne, ContractRecords
  <2>3. seen(1) = appended
    <3> HIDE DEF n, event, before, last
    <3> QED
      BY <2>1, <2>2 DEF n
  <2> HIDE DEF seen, appended
  <2>4. Only(rows[row].log)[1] \o seen(1) = old.log \o appended
    BY <2>3, OnlyOne
  <2>5. Only(old.log \o appended) = [r \in Contract!Runs |-> Only(rows[row].log)[r] \o seen(r)]
    BY <2>4, ContractRecords DEF Only
  <2> QED
    BY <2>5 DEF seen
<1>13. LastSequence(rows[row])' = last + before(1 + 1)
  BY <1>2, <1>3, <1>8
<1>14. \E r \in Contract!Runs : Contract!Expired(r) # {}
  BY <1>2, <1>7, ContractRecords
<1> QED
  BY <1>5, <1>10, <1>11, <1>12, <1>13, <1>14 DEF Contract!RecoverExpired, Created

-----------------------------------------------------------------------------
(* The row implements the contract *)

\* The claims and answers of other runs.
LEMMA AloneOmits ==
    ASSUME NEW S, NEW c, c.run # row
    PROVE  Alone(S \cup {c}) = Alone(S)
BY DEF Alone

\* A transaction on another row.
LEMMA ElsewhereMaps ==
    ASSUME RowsInv, NEW r \in Runs \ {row}, NEW run, Rewrites(r, run),
           Alone(claims') = Alone(claims), UNCHANGED answered
    PROVE  UNCHANGED Contract!vars
<1>1. rows'[row] = rows[row]
  BY RowAssumption, RewrittenRemain
<1> QED
  BY <1>1, OtherRow

ContractStep == Contract!Next \/ UNCHANGED Contract!vars

\* Claims on any row.
LEMMA ClaimStepMaps ==
    ASSUME RowsInv, NEW r \in Runs, NEW s \in Steps, NEW w \in Workers, ClaimStep(r, s, w)
    PROVE  ContractStep
<1>1. CASE r = row
  <2>1. Contract!ClaimStep(1, s, w)
    BY <1>1, ClaimMaps
  <2> QED
    BY <2>1, ContractRecords DEF ContractStep, Contract!Next
<1>2. CASE r # row
  <2>1. PICK run : Rewrites(r, run)
    BY ClaimRow
  <2>2. PICK c : claims' = claims \cup {c} /\ c.run = r
    <3> DEFINE new == StartAttempt(rows[r].steps[s], w, NextLeaseToken(rows[r]))
               c   == [run |-> r, step |-> s, task |-> new.task, worker |-> w,
                       token |-> NextLeaseToken(rows[r]), attempt |-> new.attempts,
                       fallbackUsed |-> new.fallbackUsed,
                       input |-> [d \in Deps[s] |-> rows[r].steps[d].output]]
    <3>1. claims' = claims \cup {c}
      BY DEF ClaimStep
    <3>2. c.run = r
      OBVIOUS
    <3> HIDE DEF c
    <3> QED
      BY <3>1, <3>2
  <2>3. Alone(claims') = Alone(claims)
    BY <1>2, <2>2, AloneOmits
  <2>4. UNCHANGED answered
    BY DEF ClaimStep
  <2> QED
    BY <1>2, <2>1, <2>3, <2>4, ElsewhereMaps DEF ContractStep
<1> QED
  BY <1>1, <1>2

\* Calls of a claim's holder on any row.
LEMMA CallMaps ==
    ASSUME ClaimsInv, NEW c \in claims
    PROVE  /\ RenewStep(c) => ContractStep
           /\ \A k \in StepCompletion : CompleteStep(c, k) => ContractStep
<1>1. RowsInv /\ c.run \in Runs
  BY DEF ClaimsInv, ClaimOn
<1>2. ASSUME RenewStep(c) PROVE ContractStep
  <2>1. CASE c.run = row
    <3>1. \E d \in Alone(claims) : Contract!RenewStep(d)
      BY <1>2, <2>1, RenewMaps
    <3> QED
      BY <3>1 DEF ContractStep, Contract!Next
  <2>2. CASE c.run # row
    <3>1. \E run : Rewrites(c.run, run)
      BY <1>2, RenewRow
    <3>2. UNCHANGED answered /\ Alone(claims') = Alone(claims)
      BY <1>2 DEF RenewStep
    <3> QED
      BY <1>1, <2>2, <3>1, <3>2, ElsewhereMaps DEF ContractStep
  <2> QED
    BY <2>1, <2>2
<1>3. ASSUME NEW k \in StepCompletion, CompleteStep(c, k) PROVE ContractStep
  <2>1. CASE c.run = row
    <3>1. \E d \in Alone(claims) : Contract!CompleteStep(d, k)
      BY <1>3, <2>1, CompleteMaps
    <3> QED
      BY <3>1, ContractRecords DEF ContractStep, Contract!Next
  <2>2. CASE c.run # row
    <3>1. \E run : Rewrites(c.run, run)
      BY <1>3, CompleteRow
    <3>2. UNCHANGED answered /\ Alone(claims') = Alone(claims)
      BY <1>3 DEF CompleteStep
    <3> QED
      BY <1>1, <2>2, <3>1, <3>2, ElsewhereMaps DEF ContractStep
  <2> QED
    BY <2>1, <2>2
<1> QED
  BY <1>2, <1>3

\* record_event, finish_run and cancel_run on any row.
LEMMA RunCallMaps ==
    ASSUME RowsInv, NEW r \in Runs
    PROVE  /\ \A e \in StepEventsOf(rows[r]) \cup RunEventsOf : RecordEvent(r, e) => ContractStep
           /\ \A pass, finite \in BOOLEAN : FinishRun(r, pass, finite) => ContractStep
           /\ CancelRun(r) => ContractStep
<1>1. ASSUME NEW e \in StepEventsOf(rows[r]) \cup RunEventsOf, RecordEvent(r, e)
      PROVE  ContractStep
  <2>1. CASE r = row
    <3>1. \E f \in Contract!StepEventsOf(1) \cup Contract!RunEventsOf : Contract!RecordEvent(1, f)
      BY <1>1, <2>1, EventMaps
    <3> QED
      BY <3>1, ContractRecords DEF ContractStep, Contract!Next
  <2>2. CASE r # row
    <3>1. \E run : Rewrites(r, run)
      BY <1>1, EventRow
    <3>2. UNCHANGED answered /\ Alone(claims') = Alone(claims)
      BY <1>1 DEF RecordEvent
    <3> QED
      BY <2>2, <3>1, <3>2, ElsewhereMaps DEF ContractStep
  <2> QED
    BY <2>1, <2>2
<1>2. ASSUME NEW pass \in BOOLEAN, NEW finite \in BOOLEAN, FinishRun(r, pass, finite)
      PROVE  ContractStep
  <2>1. CASE r = row
    <3>1. Contract!FinishRun(1, pass)
      BY <1>2, <2>1, FinishMaps
    <3> QED
      BY <3>1, ContractRecords DEF ContractStep, Contract!Next
  <2>2. CASE r # row
    <3>1. \E run : Rewrites(r, run)
      BY <1>2, FinishRow
    <3>2. UNCHANGED answered /\ Alone(claims') = Alone(claims)
      BY <1>2 DEF FinishRun
    <3> QED
      BY <2>2, <3>1, <3>2, ElsewhereMaps DEF ContractStep
  <2> QED
    BY <2>1, <2>2
<1>3. ASSUME CancelRun(r) PROVE ContractStep
  <2>1. CASE r = row
    <3>1. Contract!CancelRun(1)
      BY <1>3, <2>1, CancelMaps
    <3> QED
      BY <3>1, ContractRecords DEF ContractStep, Contract!Next
  <2>2. CASE r # row
    <3>1. \E run : Rewrites(r, run)
      BY <1>3, CancelRow
    <3>2. UNCHANGED answered /\ Alone(claims') = Alone(claims)
      BY <1>3 DEF CancelRun
    <3> QED
      BY <2>2, <3>1, <3>2, ElsewhereMaps DEF ContractStep
  <2> QED
    BY <2>1, <2>2
<1> QED
  BY <1>1, <1>2, <1>3

\* Time passing on any row.
LEMMA ClockMaps ==
    ASSUME RowsInv, Clock
    PROVE  ContractStep
<1>1. PICK r \in Runs, s \in Steps : LeaseTicksDown(r, s) \/ BackoffElapses(r, s)
  BY DEF Clock
<1>2. CASE r = row
  <2>1. Contract!LeaseTicksDown(1, s) \/ Contract!BackoffElapses(1, s)
    BY <1>1, <1>2, TimeMaps
  <2> QED
    BY <2>1, ContractRecords DEF ContractStep, Contract!Next
<1>3. CASE r # row
  <2>1. \E run : Rewrites(r, run)
    BY <1>1, TickRow, ElapseRow
  <2>2. UNCHANGED answered /\ Alone(claims') = Alone(claims)
    BY <1>1 DEF LeaseTicksDown, BackoffElapses
  <2> QED
    BY <1>3, <2>1, <2>2, ElsewhereMaps DEF ContractStep
<1> QED
  BY <1>2, <1>3

\* The clock set back for any row.
LEMMA ClockBackMaps ==
    ASSUME RowsInv, ClockStepsBack
    PROVE  ContractStep
<1>1. PICK r \in Runs, s \in Steps : LeaseRevives(r, s) \/ BackoffReturns(r, s)
  BY DEF ClockStepsBack
<1>2. CASE r = row
  <2>1. Contract!ClockStepsBack(1, s)
    BY <1>1, <1>2, TimeBackMaps
  <2> QED
    BY <2>1, ContractRecords DEF ContractStep, Contract!Next
<1>3. CASE r # row
  <2>1. \E run : Rewrites(r, run)
    BY <1>1, ReviveRow, ReturnRow
  <2>2. UNCHANGED answered /\ Alone(claims') = Alone(claims)
    BY <1>1 DEF LeaseRevives, BackoffReturns
  <2> QED
    BY <1>3, <2>1, <2>2, ElsewhereMaps DEF ContractStep
<1> QED
  BY <1>2, <1>3

\* Batches of recover_expired.
LEMMA RecoverStepMaps ==
    ASSUME RowsInv, NEW B \in SUBSET Runs, RecoverExpired(B)
    PROVE  ContractStep
<1>1. CASE row \in B
  BY <1>1, RecoverMaps DEF ContractStep, Contract!Next
<1>2. CASE row \notin B
  <2>1. rows'[row] = rows[row]
    BY <1>2, RowAssumption, BatchRemains
  <2>2. UNCHANGED answered /\ Alone(claims') = Alone(claims)
    BY DEF RecoverExpired
  <2> QED
    BY <2>1, <2>2, OtherRow DEF ContractStep
<1> QED
  BY <1>1, <1>2

\* A key and payload are answered from the row that has them.
LEMMA AnswerStepMaps ==
    ASSUME TableInv, UNCHANGED <<rows, claims>>,
           NEW key \in Keys \cup {NoKey}, NEW p \in Payloads, NEW q \in Runs,
           Stored(q), rows[q].key = key, rows[q].payload = p, Answer(key, p, q)
    PROVE  ContractStep
<1>1. (Contract!AnswerDuplicate(key, p) /\ key \in Keys) \/ UNCHANGED Contract!vars
  BY AnswerMaps
<1> QED
  BY <1>1 DEF ContractStep, Contract!Next

\* The statements of create_run.
LEMMA CreateMaps ==
    ASSUME TableInv, NEW c \in Clients, CreateStep(c)
    PROVE  ContractStep
<1>1. ASSUME UNCHANGED <<rows, claims, answered>> PROVE ContractStep
  <2>1. rows'[row] = rows[row] /\ Alone(claims') = Alone(claims)
        /\ Alone(answered') = Alone(answered)
    BY <1>1
  <2> QED
    BY <2>1, OtherRow DEF ContractStep
<1>2. CASE LookForRun(c) \/ Insert(c) \/ AbortCreate(c)
  BY <1>1, <1>2 DEF LookForRun, Insert, AbortCreate
<1>3. CASE CommitCreate(c)
  <2>1. CASE creating[c].run = row
    <3>1. \E key \in Keys \cup {NoKey}, p \in Payloads : Contract!CreateRun(1, key, p)
      BY <1>3, <2>1, CommitMaps
    <3> QED
      BY <3>1, ContractRecords DEF ContractStep, Contract!Next
  <2>2. CASE creating[c].run # row
    <3>1. rows'[row] = rows[row]
      BY <1>3, <2>2, RowAssumption, CommitRow
    <3>2. Alone(claims') = Alone(claims)
      BY <1>3 DEF CommitCreate
    <3>3. Alone(answered') = Alone(answered)
      <4>1. answered' = answered \/ \E a : answered' = answered \cup {a} /\ a.run # row
        BY <1>3, <2>2 DEF CommitCreate, Answer
      <4> QED
        BY <4>1, AloneOmits
    <3> QED
      BY <3>1, <3>2, <3>3, OtherRow DEF ContractStep
  <2> QED
    BY <2>1, <2>2
<1>4. CASE SelectAgain(c)
  <2>1. UNCHANGED <<rows, claims>>
    BY <1>4 DEF SelectAgain
  <2>2. CASE UNCHANGED answered
    BY <1>1, <2>1, <2>2
  <2>3. ASSUME NEW q \in Runs, Repeats(q, creating[c]),
               Answer(creating[c].key, creating[c].payload, q)
        PROVE  ContractStep
    <3>1. creating[c].key \in Keys \cup {NoKey} /\ creating[c].payload \in Payloads
      BY DEF TableInv, TypeOK, Creating
    <3>2. PICK key \in Keys \cup {NoKey}, p \in Payloads :
              key = creating[c].key /\ p = creating[c].payload
      BY <3>1
    <3>3. /\ Stored(q) /\ rows[q].key = key /\ rows[q].payload = p /\ Answer(key, p, q)
      BY <2>3, <3>2 DEF Repeats, Loads, Answer
    <3> QED
      BY <2>1, <3>3, AnswerStepMaps
  <2> QED
    BY <1>4, <2>2, <2>3 DEF SelectAgain
<1> QED
  BY <1>2, <1>3, <1>4 DEF CreateStep

\* The transactions of claim_next_runnable_step.
LEMMA PollMaps ==
    ASSUME TableInv, NEW w \in Workers, PollStep(w)
    PROVE  ContractStep
<1>1. CASE PollScans(w) \/ PollSkips(w) \/ PollFails(w)
  <2>1. rows'[row] = rows[row] /\ Alone(claims') = Alone(claims)
        /\ Alone(answered') = Alone(answered)
    BY <1>1 DEF PollScans, PollSkips, PollFails
  <2> QED
    BY <2>1, OtherRow DEF ContractStep
<1>2. ASSUME NEW s \in Steps, PollClaims(w, s) PROVE ContractStep
  <2>1. polling[w] \in Seq(Runs) /\ polling[w] # <<>>
    BY <1>2 DEF TableInv, TypeOK, PollClaims
  <2>2. PICK r \in Runs : r = Head(polling[w])
    BY <2>1
  <2>3. ClaimStep(r, s, w)
    BY <1>2, <2>2 DEF PollClaims, ClaimStep, Grant, Persist, Touch
  <2> QED
    BY <2>3, ClaimStepMaps DEF TableInv
<1> QED
  BY <1>1, <1>2 DEF PollStep

\* Every step of the table is one of the contract, or none, for the row.
LEMMA NextMaps ==
    ASSUME TableInv, [Next]_vars
    PROVE  ContractStep
<1>1. RowsInv /\ ClaimsInv
  BY DEF TableInv, TypeOK, ClaimsInv
<1>2. ASSUME UNCHANGED <<rows, claims, answered>> PROVE ContractStep
  <2>1. rows'[row] = rows[row] /\ Alone(claims') = Alone(claims)
        /\ Alone(answered') = Alone(answered)
    BY <1>2
  <2> QED
    BY <2>1, OtherRow DEF ContractStep
<1>3. CASE UNCHANGED vars
  BY <1>2, <1>3 DEF vars
<1>4. ASSUME NEW key \in Keys, NEW p \in Payloads, AnswerExisting(key, p)
      PROVE  ContractStep
  <2>1. PICK q \in Runs : Stored(q) /\ rows[q].key = key /\ rows[q].payload = p
                              /\ Answer(key, p, q)
    BY <1>4 DEF AnswerExisting, Loads
  <2>2. UNCHANGED <<rows, claims>>
    BY <1>4 DEF AnswerExisting
  <2> QED
    BY <2>1, <2>2, AnswerStepMaps
<1>5. ASSUME NEW c \in Clients, NEW r \in Runs, NEW key \in Keys \cup {NoKey}, NEW p \in Payloads,
             BeginCreate(c, r, key, p)
      PROVE  ContractStep
  BY <1>2, <1>5 DEF BeginCreate
<1>6. ASSUME NEW r \in Runs, NEW s \in Steps, NEW w \in Workers, ClaimNextStep(r, s, w)
      PROVE  ContractStep
  BY <1>1, <1>6, ClaimStepMaps DEF ClaimNextStep
<1> QED
  BY <1>1, <1>3, <1>4, <1>5, <1>6, CreateMaps, PollMaps, CallMaps, RunCallMaps,
     RecoverStepMaps, ClockMaps, ClockBackMaps DEF Next

\* The empty table is an empty repository.
LEMMA InitMaps == Init => Contract!Init
<1> SUFFICES ASSUME Init PROVE Contract!Init
  OBVIOUS
<1>1. rows[row] = NoRow /\ claims = {} /\ answered = {} /\ ~Stored(row)
  BY RowAssumption DEF Init, Stored, NoRow
<1>2. LastSequence(NoRow) = 0
  BY DEF LastSequence, NoRow
<1>3. NextLeaseToken(NoRow) - 1 = 0
  <2>1. \A s \in Steps : Len(NoRow.steps[s].history) = 0
    BY DEF NoRow, NewStep
  <2>2. TokensOf(NoRow) = {}
    BY <2>1, NoRowSound, RowTokens
  <2> QED
    BY <2>2, NoRowSound, LastToken
<1>4. [s \in Contract!Steps |-> Contract!NewStep(s)] = NoRow.steps
  BY ContractRecords DEF NoRow, NewStep, Contract!NewStep
<1>5. /\ Only(rows[row].status) = Only("Absent") /\ Only(rows[row].log) = Only(<<>>)
      /\ Only(rows[row].steps) = Only(NoRow.steps) /\ Only(rows[row].gatesPassed) = Only(TRUE)
      /\ Only([key |-> rows[row].key, payload |-> rows[row].payload]) =
             Only([key |-> NoKey, payload |-> CHOOSE p \in Payloads : TRUE])
  BY <1>1 DEF NoRow
<1>6. \A x : Only(x) = [r \in Contract!Runs |-> x]
  BY ContractRecords DEF Only
<1>7. Alone({}) = {}
  BY DEF Alone
<1>8. [k \in Keys |-> IF Stored(row) /\ rows[row].key = k THEN 1 ELSE NoRun]
          = [k \in Keys |-> Contract!NoRun]
  BY <1>1 DEF NoRun, Contract!NoRun
<1> QED
  BY <1>1, <1>2, <1>3, <1>4, <1>5, <1>6, <1>7, <1>8 DEF Contract!Init

\* PostgresRunStore as a RunRepository.
THEOREM RowImplementsContract == Spec => RowKeepsTheContract
<1>1. TableInv /\ [Next]_vars => [Contract!Next]_Contract!vars
  BY NextMaps DEF ContractStep
<1> QED
  BY <1>1, InitMaps, AlwaysTable, PTL DEF Spec, RowKeepsTheContract, Contract!Spec

-----------------------------------------------------------------------------
(* What was proved of the contract, for each row *)

\* The theorems about RunRepository, read for the repository that holds the row alone.
Proved == INSTANCE RunRepositoryProofs WITH
    NumRuns           <- 1,
    status            <- Only(rows[row].status),
    steps             <- Only(rows[row].steps),
    log               <- Only(rows[row].log),
    gatesPassed       <- Only(rows[row].gatesPassed),
    request           <- Only([key |-> rows[row].key, payload |-> rows[row].payload]),
    idempotency       <- [k \in Keys |-> IF Stored(row) /\ rows[row].key = k THEN 1 ELSE NoRun],
    nextLeaseToken    <- NextLeaseToken(rows[row]) - 1,
    nextEventSequence <- LastSequence(rows[row]),
    claims            <- Alone(claims),
    answered          <- Alone(answered)

\* Both instances are of the same repository.
LEMMA SameContract == Contract!Spec => Proved!Spec
<1>1. Contract!Init <=> Proved!Init
  BY
  DEF Contract!Init, Proved!Init, Contract!Runs, Proved!Runs, Contract!Steps, Proved!Steps,
      Contract!NewStep, Proved!NewStep, Contract!NoRun, Proved!NoRun, Contract!NoLease,
      Proved!NoLease
<1>2. UNCHANGED Contract!vars <=> UNCHANGED Proved!vars
  BY DEF Contract!vars, Proved!vars
<1>3. Contract!Next <=> Proved!Next
  BY
  DEF Contract!Next, Proved!Next, Contract!Runs, Proved!Runs, Contract!Steps, Proved!Steps,
      Contract!AnswerDuplicate, Proved!AnswerDuplicate, Contract!Repeats, Proved!Repeats,
      Contract!CreateRun, Proved!CreateRun, Contract!AppendEvent, Proved!AppendEvent,
      Contract!RunEvent, Proved!RunEvent, Contract!StepEvent, Proved!StepEvent, Contract!NoRun,
      Proved!NoRun, Contract!ClaimStep, Proved!ClaimStep, Contract!NextClaimable,
      Proved!NextClaimable, Contract!Claimable, Proved!Claimable, Contract!Ready, Proved!Ready,
      Contract!Available, Proved!Available, Contract!StartAttempt, Proved!StartAttempt,
      Contract!Budget, Proved!Budget, Contract!NoLease, Proved!NoLease, Contract!RenewStep,
      Proved!RenewStep, Contract!HoldsLease, Proved!HoldsLease, Contract!StepCompletion,
      Proved!StepCompletion, Contract!CompleteStep, Proved!CompleteStep,
      Contract!CompletionMatchesClaim, Proved!CompletionMatchesClaim, Contract!EndAttempt,
      Proved!EndAttempt, Contract!CloseAttempt, Proved!CloseAttempt, Contract!Announces,
      Proved!Announces, Contract!StepEventsOf, Proved!StepEventsOf, Contract!StepEventKinds,
      Proved!StepEventKinds, Contract!RunEventsOf, Proved!RunEventsOf, Contract!Terminal,
      Proved!Terminal, Contract!RecordEvent, Proved!RecordEvent, Contract!EventIsValid,
      Proved!EventIsValid, Contract!StepEventIsValid, Proved!StepEventIsValid,
      Contract!RunEventIsValid, Proved!RunEventIsValid, Contract!Logged, Proved!Logged,
      Contract!LoggedKind, Proved!LoggedKind, Contract!FinishRun, Proved!FinishRun,
      Contract!RunVerdict, Proved!RunVerdict, Contract!FinishEvents, Proved!FinishEvents,
      Contract!CancelRun, Proved!CancelRun, Contract!CancelStep, Proved!CancelStep,
      Contract!Last, Proved!Last, Contract!RecoverExpired, Proved!RecoverExpired,
      Contract!Expired, Proved!Expired, Contract!RecoveryKind, Proved!RecoveryKind,
      Contract!NthStep, Proved!NthStep, Contract!Cardinality, Proved!Cardinality,
      Contract!LeaseTicksDown, Proved!LeaseTicksDown, Contract!BackoffElapses,
      Proved!BackoffElapses, Contract!ClockStepsBack, Proved!ClockStepsBack
<1>4. [Contract!Next]_Contract!vars <=> [Proved!Next]_Proved!vars
  BY <1>2, <1>3
<1> QED
  BY <1>1, <1>4, PTL DEF Contract!Spec, Proved!Spec

\* The row is a repository the theorems are about.
LEMMA RowSpec == Spec => Proved!Spec
BY RowImplementsContract, SameContract, PTL DEF RowKeepsTheContract

\* The assumptions of the contract's theorems hold of the row.
LEMMA ProvedAssumptions ==
    /\ 1 \in Nat
    /\ Deps \in [Proved!Steps -> SUBSET Proved!Steps]
    /\ MaxAttempts \in [Proved!Steps -> Nat]
    /\ Primary \in [Proved!Steps -> Tasks]
    /\ Fallback \in [Proved!Steps -> Tasks \cup {NoTask}]
BY WorkflowAssumption DEF Steps, Proved!Steps

\* Leases fence, inputs are stable, budgets are shared, statuses are justified and logs
\* tell the history: what the in-memory store promises holds of each row of the table.
RowPromises ==
    /\ Contract!LeaseMatchesOpenAttempt
    /\ Contract!TokenIdentifiesAttempt
    /\ Contract!ClaimInputIsStable
    /\ Contract!BudgetIsShared
    /\ Contract!RunStatusIsJustified
    /\ Contract!EventsAreDeduplicable
    /\ Contract!LogTellsHistory

\* complete_step, recover_expired and claim_next_runnable_step of PostgresRunStore: the
\* promises the in-memory store keeps for all its runs hold of every row, with the
\* tokens and sequence numbers of the row.
THEOREM RowsKeepThePromises == Spec => []RowPromises
<1>1. Proved!Spec => []Proved!LeaseMatchesOpenAttempt
  BY ProvedAssumptions, CountsAssumption, NullsAssumption, PayloadsAssumption,
     Proved!LeasesMatchOpenAttempts
<1>2. Proved!Spec => []Proved!TokenIdentifiesAttempt
  BY ProvedAssumptions, CountsAssumption, NullsAssumption, PayloadsAssumption,
     Proved!TokensIdentifyAttempts
<1>3. Proved!Spec => []Proved!ClaimInputIsStable
  BY ProvedAssumptions, CountsAssumption, NullsAssumption, PayloadsAssumption,
     Proved!ClaimInputsAreStable
<1>4. Proved!Spec => []Proved!BudgetIsShared
  BY ProvedAssumptions, CountsAssumption, NullsAssumption, PayloadsAssumption,
     Proved!BudgetsAreShared
<1>5. Proved!Spec => []Proved!RunStatusIsJustified
  BY ProvedAssumptions, CountsAssumption, NullsAssumption, PayloadsAssumption,
     Proved!RunStatusesAreJustified
<1>6. Proved!Spec => []Proved!EventsAreDeduplicable
  BY ProvedAssumptions, CountsAssumption, NullsAssumption, PayloadsAssumption,
     Proved!LogsAreDeduplicable
<1>7. Proved!Spec => []Proved!LogTellsHistory
  BY ProvedAssumptions, CountsAssumption, NullsAssumption, PayloadsAssumption,
     Proved!LogsTellHistory
<1>8. Contract!Runs = Proved!Runs /\ Contract!Steps = Proved!Steps
  BY DEF Contract!Runs, Proved!Runs, Contract!Steps, Proved!Steps
<1>9. Proved!LeaseMatchesOpenAttempt => Contract!LeaseMatchesOpenAttempt
  BY <1>8
  DEF Contract!LeaseMatchesOpenAttempt, Proved!LeaseMatchesOpenAttempt,
      Contract!LeaseIsOpenAttempt, Proved!LeaseIsOpenAttempt, Contract!NoLease, Proved!NoLease
<1>10. Proved!TokenIdentifiesAttempt => Contract!TokenIdentifiesAttempt
  BY <1>8
  DEF Contract!TokenIdentifiesAttempt, Proved!TokenIdentifiesAttempt
<1>11. Proved!ClaimInputIsStable => Contract!ClaimInputIsStable
  BY <1>8
  DEF Contract!ClaimInputIsStable, Proved!ClaimInputIsStable
<1>12. Proved!BudgetIsShared => Contract!BudgetIsShared
  BY <1>8
  DEF Contract!BudgetIsShared, Proved!BudgetIsShared, Contract!Budget, Proved!Budget
<1>13. Proved!RunStatusIsJustified => Contract!RunStatusIsJustified
  BY <1>8
  DEF Contract!RunStatusIsJustified, Proved!RunStatusIsJustified
<1>14. Proved!EventsAreDeduplicable => Contract!EventsAreDeduplicable
  BY <1>8
  DEF Contract!EventsAreDeduplicable, Proved!EventsAreDeduplicable
<1>15. Proved!LogTellsHistory => Contract!LogTellsHistory
  BY <1>8
  DEF Contract!LogTellsHistory, Proved!LogTellsHistory, Contract!Logged, Proved!Logged,
      Contract!StepEvent, Proved!StepEvent, Contract!Announces, Proved!Announces
<1> QED
  BY <1>1, <1>2, <1>3, <1>4, <1>5, <1>6, <1>7, <1>9, <1>10, <1>11, <1>12, <1>13, <1>14, <1>15,
     RowSpec, PTL DEF RowPromises

\* finish_run and cancel_run of PostgresRunStore: no step of a finished row is started
\* again, whatever scans still hold it as a candidate.
THEOREM FinishedRowsTakeNoNewWork == Spec => Contract!FinishedRunTakesNoNewWork
<1>1. Proved!Spec => Proved!FinishedRunTakesNoNewWork
  BY ProvedAssumptions, CountsAssumption, NullsAssumption, PayloadsAssumption,
     Proved!FinishedRunsTakeNoNewWork
<1>2. Proved!FinishedRunTakesNoNewWork <=> Contract!FinishedRunTakesNoNewWork
  BY
  DEF Contract!FinishedRunTakesNoNewWork, Proved!FinishedRunTakesNoNewWork, Contract!Runs,
      Proved!Runs, Contract!Steps, Proved!Steps, Contract!Terminal, Proved!Terminal,
      Contract!vars, Proved!vars
<1> QED
  BY <1>1, <1>2, RowSpec, PTL

\* The row is a ledger of outcomes: exclusive leases, one outcome per token of the row,
\* final verdicts (claim_next_runnable_step, complete_step, recover_expired, cancel_run).
THEOREM RowsImplementLedger == Spec => Contract!LedgerSpec
<1>1. Proved!Spec => Proved!LedgerSpec
  BY ProvedAssumptions, CountsAssumption, NullsAssumption, PayloadsAssumption,
     Proved!ImplementsLedger
<1>2. Proved!Ledger!Init <=> Contract!Ledger!Init
  BY
  DEF Contract!Ledger!Init, Proved!Ledger!Init, Contract!Items, Proved!Items, Contract!Steps,
      Proved!Steps, Contract!Runs, Proved!Runs, Contract!Settled, Proved!Settled
<1>3. Proved!Ledger!Next <=> Contract!Ledger!Next
  BY
  DEF Contract!Ledger!Next, Proved!Ledger!Next, Contract!Ledger!Grant, Proved!Ledger!Grant,
      Contract!Ledger!Resolve, Proved!Ledger!Resolve, Contract!Ledger!Verdicts,
      Proved!Ledger!Verdicts, Contract!Ledger!Outcomes, Proved!Ledger!Outcomes, Contract!Items,
      Proved!Items, Contract!Steps, Proved!Steps, Contract!Runs, Proved!Runs, Contract!Settled,
      Proved!Settled
<1>4. UNCHANGED Proved!Ledger!ledgerVars <=> UNCHANGED Contract!Ledger!ledgerVars
  BY
  DEF Contract!Ledger!ledgerVars, Proved!Ledger!ledgerVars, Contract!Items, Proved!Items,
      Contract!Steps, Proved!Steps, Contract!Runs, Proved!Runs, Contract!Settled,
      Proved!Settled
<1>5. [Proved!Ledger!Next]_Proved!Ledger!ledgerVars <=> [Contract!Ledger!Next]_Contract!Ledger!ledgerVars
  BY <1>3, <1>4
<1> QED
  BY <1>1, <1>2, <1>5, RowSpec, PTL
  DEF Proved!LedgerSpec, Contract!LedgerSpec, Proved!Ledger!Spec, Contract!Ledger!Spec
=============================================================================
