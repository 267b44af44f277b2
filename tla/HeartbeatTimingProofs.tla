------------------------ MODULE HeartbeatTimingProofs ------------------------
(***************************************************************************)
(* For every lease, batch size, timeout and delay that TimingAssumption    *)
(* and CallsAreFast allow: a running task keeps its lease, and a pass      *)
(* loses a result only behind a sibling that ran longer.                   *)
(***************************************************************************)
EXTENDS HeartbeatTiming, TLAPS

\* The lease is three intervals long, or a little more.
LEMMA IntervalBounds ==
    Interval \in Nat /\ Interval >= 1 /\ LeaseMs >= 3 * Interval
<1>. LeaseMs \in Nat /\ LeaseMs >= 3
  BY TimingAssumption, CallsAreFast
<1>1. LeaseMs \div 3 \in Nat /\ 3 * (LeaseMs \div 3) <= LeaseMs /\ LeaseMs \div 3 >= 1
  OBVIOUS
<1>. QED BY <1>1 DEF Interval

\* All calls of a pass.
Calls == MaxParallel * MaxDelay

\* The calls of a pass take less than an interval.
LEMMA CallsBound ==
    /\ Calls \in Nat /\ Calls + MaxDelay < Interval
    /\ (MaxParallel - 1) * MaxDelay = Calls - MaxDelay
    /\ Margin = 2 * Interval - 2 * Calls - 2 * MaxDelay
<1>. MaxParallel \in Nat \ {0} /\ MaxDelay \in Nat /\ Interval \in Nat
  BY TimingAssumption, IntervalBounds
<1>1. /\ (MaxParallel + 1) * MaxDelay = MaxParallel * MaxDelay + MaxDelay
      /\ (MaxParallel - 1) * MaxDelay = MaxParallel * MaxDelay - MaxDelay
      /\ MaxParallel * MaxDelay \in Nat
  OBVIOUS
<1>2. (MaxParallel + 1) * MaxDelay < Interval
  BY CallsAreFast
<1>. QED BY <1>1, <1>2 DEF Calls, Margin

\* Those of its first n claims are some of them.
LEMMA SomeCalls ==
    ASSUME NEW n \in 0..(MaxParallel - 1)
    PROVE  /\ n * MaxDelay \in Nat /\ n * MaxDelay + MaxDelay <= Calls
           /\ (n + 1) * MaxDelay = n * MaxDelay + MaxDelay
<1>. MaxParallel \in Nat \ {0} /\ MaxDelay \in Nat
  BY TimingAssumption
<1>1. n * MaxDelay \in Nat /\ (n + 1) * MaxDelay = n * MaxDelay + MaxDelay
  OBVIOUS
<1>2. (n + 1) * MaxDelay <= MaxParallel * MaxDelay
  OBVIOUS
<1>. QED BY <1>1, <1>2 DEF Calls

\* The counters of the pass keep their types; a joined pass has a completion left.
LEMMA PassTyped == TypeOK /\ [Next]_vars => PassTypeOK'
<1>. SUFFICES ASSUME TypeOK, [Next]_vars PROVE PassTypeOK'
  OBVIOUS
<1>. MaxParallel \in Nat \ {0} /\ MaxDelay \in Nat
  BY TimingAssumption
<1>. USE DEF TypeOK, PassTypeOK
<1>1. CASE Claim
  BY <1>1 DEF Claim, GrantedFor, BatchIsFull
<1>2. CASE ClaimNothing
  BY <1>2 DEF ClaimNothing
<1>3. CASE Commit
  BY <1>3 DEF Commit, Joined
<1>4. CASE Again
  BY <1>4 DEF Again
<1>5. CASE Tick
  BY <1>5 DEF Tick, Down
<1>6. ASSUME NEW i \in Claims, Start(i) PROVE PassTypeOK'
  BY <1>6 DEF Start
<1>7. ASSUME NEW i \in Claims, Renew(i) PROVE PassTypeOK'
  BY <1>7 DEF Renew, RenewedFor
<1>8. ASSUME NEW i \in Claims, TaskReturns(i) PROVE PassTypeOK'
  BY <1>8 DEF TaskReturns
<1>9. CASE UNCHANGED vars
  BY <1>9 DEF vars
<1>. QED BY <1>1, <1>2, <1>3, <1>4, <1>5, <1>6, <1>7, <1>8, <1>9 DEF Next

\* What the executor and the repository keep for each claim keeps its type.
LEMMA ClaimsTyped == TypeOK /\ [Next]_vars => ClaimsTypeOK'
<1>. SUFFICES ASSUME TypeOK, [Next]_vars PROVE ClaimsTypeOK'
  OBVIOUS
<1>. MaxParallel \in Nat /\ LeaseMs \in Nat /\ TimeoutMs \in Nat /\ MaxDelay \in Nat /\ Interval \in Nat
  BY TimingAssumption, IntervalBounds
<1>. USE DEF TypeOK, PassTypeOK, ClaimsTypeOK, Claims, Stages
<1>1. CASE Claim
  BY <1>1 DEF Claim, GrantedFor, BatchIsFull
<1>2. CASE ClaimNothing
  BY <1>2 DEF ClaimNothing
<1>3. CASE Commit
  BY <1>3 DEF Commit, Joined
<1>4. CASE Again
  <2>1. stage' \in [Claims -> Stages] /\ wait' \in [Claims -> 0..MaxDelay]
    BY <1>4 DEF Again
  <2>2. ran' \in [Claims -> 0..TimeoutMs] /\ lease' \in [Claims -> Nat]
    BY <1>4 DEF Again
  <2>3. beat' \in [Claims -> 0..Interval] /\ beating' \subseteq Claims
    BY <1>4 DEF Again
  <2>. QED BY <2>1, <2>2, <2>3
<1>5. CASE Tick
  <2>0. ran' \in [Claims -> 0..TimeoutMs]
    BY <1>5 DEF Tick
  <2>1. lease' \in [Claims -> Nat]
    BY <1>5, SMTT(20) DEF Tick, Down
  <2>2. beat' \in [Claims -> 0..Interval]
    BY <1>5, SMTT(20) DEF Tick, Down
  <2>3. wait' \in [Claims -> 0..MaxDelay]
    BY <1>5 DEF Tick
  <2>4. stage' = stage /\ beating' = beating
    BY <1>5 DEF Tick
  <2>. QED BY <2>0, <2>1, <2>2, <2>3, <2>4
<1>6. ASSUME NEW i \in Claims, Start(i) PROVE ClaimsTypeOK'
  <2>1. stage' \in [Claims -> Stages] /\ beat' \in [Claims -> 0..Interval]
    BY <1>6 DEF Start
  <2>2. wait' \in [Claims -> 0..MaxDelay] /\ beating' \subseteq Claims
    BY <1>6 DEF Start
  <2>3. lease' = lease /\ ran' = ran
    BY <1>6 DEF Start
  <2>. QED BY <2>1, <2>2, <2>3
<1>7. ASSUME NEW i \in Claims, Renew(i) PROVE ClaimsTypeOK'
  <2>1. lease' \in [Claims -> Nat]
    BY <1>7 DEF Renew, RenewedFor
  <2>2. beat' \in [Claims -> 0..Interval]
    BY <1>7 DEF Renew
  <2>3. wait' \in [Claims -> 0..MaxDelay]
    BY <1>7 DEF Renew
  <2>4. beating' \subseteq Claims
    BY <1>7 DEF Renew
  <2>5. stage' = stage /\ ran' = ran
    BY <1>7 DEF Renew
  <2>. QED BY <2>1, <2>2, <2>3, <2>4, <2>5
<1>8. ASSUME NEW i \in Claims, TaskReturns(i) PROVE ClaimsTypeOK'
  <2>1. stage' \in [Claims -> Stages]
    BY <1>8 DEF TaskReturns
  <2>2. wait' \in [Claims -> 0..MaxDelay]
    BY <1>8 DEF TaskReturns
  <2>. QED BY <1>8, <2>1, <2>2 DEF TaskReturns
<1>9. CASE UNCHANGED vars
  BY <1>9 DEF vars
<1>. QED BY <1>1, <1>2, <1>3, <1>4, <1>5, <1>6, <1>7, <1>8, <1>9 DEF Next

\* Every variable keeps its type.
THEOREM TypeCorrect == Spec => []TypeOK
<1>1. Init => TypeOK
  BY TimingAssumption, IntervalBounds DEF Init, TypeOK, PassTypeOK, ClaimsTypeOK, Stages
<1>2. TypeOK /\ [Next]_vars => TypeOK'
  BY PassTyped, ClaimsTyped DEF TypeOK
<1>. QED BY <1>1, <1>2, PTL DEF Spec
-----------------------------------------------------------------------------
(* What each lease still has left: a claim that waits for its turn has lost *)
(* the delays of the calls before it, and a running task's lease outlives   *)
(* the heartbeat's next wake-up by two intervals less all calls.            *)

Turns ==
    /\ \A i \in Claims : stage[i] = "Waiting" <=> i > claimed
    /\ \A i \in Claims : at = "Claiming" /\ i <= claimed => stage[i] = "Starting"
    /\ \A i \in Claims : stage[i] = "Executing" => at = "Joining" /\ i \in beating
    /\ \A i \in Claims : i \in beating => stage[i] = "Executing"
    /\ \A i \in Claims : stage[i] \in {"Waiting", "Starting"} => ran[i] = 0
\* While the batch is claimed, and before the task starts.
ClaimSlack(i) ==
    /\ at = "Claiming" => wait[i] = 0
    /\ at = "Claiming" /\ stage[i] = "Starting" =>
           lease[i] + late + (claimed - 1) * MaxDelay >= LeaseMs
    /\ at = "Joining" /\ stage[i] = "Starting" =>
           lease[i] + wait[i] + (MaxParallel - 1) * MaxDelay >= LeaseMs
\* While the task runs.
TaskSlack(i) ==
    stage[i] = "Executing" =>
        /\ lease[i] + wait[i] >= beat[i] + 2 * Interval - Calls
        /\ wait[i] > 0 => beat[i] = 0
SlackKept == Turns /\ \A i \in Claims : ClaimSlack(i) /\ TaskSlack(i)

\* Claims are executed together, after the last is granted; a running task's
\* heartbeat is never refused.
LEMMA TurnsAreKept == TypeOK /\ Turns /\ SlackKept /\ [Next]_vars => Turns'
<1>. SUFFICES ASSUME TypeOK, Turns, SlackKept, [Next]_vars PROVE Turns'
  OBVIOUS
<1>. MaxParallel \in Nat \ {0} /\ MaxDelay \in Nat
  BY TimingAssumption
<1>. USE DEF TypeOK, PassTypeOK, ClaimsTypeOK, Claims, Stages, Turns
<1>1. CASE Claim
  BY <1>1 DEF Claim, GrantedFor, BatchIsFull
<1>2. CASE ClaimNothing
  BY <1>2 DEF ClaimNothing
<1>3. CASE Commit
  <2>1. \A i \in Claims : stage[i] # "Executing"
    <3>. TAKE i \in Claims
    <3>. CASE i <= claimed
      BY <1>3 DEF Commit, Joined
    <3>. CASE i > claimed
      OBVIOUS
    <3>. QED OBVIOUS
  <2>2. at = "Joining" /\ at' # "Claiming"
    BY <1>3 DEF Commit, Joined
  <2>. QED BY <1>3, <2>1, <2>2 DEF Commit
<1>4. CASE Again
  BY <1>4 DEF Again
<1>5. CASE Tick
  BY <1>5 DEF Tick
<1>6. ASSUME NEW i \in Claims, Start(i) PROVE Turns'
  BY <1>6 DEF Start
<1>7. ASSUME NEW i \in Claims, Renew(i) PROVE Turns'
  <2>1. lease[i] > 0
    BY <1>7, CallsBound, IntervalBounds, SMTT(20) DEF Renew, SlackKept, TaskSlack
  <2>. QED BY <1>7, <2>1 DEF Renew
<1>8. ASSUME NEW i \in Claims, TaskReturns(i) PROVE Turns'
  BY <1>8 DEF TaskReturns
<1>9. CASE UNCHANGED vars
  BY <1>9 DEF vars
<1>. QED BY <1>1, <1>2, <1>3, <1>4, <1>5, <1>6, <1>7, <1>8, <1>9 DEF Next

\* No step takes more from the lease of one claim than the bounds allow.
LEMMA SlackOfOneClaim ==
    ASSUME TypeOK, TypeOK', SlackKept, [Next]_vars, NEW j \in Claims
    PROVE  ClaimSlack(j)' /\ TaskSlack(j)'
<1>0. /\ MaxParallel \in Nat /\ LeaseMs \in Nat /\ MaxDelay \in Nat
      /\ Interval \in Nat /\ Interval >= 1 /\ j \in 1..MaxParallel
  BY TimingAssumption, IntervalBounds DEF Claims
<1>1. /\ lease \in [Claims -> Nat] /\ lease[j] \in Nat /\ lease'[j] \in Nat
      /\ wait \in [Claims -> 0..MaxDelay] /\ wait[j] \in 0..MaxDelay
      /\ beat \in [Claims -> 0..Interval] /\ beat[j] \in 0..Interval
      /\ stage \in [Claims -> Stages]
      /\ late \in 0..MaxDelay /\ claimed \in 0..MaxParallel /\ claimed' \in 0..MaxParallel
  BY <1>0 DEF TypeOK, PassTypeOK, ClaimsTypeOK
<1>2. Turns /\ ClaimSlack(j) /\ TaskSlack(j)
  BY DEF SlackKept
<1>. USE <1>0, <1>1
<1>3. CASE Claim
  <2>1. (claimed + 1 - 1) * MaxDelay = (claimed - 1) * MaxDelay + MaxDelay
    OBVIOUS
  <2>2. claimed + 1 = MaxParallel => (claimed + 1 - 1) * MaxDelay = (MaxParallel - 1) * MaxDelay
    OBVIOUS
  <2>3. at = "Claiming" /\ claimed' = claimed + 1 /\ late' = 0 /\ wait' = wait /\ beat' = beat
    BY <1>3 DEF Claim, GrantedFor, BatchIsFull
  <2>4. CASE j = claimed + 1
    <3>1. stage'[j] = "Starting" /\ lease'[j] = LeaseMs
      BY <1>3, <2>4 DEF Claim, GrantedFor, BatchIsFull
    <3>2. wait[j] = 0
      BY <1>2, <2>3 DEF ClaimSlack
    <3>. QED BY <3>1, <3>2, <2>3 DEF ClaimSlack, TaskSlack
  <2>5. CASE j # claimed + 1
    <3>1. stage'[j] = stage[j] /\ lease'[j] = lease[j]
      BY <1>3, <2>5 DEF Claim, GrantedFor, BatchIsFull
    <3>2. claimed + 1 = MaxParallel \/ at' = "Claiming"
      BY <1>3 DEF Claim, GrantedFor, BatchIsFull
    <3>3. /\ wait[j] = 0
          /\ stage[j] = "Starting" => lease[j] + late + (claimed - 1) * MaxDelay >= LeaseMs
      BY <1>2, <2>3 DEF ClaimSlack
    <3>4. stage[j] # "Executing"
      BY <1>2, <2>3 DEF Turns
    <3>. QED BY <2>1, <2>2, <2>3, <3>1, <3>2, <3>3, <3>4 DEF ClaimSlack, TaskSlack
  <2>. QED BY <2>4, <2>5
<1>4. CASE ClaimNothing
  <2>1. claimed < MaxParallel /\ at = "Claiming" /\ at' = "Joining"
    BY <1>4 DEF ClaimNothing, TypeOK, PassTypeOK
  <2>2. (claimed - 1) * MaxDelay + MaxDelay = claimed * MaxDelay
    OBVIOUS
  <2>3. claimed * MaxDelay <= (MaxParallel - 1) * MaxDelay
    BY <2>1
  <2>4. stage'[j] = stage[j] /\ lease'[j] = lease[j] /\ wait'[j] = wait[j]
    BY <1>4 DEF ClaimNothing
  <2>5. stage[j] # "Executing"
    BY <1>2, <2>1 DEF Turns
  <2>. QED BY <1>2, <2>1, <2>2, <2>3, <2>4, <2>5 DEF ClaimSlack, TaskSlack
<1>5. CASE Commit
  <2>1. at = "Joining" /\ at' # "Claiming"
    BY <1>5 DEF Commit, Joined
  <2>2. /\ stage'[j] = stage[j] /\ lease'[j] = lease[j]
        /\ wait'[j] = wait[j] /\ beat'[j] = beat[j]
    BY <1>5 DEF Commit
  <2>. QED BY <1>2, <2>1, <2>2 DEF ClaimSlack, TaskSlack
<1>6. CASE Again
  BY <1>6 DEF Again, ClaimSlack, TaskSlack
<1>7. CASE Tick
  <2>1. /\ stage'[j] = stage[j] /\ at' = at /\ claimed' = claimed
        /\ lease'[j] = (IF lease[j] > 0 THEN lease[j] - 1 ELSE 0)
        /\ wait'[j] = (IF CallDue(j) THEN wait[j] + 1 ELSE 0)
        /\ CallDue(j) => wait[j] < MaxDelay
    BY <1>7 DEF Tick, Down
  <2>2. ClaimSlack(j)'
    <3>1. at = "Claiming" => late' = late + 1
      BY <1>7 DEF Tick, PassCallDue
    <3>2. at = "Claiming" => ~CallDue(j)
      BY <1>2 DEF CallDue, Turns
    <3>3. at = "Joining" /\ stage[j] = "Starting" => CallDue(j)
      BY DEF CallDue
    <3>. QED BY <1>2, <2>1, <3>1, <3>2, <3>3 DEF ClaimSlack
  <2>3. ASSUME stage[j] = "Executing" PROVE TaskSlack(j)'
    <3>1. j \in beating /\ (CallDue(j) <=> beat[j] = 0)
      BY <1>2, <2>3 DEF Turns, CallDue
    <3>2. beat'[j] = (IF beat[j] > 0 THEN beat[j] - 1 ELSE 0)
      BY <1>7, <3>1 DEF Tick, Down
    <3>. QED BY <1>2, <2>1, <2>3, <3>1, <3>2, CallsBound DEF TaskSlack
  <2>. QED BY <2>1, <2>2, <2>3 DEF TaskSlack
<1>8. ASSUME NEW i \in Claims, Start(i) PROVE ClaimSlack(j)' /\ TaskSlack(j)'
  <2>1. CASE i # j
    BY <1>2, <1>8, <2>1 DEF Start, ClaimSlack, TaskSlack
  <2>2. CASE i = j
    <3>1. /\ stage[j] = "Starting" /\ at = "Joining" /\ stage'[j] = "Executing"
          /\ beat'[j] = Interval /\ wait'[j] = 0 /\ lease'[j] = lease[j]
      BY <1>8, <2>2 DEF Start
    <3>2. lease[j] + wait[j] + (Calls - MaxDelay) >= LeaseMs
      BY <1>2, <3>1, CallsBound DEF ClaimSlack
    <3>. QED BY <3>1, <3>2, CallsBound, IntervalBounds DEF ClaimSlack, TaskSlack
  <2>. QED BY <2>1, <2>2
<1>9. ASSUME NEW i \in Claims, Renew(i) PROVE ClaimSlack(j)' /\ TaskSlack(j)'
  <2>0. at' = at /\ stage' = stage /\ claimed' = claimed /\ late' = late
    BY <1>9 DEF Renew
  <2>1. CASE i # j
    <3>1. lease'[j] = lease[j] /\ beat'[j] = beat[j] /\ wait'[j] = wait[j]
      BY <1>9, <2>1 DEF Renew
    <3>. QED BY <1>2, <2>0, <3>1 DEF ClaimSlack, TaskSlack
  <2>2. CASE i = j
    <3>1. stage[j] = "Executing" /\ beat[j] = 0 /\ wait'[j] = 0
      BY <1>2, <1>9, <2>2 DEF Renew, Turns
    <3>2. lease[j] > 0
      BY <1>2, <3>1, CallsBound DEF TaskSlack
    <3>3. lease'[j] = 3 * Interval /\ beat'[j] = Interval
      BY <1>9, <2>2, <3>2 DEF Renew, RenewedFor
    <3>. QED BY <2>0, <3>1, <3>3, CallsBound DEF ClaimSlack, TaskSlack
  <2>. QED BY <2>1, <2>2
<1>10. ASSUME NEW i \in Claims, TaskReturns(i) PROVE ClaimSlack(j)' /\ TaskSlack(j)'
  BY <1>2, <1>10 DEF TaskReturns, ClaimSlack, TaskSlack
<1>11. CASE UNCHANGED vars
  BY <1>2, <1>11 DEF vars, ClaimSlack, TaskSlack
<1>. QED BY <1>3, <1>4, <1>5, <1>6, <1>7, <1>8, <1>9, <1>10, <1>11 DEF Next

\* The bounds on the leases hold throughout.
LEMMA LeaseSlack == Spec => []SlackKept
<1>1. Init => SlackKept
  BY DEF Init, SlackKept, Turns, ClaimSlack, TaskSlack, Claims
<1>2. TypeOK /\ TypeOK' /\ SlackKept /\ [Next]_vars => SlackKept'
  BY TurnsAreKept, SlackOfOneClaim DEF SlackKept, Claims
<1>. QED BY <1>1, <1>2, TypeCorrect, PTL DEF Spec

\* A running task keeps its lease and its heartbeat.
THEOREM LeasesCoverExecution == Spec => []LeaseCoversExecution
<1>1. TypeOK /\ SlackKept => LeaseCoversExecution
  <2>. SUFFICES ASSUME TypeOK, SlackKept, NEW i \in Claims, stage[i] = "Executing"
                PROVE  lease[i] > 0 /\ i \in beating
    BY DEF LeaseCoversExecution
  <2>1. lease[i] \in Nat /\ wait[i] \in 0..MaxDelay /\ beat[i] \in 0..Interval
    BY DEF TypeOK, ClaimsTypeOK
  <2>. QED BY <2>1, TimingAssumption, CallsBound, IntervalBounds DEF SlackKept, Turns, TaskSlack
<1>. QED BY <1>1, LeaseSlack, TypeCorrect, PTL

-----------------------------------------------------------------------------
(* Elapsed(T): it is T units since the last claim of the batch was granted. *)

SiblingElapsed(T, i) ==
    /\ stage[i] = "Starting" => wait[i] = T
    /\ stage[i] = "Executing" => ran[i] <= T /\ T <= ran[i] + MaxDelay
    /\ stage[i] = "Finished" => lease[i] + T >= ran[i] + 2 * Interval - Calls - MaxDelay
PassElapsed(T) ==
    IF Joined
    THEN \E j \in 1..claimed : T <= ran[j] + MaxDelay + committed * MaxDelay + late
    ELSE committed = 0 /\ late = 0
Elapsed(T) ==
    /\ at = "Joining" => PassElapsed(T) /\ \A i \in 1..claimed : SiblingElapsed(T, i)
    /\ RefusedOnlyBehindSlower

\* When the last claim of the batch is granted no task has started yet.
LEMMA BatchStarts ==
    ASSUME TypeOK, TypeOK', SlackKept, Claim \/ ClaimNothing, at' = "Joining"
    PROVE  Elapsed(0)'
<1>0. MaxParallel \in Nat /\ MaxDelay \in Nat /\ claimed' \in 0..MaxParallel
  BY TimingAssumption DEF TypeOK, PassTypeOK
<1>1. /\ at = "Claiming" /\ claimed' > 0 /\ late' = 0 /\ wait' = wait
      /\ committed = 0 /\ committed' = committed
  BY <1>0 DEF Claim, ClaimNothing, TypeOK, PassTypeOK
<1>2. ASSUME NEW i \in 1..claimed' PROVE stage'[i] = "Starting" /\ wait'[i] = 0
  <2>1. i \in Claims
    BY <1>0, <1>2 DEF Claims
  <2>2. stage \in [Claims -> Stages] /\ claimed \in Nat
    BY <1>0 DEF TypeOK, PassTypeOK, ClaimsTypeOK
  <2>. QED BY <1>1, <1>2, <2>1, <2>2 DEF Claim, ClaimNothing, SlackKept, Turns, ClaimSlack
<1>3. ~Joined'
  BY <1>0, <1>1, <1>2 DEF Joined
<1>4. RefusedOnlyBehindSlower'
  BY DEF RefusedOnlyBehindSlower
<1>. QED BY <1>1, <1>2, <1>3, <1>4 DEF Elapsed, PassElapsed, SiblingElapsed

\* The types of what a pass reads.
LEMMA Typed ==
    ASSUME TypeOK
    PROVE  /\ MaxParallel \in Nat \ {0} /\ MaxDelay \in Nat /\ Interval \in Nat /\ Calls \in Nat
           /\ claimed \in 0..MaxParallel /\ committed \in 0..claimed /\ late \in 0..MaxDelay
           /\ lease \in [Claims -> Nat] /\ ran \in [Claims -> Nat] /\ stage \in [Claims -> Stages]
           /\ wait \in [Claims -> 0..MaxDelay] /\ beat \in [Claims -> 0..Interval]
           /\ \A i \in 1..claimed : i \in Claims
<1>. MaxParallel \in Nat \ {0} /\ MaxDelay \in Nat /\ Interval \in Nat /\ Calls \in Nat
  BY TimingAssumption, IntervalBounds, CallsBound
<1>. QED BY DEF TypeOK, PassTypeOK, ClaimsTypeOK, Claims

\* A completion is refused only when its lease ran out while a sibling ran.
LEMMA RefusedByTime ==
    ASSUME TypeOK, NEW T \in Nat, Elapsed(T), Commit PROVE Elapsed(T)'
<1>. USE Typed
<1>0. at = "Joining" /\ Joined /\ committed + 1 \in 1..claimed /\ committed \in 0..(MaxParallel - 1)
  BY DEF Commit, Joined, TypeOK, PassTypeOK
<1>. PICK j \in 1..claimed : T <= ran[j] + MaxDelay + committed * MaxDelay + late
  BY <1>0 DEF Elapsed, PassElapsed
<1>1. /\ committed * MaxDelay \in Nat /\ committed * MaxDelay + MaxDelay <= Calls
      /\ (committed + 1) * MaxDelay = committed * MaxDelay + MaxDelay
  BY <1>0, SomeCalls
<1>2. /\ claimed' = claimed /\ stage' = stage /\ lease' = lease /\ ran' = ran
      /\ wait' = wait /\ late' = 0
  BY DEF Commit
<1>3. CASE lease[committed + 1] > 0
  <2>1. committed' = committed + 1 /\ at' # "Failed"
    BY <1>0, <1>3 DEF Commit
  <2>2. at' = "Joining" => Joined'
    BY <1>0, <1>2 DEF Joined
  <2>3. \A i \in 1..claimed : SiblingElapsed(T, i)'
    BY <1>0, <1>2 DEF Elapsed, SiblingElapsed
  <2>4. ran[j] \in Nat /\ T <= ran[j] + MaxDelay + (committed + 1) * MaxDelay + 0
    BY <1>0, <1>1
  <2>. QED BY <1>2, <2>1, <2>2, <2>3, <2>4 DEF Elapsed, PassElapsed, RefusedOnlyBehindSlower
<1>4. CASE lease[committed + 1] = 0
  <2>1. at' = "Failed" /\ committed' = committed
    BY <1>0, <1>4 DEF Commit
  <2>2. stage[committed + 1] = "Finished"
    BY <1>0 DEF Joined
  <2>3. T >= ran[committed + 1] + 2 * Interval - Calls - MaxDelay
    BY <1>0, <1>4, <2>2, CallsBound DEF Elapsed, SiblingElapsed
  <2>4. ran[j] \in Nat /\ ran[committed + 1] \in Nat
    BY <1>0
  <2>5. ran[j] - ran[committed + 1] >= Margin
    BY <1>0, <1>1, <2>3, <2>4, CallsBound
  <2>. QED BY <1>2, <2>1, <2>5 DEF Elapsed, RefusedOnlyBehindSlower
<1>. QED BY <1>0, <1>3, <1>4

\* A unit of time passes for every sibling alike.
LEMMA ElapsedTicks ==
    ASSUME TypeOK, SlackKept, NEW T \in Nat, Elapsed(T), Tick PROVE Elapsed(T + 1)'
<1>. USE Typed
<1>1. /\ at' = at /\ claimed' = claimed /\ committed' = committed /\ stage' = stage
      /\ Joined' = Joined /\ at # "Failed"
  BY DEF Tick, Joined
<1>. SUFFICES ASSUME at = "Joining" PROVE Elapsed(T + 1)'
  BY <1>1 DEF Elapsed, RefusedOnlyBehindSlower
<1>2. ASSUME NEW i \in 1..claimed PROVE SiblingElapsed(T + 1, i)'
  <2>1. /\ i \in Claims /\ SiblingElapsed(T, i)
        /\ lease[i] \in Nat /\ ran[i] \in Nat /\ wait[i] \in Nat
    BY DEF Elapsed
  <2>2. /\ lease'[i] = Down(lease[i])
        /\ ran'[i] = (IF stage[i] = "Executing" THEN ran[i] + 1 ELSE ran[i])
        /\ stage[i] = "Starting" => wait'[i] = wait[i] + 1
    BY <2>1 DEF Tick, CallDue
  <2>. QED BY <1>1, <2>1, <2>2 DEF SiblingElapsed, Down
<1>3. PassElapsed(T + 1)'
  <2>1. CASE Joined
    <3>1. late' = late + 1
      BY <2>1 DEF Tick, PassCallDue
    <3>2. ran' = ran
      <4>1. \A i \in Claims : stage[i] # "Executing"
        <5>. TAKE i \in Claims
        <5>1. i \in Nat /\ (i > claimed \/ i \in 1..claimed)
          BY DEF Claims
        <5>. QED BY <2>1, <5>1 DEF Joined, SlackKept, Turns
      <4>. QED BY <4>1 DEF Tick
    <3>3. PICK j \in 1..claimed : T <= ran[j] + MaxDelay + committed * MaxDelay + late
      BY <2>1 DEF Elapsed, PassElapsed
    <3>4. committed * MaxDelay \in Int /\ ran[j] \in Nat
      OBVIOUS
    <3>5. T + 1 <= ran[j] + MaxDelay + committed * MaxDelay + (late + 1)
      BY <3>3, <3>4
    <3>. QED BY <1>1, <2>1, <3>1, <3>2, <3>5 DEF PassElapsed
  <2>2. CASE ~Joined
    BY <1>1, <2>2 DEF Elapsed, PassElapsed, Tick, PassCallDue
  <2>. QED BY <2>1, <2>2
<1>. QED BY <1>1, <1>2, <1>3 DEF Elapsed, RefusedOnlyBehindSlower

\* A task that returns leaves its lease for as long as the heartbeat made sure.
LEMMA TaskEnds ==
    ASSUME TypeOK, SlackKept, NEW T \in Nat, Elapsed(T), NEW k \in Claims, TaskReturns(k)
    PROVE  Elapsed(T)'
<1>. USE Typed
<1>1. /\ at' = at /\ claimed' = claimed /\ committed' = committed /\ late' = late
      /\ lease' = lease /\ ran' = ran
      /\ stage[k] = "Executing" /\ stage' = [stage EXCEPT ![k] = "Finished"]
      /\ wait' = [wait EXCEPT ![k] = 0]
  BY DEF TaskReturns
<1>2. at = "Joining" /\ k \in 1..claimed /\ ~Joined
  BY <1>1 DEF SlackKept, Turns, Joined, Claims
<1>3. ASSUME NEW i \in 1..claimed PROVE SiblingElapsed(T, i)'
  <2>1. /\ i \in Claims /\ SiblingElapsed(T, i)
        /\ lease[i] \in Nat /\ ran[i] \in Nat /\ wait[i] \in 0..MaxDelay /\ beat[i] \in Nat
    BY <1>2 DEF Elapsed
  <2>2. CASE i = k
    <3>1. lease[i] + wait[i] >= beat[i] + 2 * Interval - Calls
      BY <1>1, <2>1, <2>2 DEF SlackKept, TaskSlack
    <3>2. ran[i] <= T
      BY <1>1, <2>1, <2>2 DEF SiblingElapsed
    <3>3. stage'[i] = "Finished" /\ lease'[i] = lease[i] /\ ran'[i] = ran[i]
      BY <1>1, <2>2
    <3>. QED BY <2>1, <3>1, <3>2, <3>3 DEF SiblingElapsed
  <2>3. CASE i # k
    <3>1. stage'[i] = stage[i] /\ wait'[i] = wait[i]
      BY <1>1, <2>1, <2>3
    <3>. QED BY <1>1, <2>1, <3>1 DEF SiblingElapsed
  <2>. QED BY <2>2, <2>3
<1>4. PassElapsed(T)'
  <2>1. committed = 0 /\ late = 0
    BY <1>2 DEF Elapsed, PassElapsed
  <2>2. ran[k] \in Nat /\ T <= ran[k] + MaxDelay
    BY <1>1, <1>2 DEF Elapsed, SiblingElapsed
  <2>3. T <= ran[k] + MaxDelay + 0 * MaxDelay + 0
    BY <2>2
  <2>. QED BY <1>1, <1>2, <2>1, <2>3 DEF PassElapsed
<1>. QED BY <1>1, <1>2, <1>3, <1>4 DEF Elapsed, RefusedOnlyBehindSlower

\* A claim that starts, or is renewed, does so in time.
LEMMA ElapsedStands ==
    ASSUME TypeOK, TypeOK', SlackKept, NEW T \in Nat, Elapsed(T), NEW k \in Claims,
           Start(k) \/ Renew(k)
    PROVE  Elapsed(T)'
<1>. USE Typed
<1>1. /\ at' = at /\ claimed' = claimed /\ committed' = committed /\ late' = late /\ ran' = ran
      /\ wait' = [wait EXCEPT ![k] = 0]
  BY DEF Start, Renew
<1>2. at = "Joining" /\ k \in 1..claimed /\ stage[k] # "Finished" /\ stage'[k] = "Executing"
  BY DEF SlackKept, Turns, Claims, Start, Renew
<1>3. ~Joined /\ ~Joined'
  BY <1>1, <1>2 DEF Joined
<1>4. ASSUME NEW i \in 1..claimed PROVE SiblingElapsed(T, i)'
  <2>1. SiblingElapsed(T, i) /\ ran'[i] = ran[i] /\ ran[i] \in Nat /\ wait[i] \in 0..MaxDelay
    BY <1>1, <1>2 DEF Elapsed
  <2>2. CASE i = k
    <3>1. CASE Start(k)
      BY <1>2, <2>1, <2>2, <3>1 DEF Start, SlackKept, Turns, SiblingElapsed
    <3>2. CASE Renew(k)
      BY <1>2, <2>1, <2>2, <3>2 DEF Renew, SlackKept, Turns, SiblingElapsed
    <3>. QED BY <3>1, <3>2
  <2>3. CASE i # k
    <3>1. stage'[i] = stage[i] /\ wait'[i] = wait[i] /\ lease'[i] = lease[i]
      BY <1>1, <2>3 DEF Start, Renew
    <3>. QED BY <2>1, <3>1 DEF SiblingElapsed
  <2>. QED BY <2>2, <2>3
<1>. QED BY <1>1, <1>2, <1>3, <1>4 DEF Elapsed, PassElapsed, RefusedOnlyBehindSlower

\* A refused commit has a sibling that ran longer, whatever the batch, the lease,
\* the tasks and the delays.
THEOREM OnlySlowSiblingsCost == Spec => []RefusedOnlyBehindSlower
<1>. DEFINE SomeElapsed == \E T \in Nat : Elapsed(T)
<1>1. Init => SomeElapsed
  BY DEF Init, Elapsed, RefusedOnlyBehindSlower
<1>2. TypeOK /\ TypeOK' /\ SlackKept /\ SomeElapsed /\ [Next]_vars => SomeElapsed'
  <2>. SUFFICES ASSUME TypeOK, TypeOK', SlackKept, NEW T \in Nat, Elapsed(T), [Next]_vars
                PROVE  \E U \in Nat : Elapsed(U)'
    OBVIOUS
  <2>1. CASE Claim \/ ClaimNothing
    <3>1. CASE at' = "Joining"
      BY <2>1, <3>1, BatchStarts
    <3>2. CASE at' # "Joining"
      <4>1. at' # "Failed"
        BY <2>1, <3>2 DEF Claim, ClaimNothing
      <4>. QED BY <3>2, <4>1 DEF Elapsed, RefusedOnlyBehindSlower
    <3>. QED BY <3>1, <3>2
  <2>2. CASE Commit
    BY <2>2, RefusedByTime
  <2>3. CASE Again
    BY <2>3 DEF Again, Elapsed, RefusedOnlyBehindSlower
  <2>4. CASE Tick
    BY <2>4, ElapsedTicks
  <2>5. ASSUME NEW i \in Claims, Start(i) \/ Renew(i) PROVE Elapsed(T)'
    BY <2>5, ElapsedStands
  <2>6. ASSUME NEW i \in Claims, TaskReturns(i) PROVE Elapsed(T)'
    BY <2>6, TaskEnds
  <2>7. CASE UNCHANGED vars
    BY <2>7 DEF vars, Elapsed, PassElapsed, SiblingElapsed, RefusedOnlyBehindSlower, Joined
  <2>. QED BY <2>1, <2>2, <2>3, <2>4, <2>5, <2>6, <2>7 DEF Next
<1>3. SomeElapsed => RefusedOnlyBehindSlower
  BY DEF Elapsed
<1>. QED BY <1>1, <1>2, <1>3, TypeCorrect, LeaseSlack, PTL DEF Spec

\* With one claim at a time, as in work_once, no completion is refused for its
\* lease however long the task ran; nor is one when no task may run for as long
\* as the margin.
THEOREM PassesCommitInTime ==
    ASSUME MaxParallel = 1 \/ TimeoutMs < Margin PROVE Spec => []CommitsInTime
<1>1. TypeOK /\ RefusedOnlyBehindSlower => CommitsInTime
  <2>. SUFFICES ASSUME TypeOK, RefusedOnlyBehindSlower, at = "Failed" PROVE FALSE
    BY DEF CommitsInTime
  <2>1. PICK j \in 1..claimed : ran[j] - ran[committed + 1] >= Margin
    BY DEF RefusedOnlyBehindSlower
  <2>2. /\ committed + 1 \in 1..claimed /\ claimed \in 0..MaxParallel
        /\ MaxParallel \in Nat /\ TimeoutMs \in Nat
    BY TimingAssumption DEF TypeOK, PassTypeOK
  <2>3. ran[j] \in 0..TimeoutMs /\ ran[committed + 1] \in 0..TimeoutMs
    BY <2>2 DEF TypeOK, ClaimsTypeOK, Claims
  <2>4. Margin \in Int /\ Margin > 0
    BY CallsBound, Typed
  <2>5. CASE MaxParallel = 1
    <3>1. j = committed + 1
      BY <2>2, <2>5
    <3>. QED BY <2>1, <2>3, <2>4, <3>1
  <2>6. CASE TimeoutMs < Margin
    BY <2>1, <2>2, <2>3, <2>4, <2>6
  <2>. QED BY <2>5, <2>6
<1>. QED BY <1>1, TypeCorrect, OnlySlowSiblingsCost, PTL
=============================================================================
