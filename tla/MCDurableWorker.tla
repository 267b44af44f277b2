-------------------------- MODULE MCDurableWorker --------------------------
(* Instances of DurableWorker small enough for TLC. *)
EXTENDS DurableWorker

CONSTANTS w1, w2, primary, fallback, o1

TwinDeps     == <<{}, {}>>
TwinPrimary  == <<primary, primary>>
FullRegistry == [w \in Workers |-> {primary, fallback}]

\* Mixed: two independent steps with one attempt each.  w1 drives the run with
\* batches of two; w2 polls, and only it can run the fallback of step 1.
MixedAttempts == <<1, 1>>
MixedFallback == <<fallback, NoTask>>
MixedSupports == [w \in Workers |-> IF w = w1 THEN {1, 2} \X {primary} ELSE {<<1, fallback>>}]
MixedTarget   == [w \in Workers |-> IF w = w1 THEN 1 ELSE NoRun]

\* Poll: one poller, two independent steps, the first may be retried.
PollAttempts == <<2, 1>>
PollFallback == <<NoTask, NoTask>>
PollSupports == [w \in Workers |-> {1, 2} \X {primary}]
PollTarget   == [w \in Workers |-> NoRun]
=============================================================================
