--------------------------- MODULE SnapshotRestore ---------------------------
(***************************************************************************)
(* InMemoryRunStore is both a RunRepository and a RunStore, on one map of  *)
(* runs: RunStore::save puts back a record that was loaded earlier, over   *)
(* whatever the repository has made of the run meanwhile, or into the      *)
(* empty store of a fresh process.  save moves the run's idempotency key   *)
(* and advances the counters; it compares no revisions.  Claims outlive    *)
(* the process that granted them in the hands of their workers.            *)
(***************************************************************************)
EXTENDS RunRepository

CONSTANTS
    MaxRestarts,        \* bound: fresh processes
    MaxSaves            \* bound: snapshots put back

ASSUME RestoresAssumption == MaxRestarts \in Nat /\ MaxSaves \in Nat

VARIABLES
    process,        \* how often the process that holds the store was replaced
    saves,          \* how many snapshots were put back
    snapshot,       \* snapshot[r]: the last record of run r somebody loaded, if any
    grants          \* which process granted which lease token

snapVars == <<vars, process, saves, snapshot, grants>>

NoSnapshot == [stored |-> FALSE]
SnapshotOf(r) ==
    [stored |-> TRUE, status |-> status[r], steps |-> steps[r], log |-> log[r],
     gatesPassed |-> gatesPassed[r], request |-> request[r]]

SnapInit ==
    Init /\ process = 0 /\ saves = 0 /\ snapshot = [r \in Runs |-> NoSnapshot] /\ grants = {}

\* An operation of the repository other than a claim.
Operate == Next /\ UNCHANGED <<nextLeaseToken, process, saves, snapshot, grants>>

Grant(r, s, w) ==
    /\ ClaimStep(r, s, w)
    /\ grants' = grants \cup {[process |-> process, token |-> nextLeaseToken']}
    /\ UNCHANGED <<process, saves, snapshot>>

\* RunStore::load, or any operation that returns the record.
Load(r) ==
    /\ status[r] # "Absent"
    /\ snapshot' = [snapshot EXCEPT ![r] = SnapshotOf(r)]
    /\ UNCHANGED <<vars, process, saves, grants>>

\* The process ends with everything its store held; a new one starts empty.
ReplaceProcess ==
    /\ process < MaxRestarts
    /\ process' = process + 1
    /\ status' = [r \in Runs |-> "Absent"]
    /\ steps' = [r \in Runs |-> [s \in Steps |-> NewStep(s)]]
    /\ log' = [r \in Runs |-> <<>>]
    /\ gatesPassed' = [r \in Runs |-> TRUE]
    /\ request' = [r \in Runs |-> [key |-> NoKey, payload |-> CHOOSE p \in Payloads : TRUE]]
    /\ idempotency' = [k \in Keys |-> NoRun]
    /\ nextLeaseToken' = 0 /\ nextEventSequence' = 0
    /\ UNCHANGED <<claims, answered, saves, snapshot, grants>>

LeaseTokens(x) ==
    {0} \cup UNION {{x.steps[s].lease.token} \cup {a.token : a \in ToSet(x.steps[s].history)}
                       : s \in Steps}
Sequences(x) == {0} \cup {e.sequence : e \in ToSet(x.log)}

\* Mutants: a counter is set to what the snapshot retains, not raised to it; the
\* snapshot advances no counter.
AdvancedToSnapshot(counter, retained) == Max(retained)
NotAdvanced(counter, retained) == counter

Advanced(counter, retained) == Max({counter} \cup retained)

\* Mutant: the key the run had before stays in the index.
ReindexedKeepsOld(r, x) ==
    [k \in Keys |-> IF k = x.request.key THEN r ELSE idempotency[k]]

Reindexed(r, x) ==
    [k \in Keys |-> IF k = x.request.key THEN r
                    ELSE IF status[r] # "Absent" /\ request[r].key = k THEN NoRun
                    ELSE idempotency[k]]

\* A key that belongs to another run is an error and changes nothing.
Save(r) ==
    LET x == snapshot[r]
    IN  /\ x.stored /\ saves < MaxSaves
        /\ x.request.key \in Keys => idempotency[x.request.key] \in {NoRun, r}
        /\ idempotency' = Reindexed(r, x)
        /\ nextLeaseToken' = Advanced(nextLeaseToken, LeaseTokens(x))
        /\ nextEventSequence' = Advanced(nextEventSequence, Sequences(x))
        /\ status' = [status EXCEPT ![r] = x.status]
        /\ steps' = [steps EXCEPT ![r] = x.steps]
        /\ log' = [log EXCEPT ![r] = x.log]
        /\ gatesPassed' = [gatesPassed EXCEPT ![r] = x.gatesPassed]
        /\ request' = [request EXCEPT ![r] = x.request]
        /\ saves' = saves + 1
        /\ UNCHANGED <<claims, answered, process, snapshot, grants>>

SnapNext ==
    \/ Operate
    \/ \E r \in Runs, s \in Steps, w \in Workers : Grant(r, s, w)
    \/ \E r \in Runs : Load(r) \/ Save(r)
    \/ ReplaceProcess

SnapSpec == SnapInit /\ [][SnapNext]_snapVars

-----------------------------------------------------------------------------
(* Properties *)

\* "Restoring a snapshot also restores its idempotency index": whatever is
\* saved over whatever, the index names exactly the stored runs' own keys.
IndexNamesStoredRuns ==
    \A k \in Keys, r \in Runs :
        idempotency[k] = r <=> status[r] # "Absent" /\ request[r].key = k

\* "... and advances the lease/event counters past retained history": within a
\* run no later attempt reuses a retained token and no later event a retained
\* sequence number, although counters and runs come from different processes.
HistoriesRise ==
    \A r \in Runs :
        /\ \A i, j \in DOMAIN log[r] : i < j => log[r][i].sequence < log[r][j].sequence
        /\ \A s \in Steps :
               LET h == steps[r][s].history
               IN  \A i, j \in DOMAIN h : i < j => h[i].token < h[j].token

\* While one process lasts, rolling runs back to snapshots never lets the store
\* grant a token a second time, to anybody, although the rolled-back histories
\* and leases no longer show it.
TokensAreGrantedOnce ==
    [][\A r \in Runs, s \in Steps, w \in Workers : Grant(r, s, w) =>
          \A g \in grants : g.process = process => g.token < nextLeaseToken']_snapVars
=============================================================================
