------------------------- MODULE MCSnapshotRestore -------------------------
(* Instances of SnapshotRestore small enough for TLC. *)
EXTENDS SnapshotRestore

CONSTANTS w1, primary, o1

\* One step that may be retried once.
OneDeps     == <<{}>>
TwoAttempts == <<2>>
OnePrimary  == <<primary>>
NoFallback  == <<NoTask>>
OneWorker   == [w \in {w1} |-> {<<1, primary>>}]
=============================================================================
