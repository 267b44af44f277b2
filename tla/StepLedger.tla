----------------------------- MODULE StepLedger -----------------------------
(***************************************************************************)
(* What the run repository promises about leased work, without workers,    *)
(* time, retries or events: an item is held by at most one fencing token,  *)
(* each token is given out once and gets at most one outcome, the ledger   *)
(* of outcomes only grows, and an item with a verdict is never worked on   *)
(* or judged again.  One step may resolve several items, as recovery and   *)
(* cancellation do.                                                        *)
(***************************************************************************)
EXTENDS Naturals

CONSTANT Items

VARIABLES
    holder,     \* holder[i]: the token item i is leased under, 0 when none
    verdict,    \* verdict[i]: "Open" or how i ended
    issued,     \* how many tokens were given out: they are 1, 2, 3, ...
    ledger      \* ledger[i]: the outcomes of i's tokens

ledgerVars == <<holder, verdict, issued, ledger>>

Verdicts == {"Succeeded", "Failed", "Cancelled"}
Outcomes == Verdicts \cup {"Retrying"}

Init ==
    /\ holder = [i \in Items |-> 0]
    /\ verdict = [i \in Items |-> "Open"]
    /\ issued = 0
    /\ ledger = [i \in Items |-> {}]

\* Lease an open, unheld item under a token never given out before.
Grant(i) ==
    /\ holder[i] = 0 /\ verdict[i] = "Open"
    /\ issued' = issued + 1
    /\ holder' = [holder EXCEPT ![i] = issued']
    /\ UNCHANGED <<verdict, ledger>>

\* End the leases of the held items of S, each with its outcome; an item that
\* nobody holds can only be cancelled.
Resolve(S, outcome) ==
    /\ S # {}
    /\ \A i \in S : verdict[i] = "Open" /\ (holder[i] = 0 => outcome[i] = "Cancelled")
    /\ holder' = [i \in Items |-> IF i \in S THEN 0 ELSE holder[i]]
    /\ verdict' = [i \in Items |->
           IF i \in S /\ outcome[i] \in Verdicts THEN outcome[i] ELSE verdict[i]]
    /\ ledger' = [i \in Items |->
           IF i \in S /\ holder[i] # 0
           THEN ledger[i] \cup {[token |-> holder[i], outcome |-> outcome[i]]}
           ELSE ledger[i]]
    /\ UNCHANGED issued

Next ==
    \/ \E i \in Items : Grant(i)
    \/ \E S \in SUBSET Items : \E outcome \in [S -> Outcomes] : Resolve(S, outcome)

Spec == Init /\ [][Next]_ledgerVars
=============================================================================
