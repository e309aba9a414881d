-------------------------- MODULE ExperimentOutcome ---------------------------
(***************************************************************************)
(* What an experiment promises its readers (the console, the strategy      *)
(* account, Paper), with no worker, attempt, file or crash in it: a        *)
(* validation record revealed one step at a time, one decision about it    *)
(* that is never revisited, and one forward reading of what was            *)
(* registered.                                                             *)
(***************************************************************************)
EXTENDS Naturals, Sequences

CONSTANT N        \* steps of the validation record

VARIABLES
    record,       \* the candidate each revealed step replayed
    decision,     \* "open", or what research ended with
    registered,   \* the candidate registered, 0 for none
    reading       \* the forward stage: "none", a reading, or "frozen"

vars == <<record, decision, registered, reading>>

Init ==
    /\ record = <<>> /\ decision = "open"
    /\ registered = 0 /\ reading = "none"

\* The next step of the record is revealed, for good.
Reveal ==
    /\ decision = "open" /\ Len(record) < N
    /\ record' \in Seq(Nat \ {0}) /\ Len(record') = Len(record) + 1
    /\ \A i \in DOMAIN record : record'[i] = record[i]
    /\ UNCHANGED <<decision, registered, reading>>

\* The candidate of the record's last step is registered, on a full record.
Register ==
    /\ decision = "open" /\ Len(record) = N
    /\ decision' = "registered" /\ registered' = record[N]
    /\ UNCHANGED <<record, reading>>

\* Research ends without a registration: nothing was ever tested, or the
\* environment blocked it.
EndWithout ==
    /\ decision = "open"
    /\ \/ record = <<>> /\ decision' = "no_deliverable"
       \/ decision' = "environment_blocked"
    /\ UNCHANGED <<record, registered, reading>>

\* The registered strategy is read once; artifacts that changed during the
\* replay freeze the experiment instead.
Read ==
    /\ decision = "registered" /\ reading = "none"
    /\ reading' \in {"ok", "strategy_error", "frozen"}
    /\ UNCHANGED <<record, decision, registered>>

Next == Reveal \/ Register \/ EndWithout \/ Read

Spec == Init /\ [][Next]_vars
=============================================================================
