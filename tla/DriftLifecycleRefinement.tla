----------------------- MODULE DriftLifecycleRefinement -----------------------
(* The drift job implements the contract of ADR-0002, as long as people only   *)
(* close issues.                                                               *)
EXTENDS DriftLifecycle

\* Evidence is what the run under way has read; when it is over, none is left.
\* A divergence that is not watched needs no report, whatever was read of it.
EvidenceOf(f) ==
    IF \E r \in Run : found[r][f] = "drift" /\ f \in checkout[r] THEN "drift"
    ELSE IF \E r \in Run : found[r][f] \notin {"unread", "unresolved"} THEN "clean"
    ELSE "none"

Contract ==
    INSTANCE DriftIssueContract WITH
        Divergence <- Fingerprint,
        IssueNumber <- Number,
        evidence <- [f \in Fingerprint |-> EvidenceOf(f)],
        open <- [f \in Fingerprint |-> OpenIssues(f)],
        used <- {n \in Number : issue[n].state # "none"},
        dismissals <- spent["human"]

\* Every step of the job, of its failures and of its surroundings is a step of
\* the contract: reconciliation, partition by label and the two-call execution
\* together never duplicate, never alarm and never resolve without evidence.
ImplementsContract == Contract!ContractSpec
=============================================================================
