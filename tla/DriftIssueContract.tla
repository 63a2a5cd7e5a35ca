-------------------------- MODULE DriftIssueContract --------------------------
(***************************************************************************)
(* What ADR-0002 promises of the drift issues, whatever does the work:     *)
(* each divergence has at most one open issue; it is opened only on        *)
(* evidence of the divergence and closed by the tool only on evidence of   *)
(* its resolution, or that it need not be reported; absent evidence        *)
(* changes nothing; issue numbers are never reused.                        *)
(***************************************************************************)
EXTENDS Naturals

CONSTANTS Divergence, IssueNumber

VARIABLES
    evidence,   \* what is known of each divergence at this moment
    open,       \* the open issues of each divergence
    used,       \* numbers of all issues ever opened
    dismissals  \* how many issues people have closed by hand

contractVars == <<evidence, open, used, dismissals>>

ContractInit ==
    /\ evidence = [d \in Divergence |-> "none"]
    /\ open = [d \in Divergence |-> {}]
    /\ used = {}
    /\ dismissals = 0

\* Evidence comes and goes.
Observe ==
    /\ evidence' \in [Divergence -> {"none", "drift", "clean"}]
    /\ UNCHANGED <<open, used, dismissals>>

Report(d, n) ==
    /\ evidence[d] = "drift"
    /\ open[d] = {}
    /\ n \notin used
    /\ open' = [open EXCEPT ![d] = {n}]
    /\ used' = used \cup {n}
    /\ UNCHANGED <<evidence, dismissals>>

Resolve(d) ==
    /\ evidence[d] = "clean"
    /\ open' = [open EXCEPT ![d] = {}]
    /\ UNCHANGED <<evidence, used, dismissals>>

Dismiss(d) ==
    /\ open' = [open EXCEPT ![d] = {}]
    /\ dismissals' = dismissals + 1
    /\ UNCHANGED <<evidence, used>>

ContractNext ==
    \/ Observe
    \/ \E d \in Divergence : Resolve(d) \/ Dismiss(d)
    \/ \E d \in Divergence, n \in IssueNumber : Report(d, n)

ContractSpec == ContractInit /\ [][ContractNext]_contractVars
=============================================================================
