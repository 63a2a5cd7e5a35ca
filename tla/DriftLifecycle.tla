---------------------------- MODULE DriftLifecycle ----------------------------
(***************************************************************************)
(* The drift job, end to end: .github/workflows/drift.yml runs `otterdog   *)
(* plan`, then the drift layer lists the open drift issues, reads the live *)
(* organization through two more legs, reconciles, and executes the        *)
(* resulting actions call by call (cli.run, github_client.execute).        *)
(*                                                                         *)
(* Meanwhile the organization changes, people handle the issues, the       *)
(* committed assertion table is edited, and any call may fail: an ApiError *)
(* that no leg absorbs, or the job's timeout, ends the run where it        *)
(* stands.  Runs of the drift workflow and of the testbed (which drives    *)
(* the same tool, without the token of the live legs) take turns in one    *)
(* concurrency group.                                                      *)
(***************************************************************************)
EXTENDS Reconcile

CONSTANTS
    Run,            \* workflows that drive the drift layer
    PlanOnly,       \* those without DRIFT_REPOS_TOKEN: the live legs are skipped
    HumanMoves,     \* which of "close", "reopen", "unmark" people make
    MaxIssue,       \* bound: issues ever created
    MaxLive,        \* bound: changes of the live organization
    MaxFault,       \* bound: failures of a call, a leg or a job
    MaxHuman,       \* bound: moves people make on issues
    MaxEdit         \* bound: edits of the allow-list and the assertion table

ASSUME LifecycleAssumption ==
    /\ PlanOnly \subseteq Run
    /\ HumanMoves \subseteq {"close", "reopen", "unmark"}
    /\ {MaxIssue, MaxLive, MaxFault, MaxHuman, MaxEdit} \subseteq Nat

Number == 1 .. MaxIssue

VARIABLES
    issue,      \* the issues of the repository, by number
    diverged,   \* where live state and committed config differ now
    watched,    \* what main asks to report: the asserted rows of the table, and
                \* the resources the allow-list does not flag as expected
    pc,         \* where each run stands
    checkout,   \* watched, of the tree the run checked out
    found,      \* what the run's legs made of each divergence
    ran,        \* the legs that ran to completion
    listed,     \* the run's one listing of the open drift issues
    todo,       \* the reconciled actions not yet executed
    half,       \* the action whose first of two calls has been made
    spent,      \* how much of each bound is used
    settled,    \* history: fingerprints seen in agreement since the run began
    drifting,   \* history: fingerprints seen diverged since the run began
    disturbed   \* history: fingerprints whose issues people moved since the listing

live    == <<diverged, watched, settled, drifting>>
reading == <<checkout, found, ran, listed>>
vars    == <<issue, diverged, watched, pc, checkout, found, ran, listed, todo,
             half, spent, settled, drifting, disturbed>>

Verdict == {"unread", "drift", "clean", "unresolved", "unlisted"}

Issue ==
    [state : {"none", "open", "closed"}, fp : Fingerprint \cup {NoMarker},
     labels : SUBSET Label, told : BOOLEAN]

TypeOK ==
    /\ issue \in [Number -> Issue]
    /\ diverged \subseteq Fingerprint
    /\ watched \subseteq Fingerprint
    /\ pc \in [Run -> {"idle", "plan", "list", "sweep", "assert", "execute"}]
    /\ checkout \in [Run -> SUBSET Fingerprint]
    /\ found \in [Run -> [Fingerprint -> Verdict]]
    /\ ran \in [Run -> SUBSET Leg]
    /\ listed \in [Run -> SUBSET ListedIssue(Number)]
    /\ todo \in [Run -> SUBSET IssueAction(Number)]
    /\ half \in [Run -> SUBSET IssueAction(Number)]
    /\ spent \in [{"live", "fault", "human", "edit"} -> Nat]
    /\ settled \subseteq Fingerprint
    /\ drifting \subseteq Fingerprint
    /\ disturbed \subseteq Fingerprint

NoIssue == [state |-> "none", fp |-> NoMarker, labels |-> {}, told |-> FALSE]

Unread == [f \in Fingerprint |-> "unread"]

Init ==
    /\ issue = [n \in Number |-> NoIssue]
    /\ diverged = {}
    /\ watched = Fingerprint
    /\ pc = [r \in Run |-> "idle"]
    /\ checkout = [r \in Run |-> {}]
    /\ found = [r \in Run |-> Unread]
    /\ ran = [r \in Run |-> {}]
    /\ listed = [r \in Run |-> {}]
    /\ todo = [r \in Run |-> {}]
    /\ half = [r \in Run |-> {}]
    /\ spent = [b \in {"live", "fault", "human", "edit"} |-> 0]
    /\ settled = {}
    /\ drifting = {}
    /\ disturbed = {}

Spend(budget, max) ==
    /\ spent[budget] < max
    /\ spent' = [spent EXCEPT ![budget] = @ + 1]

Free == UNCHANGED spent

-----------------------------------------------------------------------------
\* The job.

\* Listed by list_open_drift_issues: open and labelled drift.
Visible(n) == issue[n].state = "open" /\ "drift" \in issue[n].labels

\* Mutant of Start: no concurrency group.
StartUnserialized(r) ==
    /\ pc[r] = "idle"
    /\ pc' = [pc EXCEPT ![r] = "plan"]
    /\ checkout' = [checkout EXCEPT ![r] = watched]
    /\ settled' = Fingerprint \ diverged
    /\ drifting' = diverged
    /\ UNCHANGED <<issue, diverged, watched, found, ran, listed, todo, half, spent, disturbed>>

\* A new run enters the concurrency group, which holds one run at a time, and
\* checks out main.
Start(r) ==
    /\ pc[r] = "idle"
    /\ \A q \in Run : pc[q] = "idle"
    /\ pc' = [pc EXCEPT ![r] = "plan"]
    /\ checkout' = [checkout EXCEPT ![r] = watched]
    /\ settled' = Fingerprint \ diverged
    /\ drifting' = diverged
    /\ UNCHANGED <<issue, diverged, watched, found, ran, listed, todo, half, spent, disturbed>>

\* The run is over; nothing of it survives but the issues.
Leave(r) ==
    /\ pc' = [pc EXCEPT ![r] = "idle"]
    /\ checkout' = [checkout EXCEPT ![r] = {}]
    /\ found' = [found EXCEPT ![r] = Unread]
    /\ ran' = [ran EXCEPT ![r] = {}]
    /\ listed' = [listed EXCEPT ![r] = {}]
    /\ todo' = [todo EXCEPT ![r] = {}]
    /\ half' = [half EXCEPT ![r] = {}]
    /\ UNCHANGED <<issue, live, disturbed>>

\* What reading f live tells: whether it diverges at this moment.
Reading(f) == IF f \in diverged THEN "drift" ELSE "clean"

\* The verdicts of run r with those of one leg read now.
WithLeg(r, leg) ==
    [f \in Fingerprint |-> IF LegOf[f] = leg THEN Reading(f) ELSE found[r][f]]

\* Mutant of RunPlan: a failed plan's empty output is reconciled.
RunPlanUngated(r) ==
    /\ pc[r] = "plan"
    /\ pc' = [pc EXCEPT ![r] = "list"]
    /\ \E rc \in {0, 1} :
          /\ found' = [found EXCEPT ![r] =
                [f \in Fingerprint |->
                    IF LegOf[f] # "plan" THEN found[r][f]
                    ELSE IF rc = 0 THEN Reading(f) ELSE "clean"]]
          /\ IF rc = 0 THEN Free ELSE Spend("fault", MaxFault)
    /\ ran' = [ran EXCEPT ![r] = {"plan"}]
    /\ UNCHANGED <<issue, live, checkout, listed, todo, half, disturbed>>

\* `otterdog plan`.  A plan that exits nonzero fails the job before the drift
\* layer is started: its empty output would read as "no drift".
RunPlan(r) ==
    /\ pc[r] = "plan"
    /\ \/ /\ pc' = [pc EXCEPT ![r] = "list"]
          /\ found' = [found EXCEPT ![r] = WithLeg(r, "plan")]
          /\ ran' = [ran EXCEPT ![r] = {"plan"}]
          /\ Free
          /\ UNCHANGED <<issue, live, checkout, listed, todo, half, disturbed>>
       \/ Spend("fault", MaxFault) /\ Leave(r)

\* Mutant of ListIssues: closed issues are listed too.
ListIssuesAll(r) ==
    /\ pc[r] = "list"
    /\ listed' = [listed EXCEPT ![r] =
          {[number |-> n, fp |-> issue[n].fp, labels |-> issue[n].labels] :
              n \in {m \in Number : issue[m].state # "none"}}]
    /\ pc' = [pc EXCEPT ![r] = "sweep"]
    /\ disturbed' = {}
    /\ UNCHANGED <<issue, live, checkout, found, ran, todo, half, spent>>

\* The one listing the whole reconciliation works from.
ListIssues(r) ==
    /\ pc[r] = "list"
    /\ listed' = [listed EXCEPT ![r] =
          {[number |-> n, fp |-> issue[n].fp, labels |-> issue[n].labels] :
              n \in {m \in Number : Visible(m)}}]
    /\ pc' = [pc EXCEPT ![r] = "sweep"]
    /\ disturbed' = {}
    /\ UNCHANGED <<issue, live, checkout, found, ran, todo, half, spent>>

\* The inventory leg: skipped without the org-wide token, absent from the
\* reconciliation when any live read raises.
Sweep(r) ==
    /\ pc[r] = "sweep"
    /\ pc' = [pc EXCEPT ![r] = "assert"]
    /\ \/ /\ r \notin PlanOnly
          /\ found' = [found EXCEPT ![r] = WithLeg(r, "inventory")]
          /\ ran' = [ran EXCEPT ![r] = @ \cup {"inventory"}]
          /\ Free
       \/ r \in PlanOnly /\ Free /\ UNCHANGED <<found, ran>>
       \/ r \notin PlanOnly /\ Spend("fault", MaxFault) /\ UNCHANGED <<found, ran>>
    /\ UNCHANGED <<issue, live, checkout, listed, todo, half, disturbed>>

\* What evaluate_controls makes of f: the rows of the checked out table are
\* asserted, except those whose endpoint or field could not be read; a row that
\* is not in the table, or is marked unassertable, appears in no bucket at all.
RowVerdict(r, f, unreadable) ==
    IF f \notin checkout[r] THEN "unlisted"
    ELSE IF f \in unreadable THEN "unresolved"
    ELSE Reading(f)

\* The verdicts of run r with those of the control leg read now.
WithRows(r, unreadable) ==
    [f \in Fingerprint |->
        IF LegOf[f] = "control" THEN RowVerdict(r, f, unreadable) ELSE found[r][f]]

\* The reconciled actions, from what the legs found.  Plan and inventory records
\* of allow-listed resources are flagged expected; control records never are,
\* but a row that is not in the table yields none.
Decide(legs, verdict, counted, issues) ==
    ReconcilePopulations(legs,
                         {f \in Fingerprint : verdict[f] = "drift"},
                         Fingerprint \ counted,
                         {f \in Fingerprint : verdict[f] = "unresolved"},
                         issues)

\* The control leg, and the pure reconciliation that follows it.  An empty or
\* missing table is a leg that ran and found nothing, not a skipped leg.
Assert(r) ==
    /\ pc[r] = "assert"
    /\ pc' = [pc EXCEPT ![r] = "execute"]
    /\ \/ \E unreadable \in SUBSET (checkout[r] \cap FingerprintsOf("control")) :
             /\ r \notin PlanOnly
             /\ found' = [found EXCEPT ![r] = WithRows(r, unreadable)]
             /\ ran' = [ran EXCEPT ![r] = @ \cup {"control"}]
             /\ IF unreadable = {} THEN Free ELSE Spend("fault", MaxFault)
       \/ r \in PlanOnly /\ Free /\ UNCHANGED <<found, ran>>
       \/ r \notin PlanOnly /\ Spend("fault", MaxFault) /\ UNCHANGED <<found, ran>>
    /\ todo' = [todo EXCEPT ![r] = Decide(ran'[r], found'[r], checkout[r], listed[r])]
    /\ UNCHANGED <<issue, live, checkout, listed, half, disturbed>>

\* The actions execute may take up next.
Turn(r, kind) ==
    {a \in Foremost(todo[r]) : a.kind = kind /\ pc[r] = "execute" /\ half[r] = {}}

\* GitHub numbers issues upwards.
NextNumber(n) ==
    issue[n].state = "none" /\ \A m \in Number : m < n => issue[m].state # "none"

\* "open": one call, the action carries no comment.
CreateIssue(r) ==
    \E a \in Turn(r, "open"), n \in Number :
        /\ NextNumber(n)
        /\ issue' = [issue EXCEPT ![n] =
              [state |-> "open", fp |-> a.fp, labels |-> LabelsOf(a.leg), told |-> FALSE]]
        /\ todo' = [todo EXCEPT ![r] = @ \ {a}]
        /\ UNCHANGED <<live, pc, reading, half, spent, disturbed>>

\* "update", first call: title and body, which bears the marker again; the
\* state of the issue is not part of the request.
RefreshIssue(r) ==
    \E a \in Turn(r, "update") :
        /\ issue' = [issue EXCEPT ![a.number].fp = a.fp]
        /\ half' = [half EXCEPT ![r] = {a}]
        /\ UNCHANGED <<live, pc, reading, todo, spent, disturbed>>

\* "update", second call: the recurrence comment.
CommentRecurrence(r) ==
    \E a \in half[r] :
        /\ a.kind = "update"
        /\ todo' = [todo EXCEPT ![r] = @ \ {a}]
        /\ half' = [half EXCEPT ![r] = {}]
        /\ UNCHANGED <<issue, live, pc, reading, spent, disturbed>>

\* Mutant of CommentResolution: the issue is closed before it is commented.
CommentResolutionLate(r) ==
    \E a \in Turn(r, "close") :
        /\ issue' = [issue EXCEPT ![a.number].state = "closed"]
        /\ half' = [half EXCEPT ![r] = {a}]
        /\ UNCHANGED <<live, pc, reading, todo, spent, disturbed>>

\* "close", first call: the resolution comment.
CommentResolution(r) ==
    \E a \in Turn(r, "close") :
        /\ issue' = [issue EXCEPT ![a.number].told = TRUE]
        /\ half' = [half EXCEPT ![r] = {a}]
        /\ UNCHANGED <<live, pc, reading, todo, spent, disturbed>>

\* "close", second call: the state.
CloseIssue(r) ==
    \E a \in half[r] :
        /\ a.kind = "close"
        /\ issue' = [issue EXCEPT ![a.number].state = "closed"]
        /\ todo' = [todo EXCEPT ![r] = @ \ {a}]
        /\ half' = [half EXCEPT ![r] = {}]
        /\ UNCHANGED <<live, pc, reading, spent, disturbed>>

\* Every action was executed.
Finish(r) ==
    /\ pc[r] = "execute"
    /\ todo[r] = {}
    /\ Leave(r)
    /\ Free

\* An ApiError from the listing or from any write, a job timeout or a lost
\* runner ends the run: no action is retried, the rest is never executed.  A
\* write whose answer was lost is the write followed by this.
Abort(r) ==
    /\ pc[r] # "idle"
    /\ Spend("fault", MaxFault)
    /\ Leave(r)

-----------------------------------------------------------------------------
\* The surroundings.

\* Live state drifts from the config, or config and live state are reconciled.
LiveChange(f) ==
    /\ Spend("live", MaxLive)
    /\ \/ f \notin diverged /\ diverged' = diverged \cup {f}
       \/ f \in diverged /\ diverged' = diverged \ {f}
    /\ settled' = settled \cup (Fingerprint \ diverged')
    /\ drifting' = drifting \cup diverged'
    /\ UNCHANGED <<issue, watched, pc, reading, todo, half, disturbed>>

\* A merged edit of unmanaged-controls.toml adds a row, drops it or marks it
\* unassertable; one of drift-allowlist.toml flags a resource or unflags it.
GovernanceEdit(f) ==
    /\ Spend("edit", MaxEdit)
    /\ \/ f \notin watched /\ watched' = watched \cup {f}
       \/ f \in watched /\ watched' = watched \ {f}
    /\ UNCHANGED <<issue, diverged, settled, drifting, pc, reading, todo, half, disturbed>>

\* People close drift issues by hand, reopen them, or edit the marker away.
HumanMove(n) ==
    /\ Spend("human", MaxHuman)
    /\ issue[n].fp \in Fingerprint
    /\ \/ /\ "close" \in HumanMoves /\ issue[n].state = "open"
          /\ issue' = [issue EXCEPT ![n].state = "closed"]
       \/ /\ "reopen" \in HumanMoves /\ issue[n].state = "closed"
          /\ issue' = [issue EXCEPT ![n].state = "open", ![n].told = FALSE]
       \/ /\ "unmark" \in HumanMoves /\ issue[n].state = "open"
          /\ issue' = [issue EXCEPT ![n].fp = NoMarker]
    /\ disturbed' = disturbed \cup {issue[n].fp}
    /\ UNCHANGED <<live, pc, reading, todo, half>>

-----------------------------------------------------------------------------

Execute(r) ==
    \/ CreateIssue(r) \/ RefreshIssue(r) \/ CommentRecurrence(r)
    \/ CommentResolution(r) \/ CloseIssue(r) \/ Finish(r)

Advance(r) == RunPlan(r) \/ ListIssues(r) \/ Sweep(r) \/ Assert(r) \/ Execute(r)

Surroundings ==
    \/ \E f \in Fingerprint : LiveChange(f)
    \/ \E f \in Fingerprint : GovernanceEdit(f)
    \/ \E n \in Number : HumanMove(n)

Next ==
    \/ \E r \in Run : Start(r) \/ Advance(r) \/ Abort(r)
    \/ Surroundings

Spec == Init /\ [][Next]_vars

\* A job that runs makes progress, and the daily schedule keeps starting the
\* drift workflow whenever the group is free again and again.
Fairness ==
    \A r \in Run : WF_vars(Advance(r)) /\ (r \notin PlanOnly => SF_vars(Start(r)))

FairSpec == Spec /\ Fairness

-----------------------------------------------------------------------------
\* Properties.

\* The open issues that report divergence f.
OpenIssues(f) == {n \in Number : Visible(n) /\ issue[n].fp = f}

\* ADR-0002: one deduplicated issue per divergence.  However runs are cut off
\* and whatever answer is lost, no divergence has two open drift issues, as
\* long as nobody reopens an issue.
OneOpenIssue ==
    \A f \in Fingerprint : \A m, n \in OpenIssues(f) : m = n

\* What a run is about to do to an issue was true of the live organization at
\* some moment of that run: an issue is closed only if its divergence was seen
\* gone or is no longer watched, and an alarm is raised or repeated only for a
\* watched divergence that was seen.
NoPhantomAction ==
    \A r \in Run : \A a \in todo[r] :
        IF a.kind = "close"
        THEN a.fp \in settled \/ a.fp \notin checkout[r]
        ELSE a.fp \in drifting /\ a.fp \in checkout[r]

\* Explicit degradation: a leg that was skipped or failed, and a row that could
\* not be read, leave their issues exactly as they are.
DegradedUntouched ==
    \A r \in Run : \A a \in todo[r] \cup half[r] :
        found[r][a.fp] \notin {"unread", "unresolved"}

\* When a run has executed everything, the open issues of each leg that was read
\* are exactly the watched divergences the leg found, but for issues people moved
\* after the run had listed them.
RunReportsWhatItRead ==
    \A r \in Run : pc[r] = "execute" /\ todo[r] = {} =>
        \A f \in Fingerprint \ disturbed :
            LegOf[f] \in ran[r] /\ found[r][f] # "unresolved" =>
                (OpenIssues(f) # {} <=> found[r][f] = "drift" /\ f \in checkout[r])

\* The issue is the audit record: a run never closes one without the comment
\* saying why, even when it is cut off between the two calls.
ClosedWithReason ==
    [][\A n \in Number :
         /\ issue[n].state = "open"
         /\ issue'[n].state = "closed"
         /\ UNCHANGED spent
         => issue[n].told]_vars

\* The resolution comment: an issue is closed because the divergence no longer
\* appears in the plan, or the live API returns what the row declares.
ClosedForTheReasonGiven ==
    \A r \in Run : \A a \in todo[r] : a.kind = "close" => found[r][a.fp] = "clean"

\* A divergence that stays, and stays watched, comes to be reported by an open
\* issue that stays, through failed legs, cut-off runs and issues closed by hand.
EventuallyReported ==
    \A f \in Fingerprint :
        <>[](f \in diverged \cap watched) => <>[](OpenIssues(f) # {})

\* A divergence that stays resolved, or unwatched, comes to have no open issue,
\* duplicates reopened by people included.
EventuallyCleared ==
    \A f \in Fingerprint :
        <>[](f \notin diverged \cap watched) => <>[](OpenIssues(f) = {})
=============================================================================
