--------------------------- MODULE MutationPipeline ---------------------------
(***************************************************************************)
(* What mutates and what scans the live organization, one at a time: the   *)
(* Apply driver (.github/workflows/apply-engine.yml calling apply.yml),    *)
(* the Drift scan (drift.yml) and the Testbed harness (testbed-e2e.yml)    *)
(* share the concurrency group otterdog-mutate.                            *)
(*                                                                         *)
(* A merge to trunk that touches the config starts an apply run, which     *)
(* waits in the group for a reviewer, then checks that its commit is still *)
(* the tip of trunk, and only then applies its tree.  GitHub's group holds *)
(* one run and keeps one more pending: a newer arrival cancels the run     *)
(* that was pending.  Config trees are told apart by the commit that last  *)
(* touched the config; the drift layer's work is reduced to whether its    *)
(* issues report a divergence.                                             *)
(***************************************************************************)
EXTENDS Naturals, FiniteSets

CONSTANTS
    Reruns,         \* the kinds of runs people re-run
    MaxMerge,       \* bound: merges to trunk
    MaxManual,      \* bound: dispatches of the apply workflow, and re-runs
    MaxTamper,      \* bound: changes of the live organization by hand
    MaxFault        \* bound: runs that fail or lose their runner

ASSUME PipelineAssumption ==
    /\ Reruns \subseteq {"apply", "drift", "testbed"}
    /\ {MaxMerge, MaxManual, MaxTamper, MaxFault} \subseteq Nat

VARIABLES
    head,       \* the number of the commit at the tip of trunk
    config,     \* for each commit, the commit that last touched the config
    live,       \* the config last applied to the live organization
    torn,       \* live state is that config partly, or with more than it declares
    churned,    \* the testbed repository is in the state the harness induced
    running,    \* the run that holds the group
    pending,    \* the run that waits for the group
    launched,   \* commits an apply run was ever created for
    skipped,    \* commits whose apply run was skipped as superseded
    reported,   \* the drift issues report a divergence
    spent       \* how much of each bound is used

vars == <<head, config, live, torn, churned, running, pending, launched,
          skipped, reported, spent>>

org   == <<live, torn, churned>>
trunk == <<head, config>>
group == <<running, pending>>

Commit == 0 .. MaxMerge

Stage == {"waiting", "guard", "mutate", "induce", "plan", "report", "revert", "cleanup"}

\* leg counts the drift legs of the testbed harness; a scan has the last only.
RunRecord ==
    [kind : {"apply", "drift", "testbed"}, sha : Commit, stage : Stage,
     leg : 1 .. 3, saw : BOOLEAN]

TypeOK ==
    /\ head \in Commit
    /\ config \in [Commit -> Commit]
    /\ live \in Commit
    /\ torn \in BOOLEAN
    /\ churned \in BOOLEAN
    /\ running \subseteq RunRecord
    /\ pending \subseteq RunRecord
    /\ launched \subseteq Commit
    /\ skipped \subseteq Commit
    /\ reported \in BOOLEAN
    /\ spent \in [{"manual", "tamper", "fault"} -> Nat]

Init ==
    /\ head = 0
    /\ config = [n \in Commit |-> 0]
    /\ live = 0
    /\ torn = FALSE
    /\ churned = FALSE
    /\ running = {}
    /\ pending = {}
    /\ launched = {}
    /\ skipped = {}
    /\ reported = FALSE
    /\ spent = [b \in {"manual", "tamper", "fault"} |-> 0]

Spend(budget, max) ==
    /\ spent[budget] < max
    /\ spent' = [spent EXCEPT ![budget] = @ + 1]

\* otterdog plan of the tree at commit n: does live state differ from it?
Diverges(n) == live # config[n] \/ torn \/ churned

-----------------------------------------------------------------------------
\* The concurrency group.

\* Every run is pinned to the commit that was the tip of trunk at its trigger.
NewRun(kind, sha) ==
    [kind |-> kind, sha |-> sha, saw |-> FALSE,
     leg |-> IF kind = "testbed" THEN 1 ELSE 3,
     stage |-> CASE kind = "apply" -> "waiting"
                 [] kind = "drift" -> "plan"
                 [] kind = "testbed" -> "induce"]

\* Mutant of Enter: the scans are in a group of their own.
EnterApart(run) ==
    IF running = {} \/ run.kind # "apply"
    THEN running' = running \cup {run} /\ UNCHANGED pending
    ELSE pending' = {run} /\ UNCHANGED running

\* A run arrives: it takes the free group, or becomes the pending run in place
\* of the one that was; what holds the group is never cancelled.
Enter(run) ==
    IF running = {}
    THEN running' = {run} /\ UNCHANGED pending
    ELSE pending' = {run} /\ UNCHANGED running

\* A run ends, and the pending one takes its place.
Exit(run) ==
    /\ running' = (running \ {run}) \cup pending
    /\ pending' = {}

\* A run goes on.
Move(run, next) ==
    /\ running' = (running \ {run}) \cup {next}
    /\ UNCHANGED pending

-----------------------------------------------------------------------------
\* Triggers.

\* A merge that touches otterdog.json, otterdog/, secrets/ or .sops.yaml.
MergeConfig ==
    /\ head < MaxMerge
    /\ head' = head + 1
    /\ config' = [config EXCEPT ![head + 1] = head + 1]
    /\ Enter(NewRun("apply", head + 1))
    /\ launched' = launched \cup {head + 1}
    /\ UNCHANGED <<org, skipped, reported, spent>>

\* Any other merge: engine, workflows, docs.  No apply run.
MergeOther ==
    /\ head < MaxMerge
    /\ head' = head + 1
    /\ config' = [config EXCEPT ![head + 1] = config[head]]
    /\ UNCHANGED <<org, group, launched, skipped, reported, spent>>

\* workflow_dispatch on main.
Dispatch ==
    /\ Spend("manual", MaxManual)
    /\ Enter(NewRun("apply", head))
    /\ launched' = launched \cup {head}
    /\ UNCHANGED <<trunk, org, skipped, reported>>

\* Somebody re-runs an old run, pinned to its old commit; one of the schedule
\* may be of any commit that was the tip for a day.
Rerun(kind) ==
    /\ Spend("manual", MaxManual)
    /\ \E n \in IF kind = "apply" THEN launched ELSE 0 .. head :
          /\ \A run \in running \cup pending : run.kind = kind => run.sha # n
          /\ Enter(NewRun(kind, n))
    /\ UNCHANGED <<trunk, org, launched, skipped, reported>>

\* The daily scan, the weekly harness, or a dispatch of either.
Schedule(kind) ==
    /\ Enter(NewRun(kind, head))
    /\ UNCHANGED <<trunk, org, launched, skipped, reported, spent>>

\* The live organization is edited by hand, out of band.
Tamper ==
    /\ Spend("tamper", MaxTamper)
    /\ torn' = TRUE
    /\ UNCHANGED <<trunk, live, churned, group, launched, skipped, reported>>

-----------------------------------------------------------------------------
\* The apply run.

Approve(run) ==
    /\ run.stage = "waiting"
    /\ Move(run, [run EXCEPT !.stage = "guard"])
    /\ UNCHANGED <<trunk, org, launched, skipped, reported, spent>>

\* The deployment is rejected, or not approved in time.
Decline(run) ==
    /\ run.stage = "waiting"
    /\ Exit(run)
    /\ UNCHANGED <<trunk, org, launched, skipped, reported, spent>>

\* Mutant of Guard: an approved run is not checked again.
GuardTrusting(run) ==
    /\ run.stage = "guard"
    /\ Move(run, [run EXCEPT !.stage = "mutate"])
    /\ UNCHANGED <<trunk, org, launched, skipped, reported, spent>>

\* Skip if superseded: the run's commit must still be the tip.
Guard(run) ==
    /\ run.stage = "guard"
    /\ \/ /\ run.sha = head
          /\ Move(run, [run EXCEPT !.stage = "mutate"])
          /\ UNCHANGED skipped
       \/ /\ run.sha # head
          /\ Exit(run)
          /\ skipped' = skipped \cup {run.sha}
    /\ UNCHANGED <<trunk, org, launched, reported, spent>>

\* Checkout of the run's own commit, and otterdog apply of that tree, which deletes
\* nothing: what the config that was live declared beyond it, and what somebody added
\* by hand, may stay.
Mutate(run) ==
    /\ run.stage = "mutate"
    /\ live' = config[run.sha]
    /\ torn' \in {FALSE, torn \/ live # config[run.sha]}
    /\ churned' = FALSE
    /\ Exit(run)
    /\ UNCHANGED <<trunk, launched, skipped, reported, spent>>

-----------------------------------------------------------------------------
\* The scan, alone or as a leg of the harness.

\* Mutant of Plan: what is planned against is what was applied.
PlanBlind(run) ==
    /\ run.stage = "plan"
    /\ Move(run, [run EXCEPT !.stage = "report", !.saw = torn \/ churned])
    /\ UNCHANGED <<trunk, org, launched, skipped, reported, spent>>

Plan(run) ==
    /\ run.stage = "plan"
    /\ Move(run, [run EXCEPT !.stage = "report", !.saw = Diverges(run.sha)])
    /\ UNCHANGED <<trunk, org, launched, skipped, reported, spent>>

\* Mutant of AfterLeg: the harness goes from leg to leg.
AfterLegRepeating(run) ==
    IF run.kind = "drift" THEN Exit(run)
    ELSE Move(run, [run EXCEPT !.stage = "plan", !.leg = @ + 1])

\* What follows a leg: the harness goes through three, reverting before the
\* last; the scan is over.
AfterLeg(run) ==
    IF run.kind = "drift" THEN Exit(run)
    ELSE Move(run, CASE run.leg = 1 -> [run EXCEPT !.stage = "plan", !.leg = 2]
                     [] run.leg = 2 -> [run EXCEPT !.stage = "revert", !.leg = 3]
                     [] run.leg = 3 -> [run EXCEPT !.stage = "cleanup"])

\* Mutant of Report: a clean plan leaves the issues open.
ReportKeeping(run) ==
    /\ run.stage = "report"
    /\ reported' = (reported \/ run.saw)
    /\ AfterLeg(run)
    /\ UNCHANGED <<trunk, org, launched, skipped, spent>>

\* The drift layer's reconciliation (module DriftLifecycle).
Report(run) ==
    /\ run.stage = "report"
    /\ reported' = run.saw
    /\ AfterLeg(run)
    /\ UNCHANGED <<trunk, org, launched, skipped, spent>>

\* The harness carries on after a leg that failed; a scan fails with it.
LegFails(run) ==
    /\ run.stage \in {"plan", "report"}
    /\ Spend("fault", MaxFault)
    /\ AfterLeg(run)
    /\ UNCHANGED <<trunk, org, launched, skipped, reported>>

\* One PATCH of the description of the testbed repository.  The harness records
\* that it failed, and goes on.
Patch(value) ==
    \/ churned' = value /\ UNCHANGED spent
    \/ Spend("fault", MaxFault) /\ UNCHANGED churned

Induce(run) ==
    /\ run.stage = "induce"
    /\ Patch(TRUE)
    /\ Move(run, [run EXCEPT !.stage = "plan"])
    /\ UNCHANGED <<trunk, live, torn, launched, skipped, reported>>

Revert(run) ==
    /\ run.stage = "revert"
    /\ Patch(FALSE)
    /\ Move(run, [run EXCEPT !.stage = "plan"])
    /\ UNCHANGED <<trunk, live, torn, launched, skipped, reported>>

\* The always() step, which never fails the job.
Cleanup(run) ==
    /\ run.stage = "cleanup"
    /\ Patch(FALSE)
    /\ Exit(run)
    /\ UNCHANGED <<trunk, live, torn, launched, skipped, reported>>

\* A run fails, is cancelled or loses its runner: an apply may be cut off in the
\* middle, and no later step of the run is executed.
Lose(run) ==
    /\ Spend("fault", MaxFault)
    /\ run.stage # "waiting"
    /\ \/ run.stage = "mutate" /\ torn' = TRUE
       \/ UNCHANGED torn
    /\ Exit(run)
    /\ UNCHANGED <<trunk, live, churned, launched, skipped, reported>>

-----------------------------------------------------------------------------

Step(run) ==
    \/ Approve(run) \/ Decline(run) \/ Guard(run) \/ Mutate(run)
    \/ Plan(run) \/ Report(run) \/ LegFails(run)
    \/ Induce(run) \/ Revert(run) \/ Cleanup(run)

Trigger ==
    \/ MergeConfig \/ MergeOther \/ Dispatch \/ Tamper
    \/ \E kind \in Reruns : Rerun(kind)
    \/ \E kind \in {"drift", "testbed"} : Schedule(kind)

Next ==
    \/ Trigger
    \/ \E run \in running : Step(run) \/ Lose(run)

Spec == Init /\ [][Next]_vars

\* Jobs run; a waiting deployment is approved, rejected, or expires; the daily
\* schedule never stops.
Fairness ==
    /\ WF_vars(\E run \in running : Step(run))
    /\ WF_vars(Schedule("drift"))

FairSpec == Spec /\ Fairness

-----------------------------------------------------------------------------
\* Properties.

\* Incident #99: an approved but superseded tree, or the re-run of an old run,
\* never takes the live organization back to an older config.
NeverRollsBack == [][live' >= live]_vars

\* ADR-0007: scans are serialized with mutations, so no scan ever starts to
\* report drift at a moment when the organization is as the trunk says.
NoPhantomDrift == [][~ reported /\ reported' => Diverges(head)]_vars

\* The supersession guard's notice: when an apply is skipped as superseded, its
\* delta is live, or a newer apply that carries it holds the group or is queued.
SkippedIsCarried ==
    \A n \in skipped :
        \/ live >= config[n]
        \/ \E run \in running \cup pending :
              run.kind = "apply" /\ config[run.sha] >= config[n] /\ run.sha # n

\* An apply that was skipped, cancelled in the queue, declined or cut off, and
\* any edit by hand, comes to be reported for good unless somebody repairs it.
EventuallyReported == <>[]Diverges(head) => <>[]reported

\* And the alarm stops, once the organization stays as the trunk says.
EventuallySilent == <>[](~ Diverges(head)) => <>[](~ reported)
=============================================================================
