---------------------------- MODULE PlanWorkflow ----------------------------
(***************************************************************************)
(* plan.yml on a pull request: one run per pushed commit that leaves a     *)
(* path of the trigger's filter in the pull request, one run at a time,    *)
(* the newest waiting, and the running one cancelled for it.  The verdict  *)
(* is the plan's exit code; the two checks (AppActors and ReaderLists,     *)
(* each a step of the job), the report and the comment on the pull request *)
(* are auxiliary and may fail without reddening the job.                   *)
(*                                                                         *)
(* A cancelled run is not stopped at once: the running step is killed      *)
(* unless its condition is always(), and so are those that follow; after   *)
(* some minutes the runner is terminated wherever it is.                   *)
(***************************************************************************)
EXTENDS Naturals, FiniteSets

CONSTANTS
    Declared, Hash, At, Spaced, Digits, Fold, Allowed,  \* AppActors
    Secrets, Repo,                                      \* ReaderLists
    MaxLive,        \* bound: changes of the live organization
    MaxFault,       \* bound: what goes wrong, people's interruptions included
    MaxPush         \* bound: commits of the pull request

Commit == 1 .. MaxPush

VARIABLES
    downstream,     \* whether another organization's repository calls the workflow
    pushed,         \* the newest commit
    due,            \* the newest commit a run was created for, or 0
    queued,         \* the commit whose run is pending in the group, or 0
    runs,           \* the run of each commit
    thread,         \* the comments of the pull request that bear the marker
    apps, actors,   \* AppActors
    secrets, readers,   \* ReaderLists
    spent           \* how much of each bound is used

Actors == INSTANCE AppActors

Readers == INSTANCE ReaderLists

ASSUME WorkflowAssumption ==
    /\ {MaxLive, MaxFault} \subseteq Nat
    /\ MaxPush \in Nat \ {0}
    /\ Actors!ActorsAssumption
    /\ Readers!ReadersAssumption

checks == <<apps, actors, secrets, readers>>

vars == <<downstream, pushed, due, queued, runs, thread, checks, spent>>

Step == {"prepare", "plan", "guard", "engine", "actors", "readers", "report", "lookup",
         "write", "verdict"}

Fragment == {"absent", "degraded", "report"}

Run == [step : {"none", "over"} \cup Step, cut : BOOLEAN, rc : {"none", "ok", "error"},
        tree : BOOLEAN, actors : Fragment, readers : Fragment, target : {0} \cup Commit,
        failed : SUBSET Step, result : {"none", "success", "failure", "cancelled"}]

\* A comment is known by the commit whose run posted it, and tells of the commit
\* whose run wrote it last.
Comment == [id : Commit, commit : Commit, rc : {"none", "ok", "error"},
            actors : Fragment, readers : Fragment]

TypeOK ==
    /\ downstream \in BOOLEAN
    /\ pushed \in Commit
    /\ due \in 0 .. pushed
    /\ queued \in {0, due}
    /\ runs \in [Commit -> Run]
    /\ thread \subseteq Comment
    /\ Actors!TypeOK
    /\ Readers!TypeOK
    /\ spent.live <= MaxLive /\ spent.fault <= MaxFault

NewRun == [step |-> "none", cut |-> FALSE, rc |-> "none", tree |-> FALSE, actors |-> "absent",
           readers |-> "absent", target |-> 0, failed |-> {}, result |-> "none"]

Init ==
    /\ downstream \in BOOLEAN
    /\ pushed = 1
    /\ due \in {0, 1}
    /\ queued = due
    /\ runs = [c \in Commit |-> NewRun]
    /\ thread = {}
    /\ Actors!Init
    /\ Readers!Init

Active(c) == runs[c].step \in Step

Fault == Actors!Spend("fault", MaxFault)

\* Mutant of Soft: the comment is needed for the verdict, as it was before #276.
SoftButComment == {"guard", "engine", "actors", "readers"}

\* The steps that bear continue-on-error.
Soft == {"guard", "engine", "actors", "readers", "report", "lookup", "write"}

Result(run) ==
    IF run.cut THEN "cancelled" ELSE IF run.failed \subseteq Soft THEN "success" ELSE "failure"

\* The files of a run are gone with its runner.
Over(run) == [run EXCEPT !.step = "over", !.result = Result(run), !.tree = FALSE,
                         !.actors = "absent", !.readers = "absent", !.target = 0]

Failing(run, step) == [run EXCEPT !.failed = @ \cup {step}]

Reached(c, step) == runs[c].step = step

Becomes(c, run) == runs' = [runs EXCEPT ![c] = run]

To(run, step) == [run EXCEPT !.step = step]

Quiet == UNCHANGED <<downstream, pushed, due, queued, checks>>

-----------------------------------------------------------------------------
\* The group.

\* Mutant of Start: without the group, a run starts at once.
StartUnserialized(c) ==
    /\ queued = c
    /\ Reached(c, "none")
    /\ Becomes(c, To(runs[c], "prepare"))
    /\ queued' = 0
    /\ UNCHANGED <<downstream, pushed, due, thread, checks, spent>>

\* The pending run starts when no other is left.
Start(c) ==
    /\ queued = c
    /\ \A d \in Commit : ~ Active(d)
    /\ Becomes(c, To(runs[c], "prepare"))
    /\ queued' = 0
    /\ UNCHANGED <<downstream, pushed, due, thread, checks, spent>>

\* Cancellation.  Neither the verdict's spine nor the plan outlives it; a plan that
\* was not started is skipped, and everything with it.
Cut(run) ==
    CASE run.step = "prepare" -> Over([run EXCEPT !.cut = TRUE])
      [] run.step = "plan" ->
            To([run EXCEPT !.cut = TRUE], IF downstream THEN "guard" ELSE "actors")
      [] OTHER -> [run EXCEPT !.cut = TRUE]

\* Mutant of Push: the pending run keeps its place.
PushKeepsPending ==
    /\ pushed < MaxPush
    /\ pushed' = pushed + 1
    /\ due' = pushed + 1
    /\ queued' = IF queued = 0 THEN pushed + 1 ELSE queued
    /\ runs' = [c \in Commit |-> IF Active(c) THEN Cut(runs[c]) ELSE runs[c]]
    /\ UNCHANGED <<downstream, thread, checks, spent>>

\* A new commit takes the place of the pending one, and the running one is cancelled.
Push ==
    /\ pushed < MaxPush
    /\ pushed' = pushed + 1
    /\ due' = pushed + 1
    /\ queued' = pushed + 1
    /\ runs' = [c \in Commit |->
                   IF c = queued THEN Over([runs[c] EXCEPT !.cut = TRUE])
                   ELSE IF Active(c) THEN Cut(runs[c]) ELSE runs[c]]
    /\ UNCHANGED <<downstream, thread, checks, spent>>

\* A commit with which no path of the filter is left in the pull request: no run, and
\* the one of an older commit goes on.  A caller may have no such filter, and then
\* never does this.
PushOther ==
    /\ pushed < MaxPush
    /\ pushed' = pushed + 1
    /\ UNCHANGED <<downstream, due, queued, runs, thread, checks, spent>>

\* Somebody cancels the run, or timeout-minutes does.
Interrupt(c) ==
    /\ Active(c)
    /\ ~ runs[c].cut
    /\ Fault
    /\ Becomes(c, Cut(runs[c]))
    /\ Quiet
    /\ UNCHANGED thread

\* What a check left half done is gone with its process.
Reset ==
    /\ apps' = [apps EXCEPT !.ever = apps.now, !.always = apps.now]
    /\ actors' = Actors!Idle
    /\ secrets' = [secrets EXCEPT !.ever = secrets.now, !.always = secrets.now]
    /\ readers' = Readers!Idle

Terminate(c) ==
    /\ Active(c)
    /\ runs[c].cut
    /\ Becomes(c, Over(runs[c]))
    /\ Reset
    /\ UNCHANGED <<downstream, pushed, due, queued, thread, spent>>

-----------------------------------------------------------------------------
\* The steps of a run.

\* Checkout, uv, the pin and the token.  Unless another organization calls, the
\* engine's tree is the checkout itself.
Prepare(c) ==
    /\ Reached(c, "prepare")
    /\ \/ Becomes(c, [To(runs[c], "plan") EXCEPT !.tree = ~ downstream]) /\ UNCHANGED spent
       \/ Fault /\ Becomes(c, Over(Failing(runs[c], "prepare")))
    /\ Quiet
    /\ UNCHANGED thread

\* otterdog's exit code is recorded, never raised.
RunPlan(c) ==
    /\ Reached(c, "plan")
    /\ LET run == To(runs[c], IF downstream THEN "guard" ELSE "actors")
       IN  \/ \E rc \in {"ok", "error"} : Becomes(c, [run EXCEPT !.rc = rc]) /\ UNCHANGED spent
           \/ Fault /\ Becomes(c, Failing(run, "plan"))
    /\ Quiet
    /\ UNCHANGED thread

\* Mutant of Guard: nothing is said of a pin that is missing.
GuardSilent(c) ==
    /\ Reached(c, "guard")
    /\ \/ Becomes(c, To(runs[c], "engine")) /\ UNCHANGED spent
       \/ Fault /\ Becomes(c, To(runs[c], "report"))
       \/ Fault /\ Becomes(c, Failing(To(runs[c], "report"), "guard"))
    /\ Quiet
    /\ UNCHANGED thread

\* Without the engine's commit neither check runs, and their fragments say so.
Guard(c) ==
    /\ Reached(c, "guard")
    /\ \/ Becomes(c, To(runs[c], "engine")) /\ UNCHANGED spent
       \/ Fault /\ Becomes(c, [To(runs[c], "report") EXCEPT !.actors = "degraded",
                                                            !.readers = "degraded"])
       \/ Fault /\ Becomes(c, Failing(To(runs[c], "report"), "guard"))
    /\ Quiet
    /\ UNCHANGED thread

CheckoutEngine(c) ==
    /\ Reached(c, "engine")
    /\ \/ Becomes(c, [To(runs[c], "actors") EXCEPT !.tree = TRUE]) /\ UNCHANGED spent
       \/ Fault /\ Becomes(c, Failing(To(runs[c], "actors"), "engine"))
    /\ Quiet
    /\ UNCHANGED thread

\* A step of the check, or its end.  Without an engine tree it does not start, and the
\* step's shell says so; if the shell is lost, its fragment is an empty file.
CheckActors(c) ==
    /\ Reached(c, "actors")
    /\ \/ /\ runs[c].tree
          /\ Actors!Next
          /\ UNCHANGED runs
       \/ /\ runs[c].tree => actors.stage = "over"
          /\ Becomes(c, [To(runs[c], "readers") EXCEPT
                            !.actors = IF runs[c].tree THEN actors.kind ELSE "degraded"])
          /\ apps' = [apps EXCEPT !.ever = apps.now, !.always = apps.now]
          /\ actors' = Actors!Idle
          /\ UNCHANGED spent
       \/ /\ Fault
          /\ Becomes(c, Failing(To(runs[c], "readers"), "actors"))
          /\ apps' = [apps EXCEPT !.ever = apps.now, !.always = apps.now]
          /\ actors' = Actors!Idle
    /\ UNCHANGED <<downstream, pushed, due, queued, thread, secrets, readers>>

CheckReaders(c) ==
    /\ Reached(c, "readers")
    /\ \/ /\ runs[c].tree
          /\ Readers!Next
          /\ UNCHANGED runs
       \/ /\ runs[c].tree => readers.stage = "over"
          /\ Becomes(c, [To(runs[c], "report") EXCEPT
                            !.readers = IF runs[c].tree THEN readers.kind ELSE "degraded"])
          /\ secrets' = [secrets EXCEPT !.ever = secrets.now, !.always = secrets.now]
          /\ readers' = Readers!Idle
          /\ UNCHANGED spent
       \/ /\ Fault
          /\ Becomes(c, Failing(To(runs[c], "report"), "readers"))
          /\ secrets' = [secrets EXCEPT !.ever = secrets.now, !.always = secrets.now]
          /\ readers' = Readers!Idle
    /\ UNCHANGED <<downstream, pushed, due, queued, thread, apps, actors>>

BuildReport(c) ==
    /\ Reached(c, "report")
    /\ \/ Becomes(c, To(runs[c], "lookup")) /\ UNCHANGED spent
       \/ Fault /\ Becomes(c, Failing(To(runs[c], "verdict"), "report"))
    /\ Quiet
    /\ UNCHANGED thread

\* Mutant of Lookup: the comments are not searched.
LookupNothing(c) ==
    /\ Reached(c, "lookup")
    /\ \/ Becomes(c, To(runs[c], "write")) /\ UNCHANGED spent
       \/ Fault /\ Becomes(c, Failing(To(runs[c], "verdict"), "lookup"))
    /\ Quiet
    /\ UNCHANGED thread

\* The oldest of the comments with the marker, if there is one.
Lookup(c) ==
    /\ Reached(c, "lookup")
    /\ \/ /\ Becomes(c, [To(runs[c], "write") EXCEPT !.target =
                IF thread = {} THEN 0
                ELSE (CHOOSE m \in thread : \A n \in thread : m.id <= n.id).id])
          /\ UNCHANGED spent
       \/ Fault /\ Becomes(c, Failing(To(runs[c], "verdict"), "lookup"))
    /\ Quiet
    /\ UNCHANGED thread

Body(c, id) == [id |-> id, commit |-> c, rc |-> runs[c].rc, actors |-> runs[c].actors,
                readers |-> runs[c].readers]

\* The comment to edit was deleted meanwhile.
Gone(target) == target # 0 /\ \A m \in thread : m.id # target

\* PATCH of the comment that was found, or POST.
Written(c, target) ==
    IF target = 0 THEN thread \cup {Body(c, c)}
    ELSE {m \in thread : m.id # target} \cup {Body(c, target)}

\* Mutant of Write: a request that fails is not noticed.
WriteUnnoticed(c) ==
    /\ Reached(c, "write")
    /\ LET target == runs[c].target IN
       \/ ~ Gone(target) /\ thread' = Written(c, target) /\ UNCHANGED spent
       \/ Gone(target) /\ UNCHANGED <<thread, spent>>
       \/ Fault /\ UNCHANGED thread
    /\ Becomes(c, To(runs[c], "verdict"))
    /\ Quiet

\* The request may fail, and so may only its answer.
Write(c) ==
    /\ Reached(c, "write")
    /\ LET target == runs[c].target IN
       \/ /\ ~ Gone(target)
          /\ thread' = Written(c, target)
          /\ Becomes(c, To(runs[c], "verdict"))
          /\ UNCHANGED spent
       \/ /\ Gone(target)
          /\ Becomes(c, Failing(To(runs[c], "verdict"), "write"))
          /\ UNCHANGED <<thread, spent>>
       \/ /\ Fault
          /\ Becomes(c, Failing(To(runs[c], "verdict"), "write"))
          /\ \/ UNCHANGED thread
             \/ ~ Gone(target) /\ thread' = Written(c, target)
    /\ Quiet

\* Fail on plan error: a missing exit code counts as an error.
Verdict(c) ==
    /\ Reached(c, "verdict")
    /\ Becomes(c, Over(IF runs[c].rc = "ok" THEN runs[c] ELSE Failing(runs[c], "verdict")))
    /\ Quiet
    /\ UNCHANGED <<thread, spent>>

-----------------------------------------------------------------------------
\* Somebody deletes a comment while a run is about to edit it.
DeleteComment ==
    /\ \E c \in Commit : Reached(c, "write")
    /\ Fault
    /\ \E m \in thread : thread' = thread \ {m}
    /\ Quiet
    /\ UNCHANGED runs

Advance(c) ==
    \/ Prepare(c) \/ RunPlan(c) \/ Guard(c) \/ CheckoutEngine(c) \/ CheckActors(c)
    \/ CheckReaders(c) \/ BuildReport(c) \/ Lookup(c) \/ Write(c) \/ Verdict(c)

Next ==
    \/ Push \/ PushOther \/ DeleteComment
    \/ \E c \in Commit : Start(c) \/ Advance(c) \/ Interrupt(c) \/ Terminate(c)

Spec == Init /\ [][Next]_vars

\* The group starts its pending run when it is free, and a runner takes the next step
\* of its job: of all commits, at most one has something to do.
Fairness == WF_vars(\E c \in Commit : Start(c) \/ Advance(c))

FairSpec == Spec /\ Fairness

-----------------------------------------------------------------------------
\* Properties.

\* The header of plan.yml, "the rule has no exceptions": whatever becomes of the
\* auxiliary steps, a run that is not cut short is green exactly if the plan of its
\* commit was made and exited with 0.
VerdictIsThePlans ==
    \A c \in Commit : runs[c].result \in {"success", "failure"} =>
        (runs[c].result = "success") = (runs[c].rc = "ok")

\* However pushes, cancellations and the steps of cancelled runs interleave, the
\* comment never goes back to an older commit.
CommentNeverOlder ==
    [][\A m \in thread, n \in thread' : n.commit >= m.commit]_thread

\* The marker keeps it at one comment: also when the answer to a POST is lost, or a
\* comment vanishes between the lookup and the edit.
OneComment == Cardinality(thread) <= 1

\* A silent omission reads like a clean result: a comment that lacks the fragment of
\* a check is of a run in which a step's own shell was lost, never of one in which the
\* check could not be made for a reason the job handles.
CommentTellsUnchecked ==
    \A m \in thread :
        /\ m.actors = "absent" => {"guard", "actors"} \cap runs[m.commit].failed # {}
        /\ m.readers = "absent" => {"guard", "readers"} \cap runs[m.commit].failed # {}

\* The newest commit a run was created for comes to be told of in the comment, or its
\* run shows which step of it failed, or that it was cut.  Commits that follow without a
\* run do not take this away, nor are they told of: the comment stays as it is.
EventuallyTold ==
    []<>(\/ due = 0
         \/ runs[due].step = "over" /\ (runs[due].failed # {} \/ runs[due].cut)
         \/ \E m \in thread : m.commit = due)

\* What the plan's fragment on App slugs says was the case while the check ran, and
\* whatever was wrong throughout is in it, or is said not to have been checked.
ActorReportIsTrue == Actors!NoFalseActor /\ Actors!NoSilentActor

\* The same of the fragment on who may read the organization's secrets.
ReaderReportIsTrue == Readers!NoFalseReader /\ Readers!NoSilentReader
=============================================================================
