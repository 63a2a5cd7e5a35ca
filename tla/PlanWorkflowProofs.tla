------------------------- MODULE PlanWorkflowProofs -------------------------
(* Theorems about PlanWorkflow, for any number of commits and any bounds, and *)
(* about the two checks as steps of its job.                                  *)
EXTENDS PlanWorkflow, FiniteSetTheorems, TLAPS

-----------------------------------------------------------------------------
\* The inductive invariant.

Typed ==
    /\ pushed \in Commit
    /\ due \in 0 .. pushed
    /\ queued \in {0, due}
    /\ runs \in [Commit -> Run]
    /\ thread \subseteq Comment

\* What a run has to its name at each step.
Honest(run) ==
    /\ run.step # "over" => run.result = "none"
    /\ run.step \in {"none", "prepare", "plan"} => run.rc = "none" /\ run.failed = {}
    /\ run.step \in Step /\ run.rc = "ok" => run.failed \subseteq Soft
    /\ run.result \in {"success", "failure"} => (run.result = "success") = (run.rc = "ok")

\* The group: one run at a time, and those that are pending or to come are untouched.
Serialized ==
    /\ \A c, d \in Commit : Active(c) /\ Active(d) => c = d
    /\ \A c \in Commit : c > due \/ c = queued => runs[c].step = "none"

\* The comments: one at most, of no later commit than the run that may write next.
Ordered ==
    /\ \A m, n \in thread : m = n
    /\ \A m \in thread : m.commit <= due
    /\ \A c \in Commit, m \in thread : Active(c) => m.commit <= c

\* A run that is about to write knows the comment, unless it was deleted meanwhile.
Aimed(run, comments) ==
    run.step = "write" =>
        IF run.target = 0 THEN comments = {} ELSE \A m \in comments : m.id = run.target

\* A check that is over has printed a fragment.
Told(check) ==
    /\ {"stage", "kind"} \subseteq DOMAIN check
    /\ check.stage = "over" => check.kind \in {"degraded", "report"}

IInv ==
    /\ Typed
    /\ \A c \in Commit : Honest(runs[c])
    /\ Serialized
    /\ Ordered
    /\ \A c \in Commit : Aimed(runs[c], thread)

-----------------------------------------------------------------------------
\* Runs.

LEMMA OverHonest ==
    ASSUME NEW run \in Run, run.cut \/ (run.failed \subseteq Soft) = (run.rc = "ok")
    PROVE  Over(run) \in Run /\ Honest(Over(run)) /\ Over(run).step = "over"
  <1>1. Result(run) \in {"success", "failure", "cancelled"}
    BY DEF Result
  <1>2. Over(run) \in Run /\ Over(run).step = "over"
    BY <1>1 DEF Over, Run, Fragment, Step
  <1>3. Over(run).result = Result(run) /\ Over(run).rc = run.rc
    BY DEF Over, Run
  <1>4. Result(run) \in {"success", "failure"} => (Result(run) = "success") = (run.rc = "ok")
    BY DEF Result, Run
  <1>5. QED
    BY <1>2, <1>3, <1>4 DEF Honest, Step

LEMMA CutHonest ==
    ASSUME NEW run \in Run, Honest(run), run.step \in Step
    PROVE  /\ Cut(run) \in Run /\ Honest(Cut(run))
           /\ Cut(run).step \in Step \cup {"over"}
           /\ Cut(run).step = "write" => run.step = "write" /\ Cut(run).target = run.target
  <1> DEFINE marked == [run EXCEPT !.cut = TRUE]
  <1>1. marked \in Run /\ marked.cut = TRUE
    BY DEF Run
  <1>2. CASE run.step = "prepare"
    <2>1. Cut(run) = Over(marked)
      BY <1>2 DEF Cut
    <2>2. QED
      BY <1>1, <2>1, OverHonest
  <1>3. CASE run.step = "plan"
    <2>1. PICK next \in {"guard", "actors"} : Cut(run) = To(marked, next)
      BY <1>3 DEF Cut
    <2>2. To(marked, next) \in Run /\ To(marked, next).step = next
      BY <1>1 DEF To, Run, Step
    <2>3. /\ To(marked, next).result = run.result /\ To(marked, next).rc = run.rc
          /\ To(marked, next).failed = run.failed
      BY DEF To, Run
    <2>4. QED
      BY <1>3, <2>1, <2>2, <2>3 DEF Honest, Step
  <1>4. CASE run.step \notin {"prepare", "plan"}
    <2>1. Cut(run) = marked
      BY <1>4 DEF Cut
    <2>2. /\ marked.step = run.step /\ marked.result = run.result /\ marked.rc = run.rc
          /\ marked.failed = run.failed /\ marked.target = run.target
      BY DEF Run
    <2>3. QED
      BY <1>1, <2>1, <2>2 DEF Honest
  <1>5. QED
    BY <1>2, <1>3, <1>4

-----------------------------------------------------------------------------
\* Steps of the run that is under way.

\* Such a step, in general: the run comes to be another honest one, and the comments
\* are at most one, of no later commit.
LEMMA Moves ==
    ASSUME WorkflowAssumption, IInv, NEW c \in Commit, Active(c),
           NEW run \in Run, Becomes(c, run), Honest(run), run.step # "none",
           Aimed(run, thread'),
           pushed' = pushed, due' = due, queued' = queued,
           thread' \subseteq Comment,
           \A m, n \in thread' : m = n,
           \A m \in thread' : m.commit <= c
    PROVE  IInv'
  <1>1. /\ runs \in [Commit -> Run] /\ runs' = [runs EXCEPT ![c] = run]
        /\ runs' \in [Commit -> Run] /\ runs'[c] = run
        /\ \A d \in Commit : d # c => runs'[d] = runs[d]
    BY DEF IInv, Typed, Becomes
  <1>2. \A d \in Commit : d # c => ~ Active(d) /\ ~ Active(d)'
    BY <1>1 DEF IInv, Serialized, Active
  <1>3. runs[c].step # "none"
    BY DEF Active, Step
  <1>4. c <= due /\ c # queued /\ due \in Nat
    <2>1. c \in Nat /\ due \in Nat
      BY DEF IInv, Typed, Commit, WorkflowAssumption
    <2>2. QED
      BY <1>3, <2>1 DEF IInv, Serialized
  <1>5. Typed'
    BY <1>1 DEF IInv, Typed
  <1>6. \A d \in Commit : Honest(runs'[d])
    BY <1>1 DEF IInv
  <1>7. Serialized'
    <2>1. \A d, e \in Commit : Active(d)' /\ Active(e)' => d = e
      BY <1>2
    <2>2. \A d \in Commit : d > due' \/ d = queued' => runs'[d].step = "none"
      <3>1. SUFFICES ASSUME NEW d \in Commit, d > due \/ d = queued
                     PROVE  runs'[d].step = "none"
        OBVIOUS
      <3>2. d # c
        <4>1. c \in Nat /\ d \in Nat
          BY DEF Commit, WorkflowAssumption
        <4>2. QED
          BY <1>4, <3>1, <4>1
      <3>3. QED
        BY <1>1, <3>1, <3>2 DEF IInv, Serialized
    <2>3. QED
      BY <2>1, <2>2 DEF Serialized
  <1>8. Ordered'
    <2>1. ASSUME NEW m \in thread'
          PROVE  m.commit <= due
      <3>1. m.commit \in Nat /\ c \in Nat
        BY DEF Comment, Commit, WorkflowAssumption
      <3>2. QED
        BY <1>4, <3>1
    <2>2. \A d \in Commit, m \in thread' : Active(d)' => m.commit <= d
      BY <1>2
    <2>3. QED
      BY <2>1, <2>2 DEF Ordered
  <1>9. ASSUME NEW d \in Commit
        PROVE  Aimed(runs'[d], thread')
    <2>1. CASE d = c
      BY <1>1, <2>1
    <2>2. CASE d # c
      <3>1. runs'[d].step # "write"
        BY <1>2, <2>2 DEF Active, Step
      <3>2. QED
        BY <3>1 DEF Aimed
    <2>3. QED
      BY <2>1, <2>2
  <1>10. QED
    BY <1>5, <1>6, <1>7, <1>8, <1>9 DEF IInv

\* The same where the comments stay as they are, and the run is not about to write.
LEMMA Quietly ==
    ASSUME WorkflowAssumption, IInv, NEW c \in Commit, Active(c),
           NEW run \in Run, Becomes(c, run), Honest(run), run.step \notin {"none", "write"},
           pushed' = pushed, due' = due, queued' = queued, thread' = thread
    PROVE  IInv'
  <1>1. /\ thread \subseteq Comment
        /\ \A m, n \in thread : m = n
        /\ \A m \in thread : m.commit <= c
    BY DEF IInv, Typed, Ordered
  <1>2. Aimed(run, thread)
    BY DEF Aimed
  <1>3. QED
    BY <1>1, <1>2, Moves

\* Steps of a run after its plan.
Later == Step \ {"prepare", "plan"}

LEMMA ToHonest ==
    ASSUME NEW run \in Run, Honest(run), run.step \in Later, NEW step \in Later
    PROVE  /\ To(run, step) \in Run /\ Honest(To(run, step))
           /\ To(run, step).step = step /\ To(run, step).target = run.target
  <1>1. /\ To(run, step).step = step /\ To(run, step).target = run.target
        /\ To(run, step).rc = run.rc /\ To(run, step).failed = run.failed
        /\ To(run, step).result = run.result
    BY DEF To, Run
  <1>2. To(run, step) \in Run
    BY DEF To, Run, Later
  <1>3. QED
    BY <1>1, <1>2 DEF Honest, Step, Later

LEMMA FailingHonest ==
    ASSUME NEW run \in Run, Honest(run), run.step \in Later, NEW step \in Soft
    PROVE  /\ Failing(run, step) \in Run /\ Honest(Failing(run, step))
           /\ Failing(run, step).step = run.step
  <1>1. /\ Failing(run, step).step = run.step
        /\ Failing(run, step).rc = run.rc /\ Failing(run, step).failed = run.failed \cup {step}
        /\ Failing(run, step).result = run.result
    BY DEF Failing, Run
  <1>2. Failing(run, step) \in Run
    <2>1. step \in Step
      BY DEF Soft, Step
    <2>2. run.failed \cup {step} \in SUBSET Step
      BY <2>1 DEF Run
    <2>3. QED
      BY <2>2 DEF Failing, Run
  <1>3. QED
    BY <1>1, <1>2 DEF Honest, Step, Later

LEMMA NotedHonest ==
    ASSUME NEW run \in Run, Honest(run), run.step \in Later,
           NEW a \in Fragment, NEW r \in Fragment
    PROVE  LET noted == [run EXCEPT !.actors = a, !.readers = r]
           IN  noted \in Run /\ Honest(noted) /\ noted.step = run.step
  <1> DEFINE noted == [run EXCEPT !.actors = a, !.readers = r]
  <1>1. /\ noted.step = run.step /\ noted.rc = run.rc /\ noted.failed = run.failed
        /\ noted.result = run.result
    BY DEF Run
  <1>2. noted \in Run
    BY DEF Run
  <1>3. QED
    BY <1>1, <1>2 DEF Honest

LEMMA InitIInv ==
    ASSUME WorkflowAssumption, Init
    PROVE  IInv
  <1>1. NewRun \in Run /\ NewRun.step = "none" /\ Honest(NewRun)
    BY DEF NewRun, Run, Fragment, Honest, Step
  <1>2. 1 \in Commit
    BY DEF Commit, WorkflowAssumption
  <1>3. Typed
    BY <1>1, <1>2 DEF Init, Typed
  <1>4. \A c \in Commit : runs[c] = NewRun
    BY DEF Init
  <1>5. \A c \in Commit : Honest(runs[c]) /\ ~ Active(c)
    BY <1>1, <1>4 DEF Active, Step
  <1>6. Serialized
    BY <1>1, <1>4, <1>5 DEF Serialized
  <1>7. Ordered
    BY DEF Init, Ordered
  <1>8. \A c \in Commit : Aimed(runs[c], thread)
    BY <1>1, <1>4 DEF Aimed
  <1>9. QED
    BY <1>3, <1>5, <1>6, <1>7, <1>8 DEF IInv

-----------------------------------------------------------------------------
\* One lemma per action, or per actions that move the run alike.

LEMMA StartStep ==
    ASSUME WorkflowAssumption, IInv, NEW c \in Commit, Start(c)
    PROVE  IInv'
  <1> DEFINE run == To(runs[c], "prepare")
  <1>1. /\ queued = c /\ queued' = 0 /\ pushed' = pushed /\ due' = due /\ thread' = thread
        /\ runs \in [Commit -> Run] /\ runs[c] \in Run
        /\ c \in Nat /\ c # 0 /\ c = due /\ due \in Nat
    BY DEF Start, IInv, Typed, Commit, WorkflowAssumption
  <1>2. /\ runs' \in [Commit -> Run] /\ runs'[c] = run
        /\ \A d \in Commit : d # c => runs'[d] = runs[d]
        /\ run \in Run
    <2>1. run \in Run
      BY <1>1 DEF To, Run, Step
    <2>2. QED
      BY <1>1, <2>1 DEF Start, Becomes
  <1>3. runs[c].step = "none" /\ Honest(runs[c])
    BY <1>1 DEF IInv, Serialized
  <1>4. /\ run.step = "prepare" /\ run.rc = runs[c].rc /\ run.failed = runs[c].failed
        /\ run.result = runs[c].result
    BY <1>1 DEF To, Run
  <1>5. Honest(run)
    BY <1>3, <1>4 DEF Honest, Step
  <1>6. \A d \in Commit : d # c => ~ Active(d) /\ ~ Active(d)'
    BY <1>2 DEF Start, Active
  <1>7. Typed'
    BY <1>1, <1>2 DEF IInv, Typed
  <1>8. Serialized'
    <2>1. ASSUME NEW d \in Commit, d > due \/ d = 0
          PROVE  runs'[d].step = "none"
      <3>1. d \in Nat /\ d # c
        BY <1>1, <2>1 DEF Commit, WorkflowAssumption
      <3>2. d > due
        BY <2>1 DEF Commit, WorkflowAssumption
      <3>3. QED
        BY <1>2, <3>1, <3>2 DEF IInv, Serialized
    <2>2. QED
      BY <1>1, <1>6, <2>1 DEF Serialized
  <1>9. Ordered'
    <2>1. \A d \in Commit, m \in thread : Active(d)' => m.commit <= d
      BY <1>1, <1>6 DEF IInv, Ordered
    <2>2. QED
      BY <1>1, <2>1 DEF IInv, Ordered
  <1>10. ASSUME NEW d \in Commit PROVE Aimed(runs'[d], thread')
    BY <1>1, <1>2, <1>4 DEF IInv, Aimed
  <1>11. QED
    BY <1>2, <1>5, <1>7, <1>8, <1>9, <1>10 DEF IInv

LEMMA PushStep ==
    ASSUME WorkflowAssumption, IInv, Push
    PROVE  IInv'
  <1>1. /\ pushed \in Nat /\ pushed' = pushed + 1 /\ pushed' \in Commit
        /\ due \in 0 .. pushed /\ due' = pushed' /\ queued' = due' /\ thread' = thread
        /\ runs \in [Commit -> Run] /\ queued \in {0, due}
        /\ Commit \subseteq Nat /\ MaxPush \in Nat
    BY DEF Push, IInv, Typed, Commit, WorkflowAssumption
  <1>2. ASSUME NEW c \in Commit
        PROVE  /\ runs'[c] \in Run /\ Honest(runs'[c])
               /\ runs[c].step = "none" /\ c # queued => runs'[c] = runs[c]
               /\ Active(c)' => Active(c)
               /\ runs'[c].step = "write" =>
                     runs[c].step = "write" /\ runs'[c].target = runs[c].target
    <2>1. runs[c] \in Run /\ Honest(runs[c])
      BY <1>1 DEF IInv
    <2>2. CASE c = queued
      <3>1. runs'[c] = Over([runs[c] EXCEPT !.cut = TRUE])
        BY <2>2 DEF Push
      <3>2. [runs[c] EXCEPT !.cut = TRUE] \in Run /\ [runs[c] EXCEPT !.cut = TRUE].cut
        BY <2>1 DEF Run
      <3>3. QED
        BY <2>2, <3>1, <3>2, OverHonest DEF Active, Step
    <2>3. CASE c # queued /\ Active(c)
      <3>1. runs'[c] = Cut(runs[c])
        BY <2>3 DEF Push
      <3>2. QED
        BY <2>1, <2>3, <3>1, CutHonest DEF Active, Step
    <2>4. CASE c # queued /\ ~ Active(c)
      <3>1. runs'[c] = runs[c]
        BY <2>4 DEF Push
      <3>2. QED
        BY <2>1, <2>4, <3>1 DEF Active
    <2>5. QED
      BY <2>2, <2>3, <2>4
  <1>3. Typed'
    <2>1. runs' \in [Commit -> Run]
      BY <1>2 DEF Push
    <2>2. QED
      BY <1>1, <2>1 DEF IInv, Typed
  <1>4. Serialized'
    <2>1. ASSUME NEW c \in Commit, c > due' \/ c = queued'
          PROVE  runs'[c].step = "none"
      <3>1. c > due /\ c # queued
        BY <1>1, <2>1
      <3>2. QED
        BY <1>2, <3>1 DEF IInv, Serialized
    <2>2. QED
      BY <1>2, <2>1 DEF IInv, Serialized
  <1>5. Ordered'
    <2>1. \A m \in thread : m.commit \in Nat
      BY <1>1 DEF IInv, Typed, Comment
    <2>2. QED
      BY <1>1, <1>2, <2>1 DEF IInv, Ordered
  <1>6. \A c \in Commit : Aimed(runs'[c], thread')
    BY <1>1, <1>2 DEF IInv, Aimed
  <1>7. QED
    BY <1>2, <1>3, <1>4, <1>5, <1>6 DEF IInv

LEMMA PushOtherStep ==
    ASSUME WorkflowAssumption, IInv, PushOther
    PROVE  IInv'
  <1>1. /\ pushed \in Nat /\ pushed' = pushed + 1 /\ pushed' \in Commit
        /\ due' = due /\ queued' = queued /\ runs' = runs /\ thread' = thread
    BY DEF PushOther, IInv, Typed, Commit, WorkflowAssumption
  <1>2. Typed'
    BY <1>1 DEF IInv, Typed
  <1>3. QED
    BY <1>1, <1>2 DEF IInv, Serialized, Ordered, Active

LEMMA CutStep ==
    ASSUME WorkflowAssumption, IInv, NEW c \in Commit, Interrupt(c) \/ Terminate(c)
    PROVE  IInv'
  <1>1. /\ Active(c) /\ runs[c] \in Run /\ Honest(runs[c]) /\ runs[c].step \in Step
        /\ pushed' = pushed /\ due' = due /\ queued' = queued /\ thread' = thread
    BY DEF Interrupt, Terminate, Active, IInv, Typed, Quiet
  <1>2. CASE Interrupt(c)
    <2> DEFINE run == Cut(runs[c])
    <2>1. Becomes(c, run)
      BY <1>2 DEF Interrupt
    <2>2. /\ run \in Run /\ Honest(run) /\ run.step # "none"
          /\ run.step = "write" => runs[c].step = "write" /\ run.target = runs[c].target
      BY <1>1, CutHonest DEF Step
    <2>3. Aimed(run, thread')
      BY <1>1, <2>2 DEF IInv, Aimed
    <2>4. /\ thread' \subseteq Comment
          /\ \A m, n \in thread' : m = n
          /\ \A m \in thread' : m.commit <= c
      BY <1>1 DEF IInv, Typed, Ordered
    <2>5. QED
      BY <1>1, <2>1, <2>2, <2>3, <2>4, Moves
  <1>3. CASE Terminate(c)
    <2>1. Becomes(c, Over(runs[c])) /\ runs[c].cut
      BY <1>3 DEF Terminate
    <2>2. QED
      BY <1>1, <2>1, OverHonest, Quietly
  <1>4. QED
    BY <1>2, <1>3

LEMMA PrepareStep ==
    ASSUME WorkflowAssumption, IInv, NEW c \in Commit, Prepare(c)
    PROVE  IInv'
  <1>1. /\ Active(c) /\ runs[c] \in Run /\ Honest(runs[c]) /\ runs[c].step = "prepare"
        /\ pushed' = pushed /\ due' = due /\ queued' = queued /\ thread' = thread
    BY DEF Prepare, Reached, Active, Step, IInv, Typed, Quiet
  <1>2. CASE Becomes(c, [To(runs[c], "plan") EXCEPT !.tree = ~ downstream])
    <2> DEFINE run == [To(runs[c], "plan") EXCEPT !.tree = ~ downstream]
    <2>1. /\ run.step = "plan" /\ run.rc = runs[c].rc /\ run.failed = runs[c].failed
          /\ run.result = runs[c].result
      BY <1>1 DEF To, Run
    <2>2. run \in Run
      BY <1>1 DEF To, Run, Step
    <2>3. Honest(run)
      BY <1>1, <2>1 DEF Honest, Step
    <2>4. QED
      BY <1>1, <1>2, <2>1, <2>2, <2>3, Quietly
  <1>3. CASE Becomes(c, Over(Failing(runs[c], "prepare")))
    <2> DEFINE run == Failing(runs[c], "prepare")
    <2>1. run.failed = runs[c].failed \cup {"prepare"} /\ run.rc = runs[c].rc
      BY <1>1 DEF Failing, Run
    <2>2. run \in Run
      <3>1. runs[c].failed \cup {"prepare"} \in SUBSET Step
        BY <1>1 DEF Run, Step
      <3>2. QED
        BY <1>1, <3>1 DEF Failing, Run
    <2>3. (run.failed \subseteq Soft) = (run.rc = "ok")
      <3>1. "prepare" \in run.failed /\ "prepare" \notin Soft
        BY <2>1 DEF Soft
      <3>2. run.rc = "none"
        BY <1>1, <2>1 DEF Honest
      <3>3. QED
        BY <3>1, <3>2
    <2>4. QED
      BY <1>1, <1>3, <2>2, <2>3, OverHonest, Quietly
  <1>4. QED
    BY <1>2, <1>3 DEF Prepare

LEMMA RunPlanStep ==
    ASSUME WorkflowAssumption, IInv, NEW c \in Commit, RunPlan(c)
    PROVE  IInv'
  <1>1. /\ Active(c) /\ runs[c] \in Run /\ Honest(runs[c]) /\ runs[c].step = "plan"
        /\ pushed' = pushed /\ due' = due /\ queued' = queued /\ thread' = thread
    BY DEF RunPlan, Reached, Active, Step, IInv, Typed, Quiet
  <1>2. PICK next \in {"guard", "actors"} :
          \/ \E rc \in {"ok", "error"} : Becomes(c, [To(runs[c], next) EXCEPT !.rc = rc])
          \/ Becomes(c, Failing(To(runs[c], next), "plan"))
    BY DEF RunPlan
  <1>3. runs[c].rc = "none" /\ runs[c].failed = {} /\ runs[c].result = "none"
    BY <1>1 DEF Honest
  <1>4. CASE \E rc \in {"ok", "error"} : Becomes(c, [To(runs[c], next) EXCEPT !.rc = rc])
    <2>1. PICK rc \in {"ok", "error"} : Becomes(c, [To(runs[c], next) EXCEPT !.rc = rc])
      BY <1>4
    <2> DEFINE run == [To(runs[c], next) EXCEPT !.rc = rc]
    <2>2. run.step = next /\ run.rc = rc /\ run.failed = {} /\ run.result = "none"
      BY <1>1, <1>3 DEF To, Run
    <2>3. run \in Run
      BY <1>1 DEF To, Run, Step
    <2>4. Honest(run)
      BY <2>2 DEF Honest, Step
    <2>5. QED
      BY <1>1, <2>1, <2>2, <2>3, <2>4, Quietly
  <1>5. CASE Becomes(c, Failing(To(runs[c], next), "plan"))
    <2> DEFINE run == Failing(To(runs[c], next), "plan")
    <2>1. run.step = next /\ run.rc = "none" /\ run.result = "none" /\ run.failed = {"plan"}
      BY <1>1, <1>3 DEF To, Failing, Run
    <2>2. run \in Run
      <3>1. {} \cup {"plan"} \in SUBSET Step
        BY DEF Step
      <3>2. QED
        BY <1>1, <1>3, <3>1 DEF To, Failing, Run, Step
    <2>3. Honest(run)
      BY <2>1 DEF Honest, Step
    <2>4. QED
      BY <1>1, <1>5, <2>1, <2>2, <2>3, Quietly
  <1>6. QED
    BY <1>2, <1>4, <1>5

LEMMA GuardStep ==
    ASSUME WorkflowAssumption, IInv, NEW c \in Commit, Guard(c)
    PROVE  IInv'
  <1>1. /\ runs[c] \in Run /\ Honest(runs[c]) /\ runs[c].step = "guard"
        /\ pushed' = pushed /\ due' = due /\ queued' = queued /\ thread' = thread
    BY DEF Guard, Reached, IInv, Typed, Quiet
  <1>2. /\ runs[c].step \in Later /\ "engine" \in Later /\ "report" \in Later
        /\ "guard" \in Soft /\ Active(c)
    BY <1>1 DEF Later, Step, Soft, Active
  <1>3. \A step \in {"engine", "report"} :
           To(runs[c], step) \in Run /\ Honest(To(runs[c], step)) /\ To(runs[c], step).step = step
    BY <1>1, <1>2, ToHonest
  <1>4. CASE Becomes(c, To(runs[c], "engine"))
    BY <1>1, <1>2, <1>3, <1>4, Quietly
  <1>5. CASE Becomes(c, [To(runs[c], "report") EXCEPT !.actors = "degraded",
                                                      !.readers = "degraded"])
    <2> DEFINE run == [To(runs[c], "report") EXCEPT !.actors = "degraded",
                                                    !.readers = "degraded"]
    <2>1. run \in Run /\ Honest(run) /\ run.step = "report"
      BY <1>2, <1>3, NotedHonest DEF Fragment
    <2>2. QED
      BY <1>1, <1>2, <1>5, <2>1, Quietly
  <1>6. CASE Becomes(c, Failing(To(runs[c], "report"), "guard"))
    BY <1>1, <1>2, <1>3, <1>6, FailingHonest, Quietly
  <1>7. QED
    BY <1>4, <1>5, <1>6 DEF Guard

LEMMA CheckoutEngineStep ==
    ASSUME WorkflowAssumption, IInv, NEW c \in Commit, CheckoutEngine(c)
    PROVE  IInv'
  <1>1. /\ runs[c] \in Run /\ Honest(runs[c]) /\ runs[c].step = "engine"
        /\ pushed' = pushed /\ due' = due /\ queued' = queued /\ thread' = thread
    BY DEF CheckoutEngine, Reached, IInv, Typed, Quiet
  <1>2. runs[c].step \in Later /\ "actors" \in Later /\ "engine" \in Soft /\ Active(c)
    BY <1>1 DEF Later, Step, Soft, Active
  <1>3. /\ To(runs[c], "actors") \in Run /\ Honest(To(runs[c], "actors"))
        /\ To(runs[c], "actors").step = "actors"
    BY <1>1, <1>2, ToHonest
  <1>4. CASE Becomes(c, [To(runs[c], "actors") EXCEPT !.tree = TRUE])
    <2> DEFINE run == [To(runs[c], "actors") EXCEPT !.tree = TRUE]
    <2>1. /\ run.step = "actors" /\ run.rc = To(runs[c], "actors").rc
          /\ run.failed = To(runs[c], "actors").failed
          /\ run.result = To(runs[c], "actors").result /\ run \in Run
      BY <1>3 DEF Run
    <2>2. Honest(run)
      BY <1>3, <2>1 DEF Honest
    <2>3. QED
      BY <1>1, <1>2, <1>4, <2>1, <2>2, Quietly
  <1>5. CASE Becomes(c, Failing(To(runs[c], "actors"), "engine"))
    BY <1>1, <1>2, <1>3, <1>5, FailingHonest, Quietly
  <1>6. QED
    BY <1>4, <1>5 DEF CheckoutEngine

\* A step of a check leaves the workflow where it is.
LEMMA Beside ==
    ASSUME IInv, UNCHANGED <<pushed, due, queued, runs, thread>>
    PROVE  IInv'
  <1>1. Typed' /\ Serialized' /\ Ordered'
    BY DEF IInv, Typed, Serialized, Ordered, Active
  <1>2. QED
    BY <1>1 DEF IInv


LEMMA CheckActorsStep ==
    ASSUME WorkflowAssumption, IInv, NEW c \in Commit, CheckActors(c), Told(actors)
    PROVE  IInv' /\ Told(actors') /\ readers' = readers
  <1>1. /\ runs[c] \in Run /\ Honest(runs[c]) /\ runs[c].step = "actors"
        /\ pushed' = pushed /\ due' = due /\ queued' = queued /\ thread' = thread /\ readers' = readers
    BY DEF CheckActors, Reached, IInv, Typed
  <1>2. runs[c].step \in Later /\ "readers" \in Later /\ "actors" \in Soft /\ Active(c)
    BY <1>1 DEF Later, Step, Soft, Active
  <1>3. /\ To(runs[c], "readers") \in Run /\ Honest(To(runs[c], "readers"))
        /\ To(runs[c], "readers").step = "readers"
    BY <1>1, <1>2, ToHonest
  <1>4. Told(Actors!Idle)
    BY DEF Told, Actors!Idle
  <1>5. CASE Actors!Next /\ UNCHANGED runs
    <2>1. Told(actors')
      BY <1>4, <1>5 DEF Told, Actors!Next, Actors!Begin, Actors!ReadInstallations,
         Actors!Resolve, Actors!Break, Actors!Report, Actors!LiveChange, Actors!Degrade,
         Actors!Idle
    <2>2. QED
      BY <1>1, <1>5, <2>1, Beside
  <1>6. CASE /\ runs[c].tree => actors.stage = "over"
             /\ Becomes(c, [To(runs[c], "readers") EXCEPT
                              !.actors = IF runs[c].tree THEN actors.kind ELSE "degraded"])
             /\ actors' = Actors!Idle
    <2> DEFINE kind == IF runs[c].tree THEN actors.kind ELSE "degraded"
               run == [To(runs[c], "readers") EXCEPT !.actors = kind]
    <2>1. kind \in Fragment
      BY <1>6 DEF Told, Fragment
    <2>2. run \in Run /\ Honest(run) /\ run.step = "readers"
      <3> HIDE DEF kind
      <3>1. /\ run.step = "readers" /\ run.rc = To(runs[c], "readers").rc
            /\ run.failed = To(runs[c], "readers").failed
            /\ run.result = To(runs[c], "readers").result /\ run \in Run
        BY <1>3, <2>1 DEF Run
      <3>2. QED
        BY <1>3, <3>1 DEF Honest
    <2>3. QED
      BY <1>1, <1>2, <1>4, <1>6, <2>2, Quietly
  <1>7. CASE Becomes(c, Failing(To(runs[c], "readers"), "actors")) /\ actors' = Actors!Idle
    BY <1>1, <1>2, <1>3, <1>4, <1>7, FailingHonest, Quietly
  <1>8. QED
    BY <1>5, <1>6, <1>7 DEF CheckActors

LEMMA CheckReadersStep ==
    ASSUME WorkflowAssumption, IInv, NEW c \in Commit, CheckReaders(c), Told(readers)
    PROVE  IInv' /\ Told(readers') /\ actors' = actors
  <1>1. /\ runs[c] \in Run /\ Honest(runs[c]) /\ runs[c].step = "readers"
        /\ pushed' = pushed /\ due' = due /\ queued' = queued /\ thread' = thread /\ actors' = actors
    BY DEF CheckReaders, Reached, IInv, Typed
  <1>2. runs[c].step \in Later /\ "report" \in Later /\ "readers" \in Soft /\ Active(c)
    BY <1>1 DEF Later, Step, Soft, Active
  <1>3. /\ To(runs[c], "report") \in Run /\ Honest(To(runs[c], "report"))
        /\ To(runs[c], "report").step = "report"
    BY <1>1, <1>2, ToHonest
  <1>4. Told(Readers!Idle)
    BY DEF Told, Readers!Idle
  <1>5. CASE Readers!Next /\ UNCHANGED runs
    <2>1. Told(readers')
      BY <1>4, <1>5 DEF Told, Readers!Next, Readers!Begin, Readers!ListSecrets,
         Readers!ReadList, Readers!Break, Readers!Report, Readers!LiveChange,
         Readers!Degrade, Readers!Publish, Readers!Put, Readers!Idle
    <2>2. QED
      BY <1>1, <1>5, <2>1, Beside
  <1>6. CASE /\ runs[c].tree => readers.stage = "over"
             /\ Becomes(c, [To(runs[c], "report") EXCEPT
                              !.readers = IF runs[c].tree THEN readers.kind ELSE "degraded"])
             /\ readers' = Readers!Idle
    <2> DEFINE kind == IF runs[c].tree THEN readers.kind ELSE "degraded"
               run == [To(runs[c], "report") EXCEPT !.readers = kind]
    <2>1. kind \in Fragment
      BY <1>6 DEF Told, Fragment
    <2>2. run \in Run /\ Honest(run) /\ run.step = "report"
      <3> HIDE DEF kind
      <3>1. /\ run.step = "report" /\ run.rc = To(runs[c], "report").rc
            /\ run.failed = To(runs[c], "report").failed
            /\ run.result = To(runs[c], "report").result /\ run \in Run
        BY <1>3, <2>1 DEF Run
      <3>2. QED
        BY <1>3, <3>1 DEF Honest
    <2>3. QED
      BY <1>1, <1>2, <1>4, <1>6, <2>2, Quietly
  <1>7. CASE Becomes(c, Failing(To(runs[c], "report"), "readers")) /\ readers' = Readers!Idle
    BY <1>1, <1>2, <1>3, <1>4, <1>7, FailingHonest, Quietly
  <1>8. QED
    BY <1>5, <1>6, <1>7 DEF CheckReaders


LEMMA BuildReportStep ==
    ASSUME WorkflowAssumption, IInv, NEW c \in Commit, BuildReport(c)
    PROVE  IInv'
  <1>1. /\ runs[c] \in Run /\ Honest(runs[c]) /\ runs[c].step = "report"
        /\ pushed' = pushed /\ due' = due /\ queued' = queued /\ thread' = thread
    BY DEF BuildReport, Reached, IInv, Typed, Quiet
  <1>2. /\ runs[c].step \in Later /\ "lookup" \in Later /\ "verdict" \in Later
        /\ "report" \in Soft /\ Active(c)
    BY <1>1 DEF Later, Step, Soft, Active
  <1>3. \A step \in {"lookup", "verdict"} :
           To(runs[c], step) \in Run /\ Honest(To(runs[c], step)) /\ To(runs[c], step).step = step
    BY <1>1, <1>2, ToHonest
  <1>4. CASE Becomes(c, To(runs[c], "lookup"))
    BY <1>1, <1>2, <1>3, <1>4, Quietly
  <1>5. CASE Becomes(c, Failing(To(runs[c], "verdict"), "report"))
    BY <1>1, <1>2, <1>3, <1>5, FailingHonest, Quietly
  <1>6. QED
    BY <1>4, <1>5 DEF BuildReport

LEMMA LookupStep ==
    ASSUME WorkflowAssumption, IInv, NEW c \in Commit, Lookup(c)
    PROVE  IInv'
  <1>1. /\ runs[c] \in Run /\ Honest(runs[c]) /\ runs[c].step = "lookup"
        /\ pushed' = pushed /\ due' = due /\ queued' = queued /\ thread' = thread
    BY DEF Lookup, Reached, IInv, Typed, Quiet
  <1>2. /\ runs[c].step \in Later /\ "write" \in Later /\ "verdict" \in Later
        /\ "lookup" \in Soft /\ Active(c)
    BY <1>1 DEF Later, Step, Soft, Active
  <1>3. \A step \in {"write", "verdict"} :
           To(runs[c], step) \in Run /\ Honest(To(runs[c], step)) /\ To(runs[c], step).step = step
    BY <1>1, <1>2, ToHonest
  <1>4. /\ thread \subseteq Comment
        /\ \A m, n \in thread : m = n
        /\ \A m \in thread : m.commit <= c
    BY <1>2 DEF IInv, Typed, Ordered
  <1> DEFINE oldest == CHOOSE m \in thread : \A n \in thread : m.id <= n.id
             found == IF thread = {} THEN 0 ELSE oldest.id
             run == [To(runs[c], "write") EXCEPT !.target = found]
  <1>5. thread # {} => oldest \in thread
    <2>1. ASSUME NEW m \in thread
          PROVE  \A n \in thread : m.id <= n.id
      <3>1. m.id \in Nat
        BY <1>4 DEF Comment, Commit, WorkflowAssumption
      <3>2. QED
        BY <1>4, <3>1
    <2>2. QED
      BY <2>1
  <1>6. /\ found \in {0} \cup Commit
        /\ IF found = 0 THEN thread = {} ELSE \A m \in thread : m.id = found
    <2>1. CASE thread = {}
      BY <2>1
    <2>2. CASE thread # {}
      <3>1. found = oldest.id /\ oldest \in thread
        BY <1>5, <2>2
      <3>2. found \in Commit /\ found # 0
        BY <1>4, <3>1 DEF Comment, Commit, WorkflowAssumption
      <3>3. QED
        BY <1>4, <3>1, <3>2
    <2>3. QED
      BY <2>1, <2>2
  <1>7. CASE Becomes(c, run)
    <2> HIDE DEF found
    <2>1. /\ run.step = "write" /\ run.target = found
          /\ run.rc = To(runs[c], "write").rc /\ run.failed = To(runs[c], "write").failed
          /\ run.result = To(runs[c], "write").result /\ run \in Run
      BY <1>3, <1>6 DEF Run
    <2>2. Honest(run) /\ Aimed(run, thread')
      BY <1>1, <1>3, <1>6, <2>1 DEF Honest, Aimed
    <2>3. QED
      BY <1>1, <1>2, <1>4, <1>7, <2>1, <2>2, Moves
  <1>8. CASE Becomes(c, Failing(To(runs[c], "verdict"), "lookup"))
    BY <1>1, <1>2, <1>3, <1>8, FailingHonest, Quietly
  <1>9. QED
    BY <1>7, <1>8 DEF Lookup

\* The comments after a PATCH or a POST: one, of the commit that wrote it.
LEMMA WrittenOne ==
    ASSUME WorkflowAssumption, IInv, NEW c \in Commit, runs[c].step = "write"
    PROVE  /\ Written(c, runs[c].target) = {Body(c, IF runs[c].target = 0 THEN c ELSE runs[c].target)}
           /\ Written(c, runs[c].target) \subseteq Comment
           /\ \A m, n \in Written(c, runs[c].target) : m = n
           /\ \A m \in Written(c, runs[c].target) : m.commit = c
  <1> DEFINE target == runs[c].target
             id == IF target = 0 THEN c ELSE target
  <1>1. runs[c] \in Run /\ Aimed(runs[c], thread)
    BY DEF IInv, Typed
  <1>2. Written(c, target) = {Body(c, id)}
    <2>1. CASE target = 0
      <3>1. thread = {}
        BY <1>1, <2>1 DEF Aimed
      <3>2. QED
        BY <2>1, <3>1 DEF Written
    <2>2. CASE target # 0
      <3>1. {m \in thread : m.id # target} = {}
        BY <1>1, <2>2 DEF Aimed
      <3>2. QED
        BY <2>2, <3>1 DEF Written
    <2>3. QED
      BY <2>1, <2>2
  <1>3. id \in Commit
    BY <1>1 DEF Run
  <1>4. Body(c, id) \in Comment /\ Body(c, id).commit = c
    <2>1. runs[c].rc \in {"none", "ok", "error"} /\ runs[c].actors \in Fragment /\ runs[c].readers \in Fragment
      BY <1>1 DEF Run
    <2>2. QED
      BY <1>3, <2>1 DEF Body, Comment
  <1>5. QED
    BY <1>2, <1>4

LEMMA WriteStep ==
    ASSUME WorkflowAssumption, IInv, NEW c \in Commit, Write(c)
    PROVE  IInv'
  <1>1. /\ runs[c] \in Run /\ Honest(runs[c]) /\ runs[c].step = "write"
        /\ pushed' = pushed /\ due' = due /\ queued' = queued
    BY DEF Write, Reached, IInv, Typed, Quiet
  <1>2. /\ runs[c].step \in Later /\ "verdict" \in Later /\ "write" \in Soft /\ Active(c)
    BY <1>1 DEF Later, Step, Soft, Active
  <1>3. /\ To(runs[c], "verdict") \in Run /\ Honest(To(runs[c], "verdict"))
        /\ To(runs[c], "verdict").step = "verdict"
    BY <1>1, <1>2, ToHonest
  <1>4. PICK run \in {To(runs[c], "verdict"), Failing(To(runs[c], "verdict"), "write")} :
           Becomes(c, run)
    BY DEF Write
  <1>5. run \in Run /\ Honest(run) /\ run.step = "verdict"
    BY <1>2, <1>3, FailingHonest
  <1>6. thread' = thread \/ thread' = Written(c, runs[c].target)
    BY DEF Write
  <1>7. /\ thread' \subseteq Comment
        /\ \A m, n \in thread' : m = n
        /\ \A m \in thread' : m.commit <= c
    <2>1. CASE thread' = thread
      BY <1>2, <2>1 DEF IInv, Typed, Ordered
    <2>2. CASE thread' = Written(c, runs[c].target)
      <3>1. c <= c
        BY DEF Commit, WorkflowAssumption
      <3>2. QED
        BY <1>1, <2>2, <3>1, WrittenOne
    <2>3. QED
      BY <1>6, <2>1, <2>2
  <1>8. Aimed(run, thread')
    BY <1>5 DEF Aimed
  <1>9. QED
    BY <1>1, <1>2, <1>4, <1>5, <1>7, <1>8, Moves

LEMMA VerdictStep ==
    ASSUME WorkflowAssumption, IInv, NEW c \in Commit, Verdict(c)
    PROVE  IInv'
  <1>1. /\ runs[c] \in Run /\ Honest(runs[c]) /\ runs[c].step = "verdict" /\ Active(c)
        /\ pushed' = pushed /\ due' = due /\ queued' = queued /\ thread' = thread
    BY DEF Verdict, Reached, IInv, Typed, Quiet, Active, Step
  <1> DEFINE run == IF runs[c].rc = "ok" THEN runs[c] ELSE Failing(runs[c], "verdict")
  <1>2. run \in Run /\ (run.failed \subseteq Soft) = (run.rc = "ok")
    <2>1. CASE runs[c].rc = "ok"
      BY <1>1, <2>1 DEF Honest, Step
    <2>2. CASE runs[c].rc # "ok"
      <3>1. runs[c].failed \cup {"verdict"} \in SUBSET Step
        BY <1>1 DEF Run, Step
      <3>2. /\ run \in Run /\ run.rc = runs[c].rc
            /\ run.failed = runs[c].failed \cup {"verdict"}
        BY <1>1, <2>2, <3>1 DEF Failing, Run
      <3>3. "verdict" \notin Soft
        BY DEF Soft
      <3>4. QED
        BY <2>2, <3>2, <3>3
    <2>3. QED
      BY <2>1, <2>2
  <1>3. Becomes(c, Over(run))
    BY DEF Verdict
  <1>4. QED
    BY <1>1, <1>2, <1>3, OverHonest, Quietly

LEMMA DeleteCommentStep ==
    ASSUME IInv, DeleteComment
    PROVE  IInv'
  <1>1. /\ thread' \subseteq thread
        /\ pushed' = pushed /\ due' = due /\ queued' = queued /\ runs' = runs
    BY DEF DeleteComment, Quiet
  <1>2. Typed' /\ Serialized' /\ Ordered'
    BY <1>1 DEF IInv, Typed, Serialized, Ordered, Active
  <1>3. \A c \in Commit : Aimed(runs'[c], thread')
    BY <1>1 DEF IInv, Aimed
  <1>4. QED
    BY <1>1, <1>2, <1>3 DEF IInv

-----------------------------------------------------------------------------
\* The theorems.

\* Every step of the group, of a run, of its two checks and of the people around them
\* keeps the invariant: one run at a time, each honest about what it has done, and at
\* most one comment, which the run that is about to write has found.
THEOREM WorkflowInvariant == Spec => [](IInv /\ Told(actors) /\ Told(readers))
  <1> DEFINE Inv == IInv /\ Told(actors) /\ Told(readers)
  <1>1. Init => Inv
    <2>1. SUFFICES ASSUME Init PROVE Inv
      OBVIOUS
    <2>2. Told(actors) /\ Told(readers)
      BY <2>1 DEF Init, Told, Actors!Init, Actors!Idle, Readers!Init, Readers!Idle
    <2>3. QED
      BY <2>1, <2>2, InitIInv, WorkflowAssumption
  <1>2. Inv /\ [Next]_vars => Inv'
    <2>1. SUFFICES ASSUME Inv, [Next]_vars PROVE Inv'
      OBVIOUS
    <2> USE WorkflowAssumption
    <2>2. CASE Push
      BY <2>1, <2>2, PushStep DEF Push, checks
    <2>3. CASE DeleteComment
      BY <2>1, <2>3, DeleteCommentStep DEF DeleteComment, Quiet, checks
    <2>4. ASSUME NEW c \in Commit, Start(c)
          PROVE  Inv'
      BY <2>1, <2>4, StartStep DEF Start, checks
    <2>5. ASSUME NEW c \in Commit, Interrupt(c)
          PROVE  Inv'
      BY <2>1, <2>5, CutStep DEF Interrupt, Quiet, checks
    <2>6. ASSUME NEW c \in Commit, Terminate(c)
          PROVE  Inv'
      <3>1. Told(actors') /\ Told(readers')
        BY <2>6 DEF Terminate, Reset, Told, Actors!Idle, Readers!Idle
      <3>2. QED
        BY <2>1, <2>6, <3>1, CutStep
    <2>7. ASSUME NEW c \in Commit, Prepare(c)
          PROVE  Inv'
      BY <2>1, <2>7, PrepareStep DEF Prepare, Quiet, checks
    <2>8. ASSUME NEW c \in Commit, RunPlan(c)
          PROVE  Inv'
      BY <2>1, <2>8, RunPlanStep DEF RunPlan, Quiet, checks
    <2>9. ASSUME NEW c \in Commit, Guard(c)
          PROVE  Inv'
      BY <2>1, <2>9, GuardStep DEF Guard, Quiet, checks
    <2>10. ASSUME NEW c \in Commit, CheckoutEngine(c)
           PROVE  Inv'
      BY <2>1, <2>10, CheckoutEngineStep DEF CheckoutEngine, Quiet, checks
    <2>11. ASSUME NEW c \in Commit, CheckActors(c) \/ CheckReaders(c)
           PROVE  Inv'
      BY <2>1, <2>11, CheckActorsStep, CheckReadersStep
    <2>12. ASSUME NEW c \in Commit, BuildReport(c)
           PROVE  Inv'
      BY <2>1, <2>12, BuildReportStep DEF BuildReport, Quiet, checks
    <2>13. ASSUME NEW c \in Commit, Lookup(c)
           PROVE  Inv'
      BY <2>1, <2>13, LookupStep DEF Lookup, Quiet, checks
    <2>14. ASSUME NEW c \in Commit, Write(c)
           PROVE  Inv'
      BY <2>1, <2>14, WriteStep DEF Write, Quiet, checks
    <2>15. ASSUME NEW c \in Commit, Verdict(c)
           PROVE  Inv'
      BY <2>1, <2>15, VerdictStep DEF Verdict, Quiet, checks
    <2>16. CASE UNCHANGED vars
      BY <2>1, <2>16, Beside DEF vars, checks
    <2>17. CASE PushOther
      BY <2>1, <2>17, PushOtherStep DEF PushOther, checks
    <2>18. QED
      BY <2>1, <2>2, <2>3, <2>4, <2>5, <2>6, <2>7, <2>8, <2>9, <2>10, <2>11, <2>12,
         <2>13, <2>14, <2>15, <2>16, <2>17 DEF Next, Advance
  <1>3. QED
    BY <1>1, <1>2, PTL DEF Spec

\* However many commits, failures of auxiliary steps and cancellations there are, a run
\* that was not cut short is green exactly if the plan of its commit exited with 0.
THEOREM VerdictIsThePlansCorrect == Spec => []VerdictIsThePlans
  <1>1. IInv => VerdictIsThePlans
    BY DEF IInv, Honest, VerdictIsThePlans
  <1>2. QED
    BY <1>1, WorkflowInvariant, PTL

\* The marker and the group keep the pull request at one comment of the plan, whatever
\* answers are lost and comments deleted.
THEOREM OneCommentCorrect == Spec => []OneComment
  <1>1. IInv => OneComment
    <2>1. SUFFICES ASSUME IInv PROVE Cardinality(thread) <= 1
      BY DEF OneComment
    <2>2. CASE thread = {}
      BY <2>2, FS_EmptySet
    <2>3. CASE thread # {}
      <3>1. PICK m \in thread : TRUE
        BY <2>3
      <3>2. thread = {m}
        BY <2>1, <3>1 DEF IInv, Ordered
      <3>3. Cardinality({m}) = 1
        BY FS_Singleton, Zenon
      <3>4. QED
        BY <3>2, <3>3
    <2>4. QED
      BY <2>2, <2>3
  <1>2. QED
    BY <1>1, WorkflowInvariant, PTL

\* No step, of whichever run, takes the comment back to an older commit: only the one
\* active run writes, and what is there was written by it or before it.
THEOREM CommentNeverOlderCorrect == Spec => CommentNeverOlder
  <1>1. IInv /\ [Next]_vars => [\A m \in thread, n \in thread' : n.commit >= m.commit]_thread
    <2>1. SUFFICES ASSUME IInv, [Next]_vars, thread' # thread,
                          NEW m \in thread, NEW n \in thread'
                   PROVE  n.commit >= m.commit
      OBVIOUS
    <2>2. m.commit \in Nat /\ (n \in thread => n = m)
      BY <2>1 DEF IInv, Typed, Ordered, Comment, Commit, WorkflowAssumption
    <2>3. CASE DeleteComment
      <3>1. n \in thread
        BY <2>1, <2>3 DEF DeleteComment
      <3>2. QED
        BY <2>2, <3>1
    <2>4. ASSUME NEW c \in Commit, Write(c)
          PROVE  n.commit >= m.commit
      <3>1. runs[c].step = "write" /\ thread' = Written(c, runs[c].target)
        BY <2>1, <2>4 DEF Write, Reached
      <3>2. m.commit <= c
        BY <2>1, <3>1 DEF IInv, Ordered, Active, Step
      <3>3. n.commit = c
        BY <2>1, <3>1, WrittenOne, WorkflowAssumption
      <3>4. QED
        BY <2>2, <3>2, <3>3 DEF Commit, WorkflowAssumption
    <2>5. DeleteComment \/ \E c \in Commit : Write(c)
      BY <2>1 DEF Next, vars, Push, PushOther, Start, Interrupt, Terminate, Quiet, Advance, Prepare,
         RunPlan, Guard, CheckoutEngine, CheckActors, CheckReaders, BuildReport, Lookup,
         Verdict
    <2>6. QED
      BY <2>3, <2>4, <2>5
  <1>2. QED
    BY <1>1, WorkflowInvariant, PTL DEF Spec, CommentNeverOlder

-----------------------------------------------------------------------------
\* What is missing from a comment.

\* Once a check is behind it, a run without the check's fragment has lost a shell.
Accounts(run) ==
    /\ run.step \in {"readers", "report", "lookup", "write"} /\ run.actors = "absent" =>
          {"guard", "actors"} \cap run.failed # {}
    /\ run.step \in {"report", "lookup", "write"} /\ run.readers = "absent" =>
          {"guard", "readers"} \cap run.failed # {}

Accounted == CommentTellsUnchecked /\ \A c \in Commit : Accounts(runs[c])

\* A run that moves keeps what failed, and the comments are those there were.
LEMMA Keeps ==
    ASSUME Typed, Accounted, NEW c \in Commit, NEW run, Becomes(c, run),
           runs[c].failed \subseteq run.failed, Accounts(run), thread' \subseteq thread
    PROVE  Accounted'
  <1>1. runs'[c] = run /\ \A d \in Commit : d # c => runs'[d] = runs[d]
    BY DEF Typed, Becomes
  <1>2. \A d \in Commit : runs[d].failed \subseteq runs'[d].failed /\ Accounts(runs'[d])
    BY <1>1 DEF Accounted
  <1>3. \A m \in thread' : m \in thread /\ m.commit \in Commit
    BY DEF Typed, Comment
  <1>4. CommentTellsUnchecked'
    BY <1>2, <1>3 DEF Accounted, CommentTellsUnchecked
  <1>5. QED
    BY <1>2, <1>4 DEF Accounted

\* Such a run where the check under way is not the one that ends.
LEMMA ToAccounts ==
    ASSUME NEW run \in Run, Accounts(run), NEW step,
           step \in {"readers", "report", "lookup", "write"} =>
              run.step \in {"readers", "report", "lookup", "write"},
           step \in {"report", "lookup", "write"} => run.step \in {"report", "lookup", "write"}
    PROVE  Accounts(To(run, step)) /\ To(run, step).failed = run.failed
  <1>1. /\ To(run, step).step = step /\ To(run, step).failed = run.failed
        /\ To(run, step).actors = run.actors /\ To(run, step).readers = run.readers
    BY DEF To, Run
  <1>2. QED
    BY <1>1 DEF Accounts

LEMMA OverAccounts ==
    ASSUME NEW run \in Run
    PROVE  Accounts(Over(run)) /\ Over(run).failed = run.failed
  <1>1. Over(run).step = "over" /\ Over(run).failed = run.failed
    BY DEF Over, Run
  <1>2. QED
    BY <1>1 DEF Accounts

LEMMA CutAccounts ==
    ASSUME NEW run \in Run, Accounts(run)
    PROVE  Accounts(Cut(run)) /\ Cut(run).failed = run.failed
  <1> DEFINE marked == [run EXCEPT !.cut = TRUE]
  <1>1. /\ marked \in Run /\ marked.step = run.step /\ marked.failed = run.failed
        /\ marked.actors = run.actors /\ marked.readers = run.readers
    BY DEF Run
  <1>2. Accounts(marked)
    BY <1>1 DEF Accounts
  <1> HIDE DEF marked
  <1>3. CASE run.step = "prepare"
    <2>1. Cut(run) = Over(marked)
      BY <1>3 DEF Cut, marked
    <2>2. QED
      BY <1>1, <2>1, OverAccounts
  <1>4. CASE run.step = "plan"
    <2>1. PICK next \in {"guard", "actors"} : Cut(run) = To(marked, next)
      BY <1>4 DEF Cut, marked
    <2>2. QED
      BY <1>1, <1>2, <2>1, ToAccounts
  <1>5. CASE run.step \notin {"prepare", "plan"}
    <2>1. Cut(run) = marked
      BY <1>5 DEF Cut, marked
    <2>2. QED
      BY <1>1, <1>2, <2>1
  <1>6. QED
    BY <1>3, <1>4, <1>5

LEMMA FailingAccounts ==
    ASSUME NEW run \in Run, NEW step
    PROVE  /\ Failing(run, step).step = run.step
           /\ Failing(run, step).actors = run.actors /\ Failing(run, step).readers = run.readers
           /\ Failing(run, step).failed = run.failed \cup {step}
           /\ Accounts(run) => Accounts(Failing(run, step))
  <1>1. /\ Failing(run, step).step = run.step
        /\ Failing(run, step).actors = run.actors /\ Failing(run, step).readers = run.readers
        /\ Failing(run, step).failed = run.failed \cup {step}
    BY DEF Failing, Run
  <1>2. QED
    BY <1>1 DEF Accounts

\* A step that fails, seen from where its run goes on.
LEMMA FailingTo ==
    ASSUME NEW run \in Run, NEW next, NEW step
    PROVE  LET on == Failing(To(run, next), step)
           IN  /\ on.step = next /\ on.failed = run.failed \cup {step}
               /\ on.actors = run.actors /\ on.readers = run.readers
  <1>1. /\ To(run, next).step = next /\ To(run, next).failed = run.failed
        /\ To(run, next).actors = run.actors /\ To(run, next).readers = run.readers
        /\ {"step", "failed", "actors", "readers"} \subseteq DOMAIN To(run, next)
    BY DEF To, Run
  <1>2. QED
    BY <1>1 DEF Failing

\* The steps of the group, and the job's that are no check's.
LEMMA GroupAccounts ==
    ASSUME Typed, Accounted,
           \/ Push
           \/ \E c \in Commit : Start(c) \/ Interrupt(c) \/ Terminate(c)
    PROVE  Accounted'
  <1>1. CASE Push
    <2>1. ASSUME NEW c \in Commit
          PROVE  runs[c].failed \subseteq runs'[c].failed /\ Accounts(runs'[c])
      <3>1. runs[c] \in Run /\ Accounts(runs[c])
        BY DEF Typed, Accounted
      <3>2. CASE c = queued
        <4>1. runs'[c] = Over([runs[c] EXCEPT !.cut = TRUE])
          BY <1>1, <3>2 DEF Push
        <4>2. [runs[c] EXCEPT !.cut = TRUE] \in Run /\ [runs[c] EXCEPT !.cut = TRUE].failed = runs[c].failed
          BY <3>1 DEF Run
        <4>3. QED
          BY <4>1, <4>2, OverAccounts
      <3>3. CASE c # queued
        <4>1. runs'[c] = Cut(runs[c]) \/ runs'[c] = runs[c]
          BY <1>1, <3>3 DEF Push
        <4>2. QED
          BY <3>1, <4>1, CutAccounts
      <3>4. QED
        BY <3>2, <3>3
    <2>2. thread' = thread /\ \A m \in thread : m.commit \in Commit
      BY <1>1 DEF Push, Typed, Comment
    <2>3. CommentTellsUnchecked'
      BY <2>1, <2>2 DEF Accounted, CommentTellsUnchecked
    <2>4. QED
      BY <2>1, <2>3 DEF Accounted
  <1>2. ASSUME NEW c \in Commit, Start(c) \/ Interrupt(c) \/ Terminate(c)
        PROVE  Accounted'
    <2>1. runs[c] \in Run /\ Accounts(runs[c]) /\ thread' = thread
      BY <1>2 DEF Typed, Accounted, Start, Interrupt, Terminate
    <2>2. PICK run \in {To(runs[c], "prepare"), Cut(runs[c]), Over(runs[c])} : Becomes(c, run)
      BY <1>2 DEF Start, Interrupt, Terminate
    <2>3. Accounts(run) /\ run.failed = runs[c].failed
      BY <2>1, <2>2, ToAccounts, CutAccounts, OverAccounts
    <2>4. QED
      BY <2>1, <2>2, <2>3, Keeps
  <1>3. QED
    BY <1>1, <1>2

LEMMA JobAccounts ==
    ASSUME Typed, Accounted, NEW c \in Commit,
           \/ Prepare(c) \/ RunPlan(c) \/ Guard(c) \/ CheckoutEngine(c)
           \/ BuildReport(c) \/ Lookup(c) \/ Verdict(c)
    PROVE  Accounted'
  <1>1. runs[c] \in Run /\ Accounts(runs[c]) /\ thread' = thread
    BY DEF Typed, Accounted, Prepare, RunPlan, Guard, CheckoutEngine, BuildReport, Lookup,
       Verdict
  <1>2. ASSUME NEW run, Becomes(c, run), runs[c].failed \subseteq run.failed, Accounts(run)
        PROVE  Accounted'
    BY <1>1, <1>2, Keeps
  <1>3. CASE Prepare(c)
    <2>1. CASE Becomes(c, [To(runs[c], "plan") EXCEPT !.tree = ~ downstream])
      <3> DEFINE run == [To(runs[c], "plan") EXCEPT !.tree = ~ downstream]
      <3>1. run.step = "plan" /\ run.failed = runs[c].failed
        BY <1>1 DEF To, Run
      <3>2. Accounts(run)
        BY <3>1 DEF Accounts
      <3>3. QED
        BY <1>2, <2>1, <3>1, <3>2
    <2>2. CASE Becomes(c, Over(Failing(runs[c], "prepare")))
      <3> DEFINE run == Over(Failing(runs[c], "prepare"))
      <3>1. run.step = "over" /\ run.failed = runs[c].failed \cup {"prepare"}
        BY <1>1 DEF Over, Failing, Run
      <3>2. Accounts(run)
        BY <3>1 DEF Accounts
      <3>3. QED
        BY <1>2, <2>2, <3>1, <3>2
    <2>3. QED
      BY <1>3, <2>1, <2>2 DEF Prepare
  <1>4. CASE RunPlan(c)
    <2>1. PICK next \in {"guard", "actors"} :
          \/ \E rc \in {"ok", "error"} : Becomes(c, [To(runs[c], next) EXCEPT !.rc = rc])
          \/ Becomes(c, Failing(To(runs[c], next), "plan"))
      BY <1>4 DEF RunPlan
    <2>2. PICK run : /\ Becomes(c, run)
                     /\ \/ \E rc \in {"ok", "error"} : run = [To(runs[c], next) EXCEPT !.rc = rc]
                        \/ run = Failing(To(runs[c], next), "plan")
      BY <2>1
    <2>3. run.step = next /\ runs[c].failed \subseteq run.failed
      <3>1. CASE \E rc \in {"ok", "error"} : run = [To(runs[c], next) EXCEPT !.rc = rc]
        BY <1>1, <3>1 DEF To, Run
      <3>2. CASE run = Failing(To(runs[c], next), "plan")
        BY <1>1, <3>2, FailingTo
      <3>3. QED
        BY <2>2, <3>1, <3>2
    <2>4. Accounts(run)
      BY <2>3 DEF Accounts
    <2>5. QED
      BY <1>2, <2>2, <2>3, <2>4
  <1>5. CASE Guard(c)
    <2>1. CASE Becomes(c, To(runs[c], "engine"))
      BY <1>1, <1>2, <2>1, ToAccounts
    <2>2. CASE Becomes(c, [To(runs[c], "report") EXCEPT !.actors = "degraded",
                                                        !.readers = "degraded"])
      <3> DEFINE run == [To(runs[c], "report") EXCEPT !.actors = "degraded",
                                                      !.readers = "degraded"]
      <3>1. run.actors = "degraded" /\ run.readers = "degraded" /\ run.failed = runs[c].failed
        BY <1>1 DEF To, Run
      <3>2. Accounts(run)
        BY <3>1 DEF Accounts
      <3>3. QED
        BY <1>2, <2>2, <3>1, <3>2
    <2>3. CASE Becomes(c, Failing(To(runs[c], "report"), "guard"))
      <3> DEFINE run == Failing(To(runs[c], "report"), "guard")
      <3>1. run.failed = runs[c].failed \cup {"guard"}
        BY <1>1 DEF To, Failing, Run
      <3>2. Accounts(run)
        BY <3>1 DEF Accounts
      <3>3. QED
        BY <1>2, <2>3, <3>1, <3>2
    <2>4. QED
      BY <1>5, <2>1, <2>2, <2>3 DEF Guard
  <1>6. CASE CheckoutEngine(c)
    <2>1. PICK run : /\ Becomes(c, run)
                     /\ \/ run = [To(runs[c], "actors") EXCEPT !.tree = TRUE]
                        \/ run = Failing(To(runs[c], "actors"), "engine")
      BY <1>6 DEF CheckoutEngine
    <2>2. run.step = "actors" /\ runs[c].failed \subseteq run.failed
      <3>1. CASE run = [To(runs[c], "actors") EXCEPT !.tree = TRUE]
        BY <1>1, <3>1 DEF To, Run
      <3>2. CASE run = Failing(To(runs[c], "actors"), "engine")
        BY <1>1, <3>2, FailingTo
      <3>3. QED
        BY <2>1, <3>1, <3>2
    <2>3. Accounts(run)
      BY <2>2 DEF Accounts
    <2>4. QED
      BY <1>2, <2>1, <2>2, <2>3
  <1>7. CASE BuildReport(c)
    <2>1. runs[c].step = "report"
      BY <1>7 DEF BuildReport, Reached
    <2>2. PICK run \in {To(runs[c], "lookup"), Failing(To(runs[c], "verdict"), "report")} :
             Becomes(c, run)
      BY <1>7 DEF BuildReport
    <2>3. \A step \in {"lookup", "verdict"} :
             Accounts(To(runs[c], step)) /\ To(runs[c], step).failed = runs[c].failed
      BY <1>1, <2>1, ToAccounts
    <2>4. To(runs[c], "verdict") \in Run
      BY <1>1 DEF To, Run, Step
    <2>5. Accounts(run) /\ runs[c].failed \subseteq run.failed
      BY <2>2, <2>3, <2>4, FailingAccounts
    <2>6. QED
      BY <1>2, <2>2, <2>5
  <1>8. CASE Lookup(c)
    <2>1. runs[c].step = "lookup"
      BY <1>8 DEF Lookup, Reached
    <2>2. PICK run : /\ Becomes(c, run)
                     /\ \/ \E id : run = [To(runs[c], "write") EXCEPT !.target = id]
                        \/ run = Failing(To(runs[c], "verdict"), "lookup")
      BY <1>8 DEF Lookup
    <2>3. CASE \E id : run = [To(runs[c], "write") EXCEPT !.target = id]
      <3>1. /\ run.step = "write" /\ run.failed = runs[c].failed
            /\ run.actors = runs[c].actors /\ run.readers = runs[c].readers
        BY <1>1, <2>3 DEF To, Run
      <3>2. Accounts(run)
        BY <1>1, <2>1, <3>1 DEF Accounts
      <3>3. QED
        BY <1>2, <2>2, <3>1, <3>2
    <2>4. CASE run = Failing(To(runs[c], "verdict"), "lookup")
      <3>1. run.step = "verdict" /\ runs[c].failed \subseteq run.failed
        BY <1>1, <2>4 DEF To, Failing, Run
      <3>2. Accounts(run)
        BY <3>1 DEF Accounts
      <3>3. QED
        BY <1>2, <2>2, <3>1, <3>2
    <2>5. QED
      BY <2>2, <2>3, <2>4
  <1>9. CASE Verdict(c)
    <2>1. PICK run : /\ Becomes(c, run)
                     /\ run = Over(runs[c]) \/ run = Over(Failing(runs[c], "verdict"))
      BY <1>9 DEF Verdict
    <2>2. run.step = "over" /\ runs[c].failed \subseteq run.failed
      <3>1. CASE run = Over(runs[c])
        BY <1>1, <3>1 DEF Over, Run
      <3>2. CASE run = Over(Failing(runs[c], "verdict"))
        BY <1>1, <3>2 DEF Over, Failing, Run
      <3>3. QED
        BY <2>1, <3>1, <3>2
    <2>3. Accounts(run)
      BY <2>2 DEF Accounts
    <2>4. QED
      BY <1>2, <2>1, <2>2, <2>3
  <1>10. QED
    BY <1>3, <1>4, <1>5, <1>6, <1>7, <1>8, <1>9

\* A check that ends leaves its fragment, or the trace of a lost shell.
LEMMA ChecksAccount ==
    ASSUME Typed, Accounted, Told(actors), Told(readers), NEW c \in Commit,
           CheckActors(c) \/ CheckReaders(c)
    PROVE  Accounted'
  <1>1. runs[c] \in Run /\ Accounts(runs[c]) /\ thread' = thread
    BY DEF Typed, Accounted, CheckActors, CheckReaders
  <1>2. ASSUME NEW run, Becomes(c, run), runs[c].failed \subseteq run.failed, Accounts(run)
        PROVE  Accounted'
    BY <1>1, <1>2, Keeps
  <1>3. CASE UNCHANGED runs
    BY <1>1, <1>3 DEF Accounted, CommentTellsUnchecked
  <1>4. CASE CheckActors(c) /\ ~ UNCHANGED runs
    <2>1. PICK run :
            /\ Becomes(c, run)
            /\ \/ /\ runs[c].tree => actors.stage = "over"
                  /\ run = [To(runs[c], "readers") EXCEPT
                              !.actors = IF runs[c].tree THEN actors.kind ELSE "degraded"]
               \/ run = Failing(To(runs[c], "readers"), "actors")
      BY <1>4 DEF CheckActors
    <2>2. /\ run.step = "readers" /\ runs[c].failed \subseteq run.failed
          /\ run.actors # "absent" \/ "actors" \in run.failed
      <3>1. CASE /\ runs[c].tree => actors.stage = "over"
                 /\ run = [To(runs[c], "readers") EXCEPT
                             !.actors = IF runs[c].tree THEN actors.kind ELSE "degraded"]
        <4> DEFINE kind == IF runs[c].tree THEN actors.kind ELSE "degraded"
        <4>1. kind # "absent"
          BY <3>1 DEF Told
        <4>2. run = [To(runs[c], "readers") EXCEPT !.actors = kind]
          BY <3>1
        <4> HIDE DEF kind
        <4>3. QED
          BY <1>1, <4>1, <4>2 DEF To, Run
      <3>2. CASE run = Failing(To(runs[c], "readers"), "actors")
        BY <1>1, <3>2, FailingTo
      <3>3. QED
        BY <2>1, <3>1, <3>2
    <2>3. Accounts(run)
      BY <2>2 DEF Accounts
    <2>4. QED
      BY <1>2, <2>1, <2>2, <2>3
  <1>5. CASE CheckReaders(c) /\ ~ UNCHANGED runs
    <2>1. PICK run :
            /\ Becomes(c, run)
            /\ \/ /\ runs[c].tree => readers.stage = "over"
                  /\ run = [To(runs[c], "report") EXCEPT
                              !.readers = IF runs[c].tree THEN readers.kind ELSE "degraded"]
               \/ run = Failing(To(runs[c], "report"), "readers")
      BY <1>5 DEF CheckReaders
    <2>2. runs[c].step = "readers"
      BY <1>5 DEF CheckReaders, Reached
    <2>3. /\ run.step = "report" /\ runs[c].failed \subseteq run.failed
          /\ run.actors = runs[c].actors
          /\ run.readers # "absent" \/ "readers" \in run.failed
      <3>1. CASE /\ runs[c].tree => readers.stage = "over"
                 /\ run = [To(runs[c], "report") EXCEPT
                             !.readers = IF runs[c].tree THEN readers.kind ELSE "degraded"]
        <4> DEFINE kind == IF runs[c].tree THEN readers.kind ELSE "degraded"
        <4>1. kind # "absent"
          BY <3>1 DEF Told
        <4>2. run = [To(runs[c], "report") EXCEPT !.readers = kind]
          BY <3>1
        <4> HIDE DEF kind
        <4>3. QED
          BY <1>1, <4>1, <4>2 DEF To, Run
      <3>2. CASE run = Failing(To(runs[c], "report"), "readers")
        BY <1>1, <3>2, FailingTo
      <3>3. QED
        BY <2>1, <3>1, <3>2
    <2>4. Accounts(run)
      BY <1>1, <2>2, <2>3 DEF Accounts
    <2>5. QED
      BY <1>2, <2>1, <2>3, <2>4
  <1>6. QED
    BY <1>3, <1>4, <1>5

\* The comment is the run's own, and the run goes on to the verdict with what failed.
LEMMA WriteAccounts ==
    ASSUME WorkflowAssumption, IInv, Accounted, NEW c \in Commit, Write(c)
    PROVE  Accounted'
  <1>1. /\ runs[c] \in Run /\ Accounts(runs[c]) /\ runs[c].step = "write"
        /\ runs \in [Commit -> Run] /\ thread \subseteq Comment
    BY DEF IInv, Typed, Accounted, Write, Reached
  <1>2. PICK run \in {To(runs[c], "verdict"), Failing(To(runs[c], "verdict"), "write")} :
           Becomes(c, run)
    BY DEF Write
  <1>3. run.step = "verdict" /\ runs[c].failed \subseteq run.failed
    BY <1>1, <1>2 DEF To, Failing, Run
  <1>4. Accounts(run)
    BY <1>3 DEF Accounts
  <1>5. runs'[c] = run /\ \A d \in Commit : d # c => runs'[d] = runs[d]
    BY <1>1, <1>2 DEF Becomes
  <1>6. CASE thread' = thread
    BY <1>2, <1>3, <1>4, <1>6, Keeps DEF IInv
  <1>7. CASE thread' = Written(c, runs[c].target)
    <2>1. PICK id : thread' = {Body(c, id)}
      BY <1>1, <1>7, WrittenOne
    <2>2. \A m \in thread' : /\ m.commit = c /\ m.actors = runs[c].actors
                             /\ m.readers = runs[c].readers
      BY <2>1 DEF Body
    <2>3. CommentTellsUnchecked'
      BY <1>1, <1>3, <1>5, <2>2 DEF CommentTellsUnchecked, Accounts
    <2>4. QED
      BY <1>4, <1>5, <2>3 DEF Accounted
  <1>8. QED
    BY <1>6, <1>7 DEF Write

\* However the job goes, a comment without the fragment of a check is of a run that
\* lost the shell of a step: whatever else keeps a check from being made is told.
THEOREM CommentTellsUncheckedCorrect == Spec => []CommentTellsUnchecked
  <1> DEFINE Inv == IInv /\ Told(actors) /\ Told(readers)
  <1>1. Init => Accounted
    <2>1. ASSUME Init, NEW c \in Commit PROVE Accounts(runs[c])
      <3>1. runs[c].step = "none"
        BY <2>1 DEF Init, NewRun
      <3>2. QED
        BY <3>1 DEF Accounts
    <2>2. QED
      BY <2>1 DEF Init, Accounted, CommentTellsUnchecked
  <1>2. Inv /\ Accounted /\ [Next]_vars => Accounted'
    <2>1. SUFFICES ASSUME Inv, Accounted, [Next]_vars PROVE Accounted'
      OBVIOUS
    <2>2. IInv /\ Typed /\ Told(actors) /\ Told(readers)
      BY <2>1 DEF IInv
    <2>3. CASE DeleteComment
      <3>1. thread' \subseteq thread /\ runs' = runs
        BY <2>3 DEF DeleteComment
      <3>2. QED
        BY <2>1, <3>1 DEF Accounted, CommentTellsUnchecked
    <2>4. CASE PushOther \/ UNCHANGED vars
      BY <2>1, <2>4 DEF PushOther, vars, Accounted, CommentTellsUnchecked
    <2>5. CASE Push \/ \E c \in Commit : Start(c) \/ Interrupt(c) \/ Terminate(c)
      BY <2>1, <2>2, <2>5, GroupAccounts
    <2>6. ASSUME NEW c \in Commit, Advance(c)
          PROVE  Accounted'
      BY <2>1, <2>2, <2>6, JobAccounts, ChecksAccount, WriteAccounts, WorkflowAssumption
         DEF Advance
    <2>7. QED
      BY <2>1, <2>3, <2>4, <2>5, <2>6 DEF Next
  <1>3. Accounted => CommentTellsUnchecked
    BY DEF Accounted
  <1>4. QED
    BY <1>1, <1>2, <1>3, WorkflowInvariant, PTL DEF Spec

-----------------------------------------------------------------------------
\* The check of the reader lists: its inductive invariant.

ReadersTyped ==
    /\ secrets \in [{"now", "ever", "always"} -> SUBSET Readers!Fact]
    /\ secrets.always \subseteq secrets.now /\ secrets.now \subseteq secrets.ever
    /\ readers \in [stage : {"idle", "reading", "over"},
                    listing : [state : {"unread", "read"}, names : SUBSET Readers!Name, selected : SUBSET Readers!Name],
                    read : [Readers!Name -> [state : {"unread", "compared", "undetermined"},
                                     granted : SUBSET Repo]],
                    kind : {"none", "degraded", "report"}, rows : {readers.rows}]
    /\ readers.stage = "reading" => readers.kind = "none"

\* A reader list, and the listing of the secrets, say what was the case when they came.
ReadersHeard ==
    \A s \in Readers!Name : readers.read[s].state = "compared" =>
        \A r \in Repo :
            /\ r \in readers.read[s].granted => <<"reads", s, r>> \in secrets.ever
            /\ r \notin readers.read[s].granted => <<"reads", s, r>> \notin secrets.always

ReadersListed ==
    readers.listing.state = "read" =>
        \A s \in Readers!Name :
            /\ s \in readers.listing.selected => <<"selected", s>> \in secrets.ever
            /\ s \notin readers.listing.selected => <<"selected", s>> \notin secrets.always

\* What is printed is what was read, all of it, or that nothing could be.
ReadersPrinted ==
    /\ readers.kind # "report" => readers.rows = {}
    /\ readers.kind = "report" =>
          \/ readers.rows = {<<"unreadable", "*", "*">>}
          \/ readers.rows = Readers!Rows /\ readers.listing.state = "read" /\ Readers!Pending = {}

ReadersInv == ReadersTyped /\ ReadersHeard /\ ReadersListed /\ ReadersPrinted

-----------------------------------------------------------------------------
\* The tables of the reader lists, row by row.

LEMMA GrantedRows ==
    ASSUME NEW s \in Readers!Name, NEW r
    PROVE  <<"granted", s, r>> \in Readers!Rows <=>
              readers.read[s].state = "compared" /\ r \in Secrets[s].readers \ readers.read[s].granted
  BY DEF Readers!Rows, Readers!Compared

LEMMA ExtraRows ==
    ASSUME NEW s \in Readers!Name, NEW r
    PROVE  <<"extra", s, r>> \in Readers!Rows <=>
              readers.read[s].state = "compared" /\ r \in readers.read[s].granted \ Secrets[s].readers
  BY DEF Readers!Rows, Readers!Compared

LEMMA UndeterminedRows ==
    ASSUME NEW s \in Readers!Name, readers.read[s].state = "undetermined"
    PROVE  <<"undetermined", s, "*">> \in Readers!Rows /\ <<"clean", "*", "*">> \notin Readers!Rows
  BY DEF Readers!Rows

LEMMA NotComparedRows ==
    ASSUME NEW s \in Readers!DeclaredSelected, s \notin readers.listing.selected
    PROVE  <<"not compared", s, "*">> \in Readers!Rows
  BY DEF Readers!Rows

\* They are a function of what was read.
LEMMA RowsStay ==
    ASSUME readers'.read = readers.read, readers'.listing = readers.listing
    PROVE  Readers!Rows' = Readers!Rows /\ Readers!Pending' = Readers!Pending
  <1>1. Readers!Compared' = Readers!Compared
    BY DEF Readers!Compared
  <1>2. Readers!Rows' = Readers!Rows
    <2> DEFINE granted == UNION {{<<"granted", s, r>> : r \in Secrets[s].readers \ readers.read[s].granted} :
                                  s \in Readers!Compared}
               extra == UNION {{<<"extra", s, r>> : r \in readers.read[s].granted \ Secrets[s].readers} :
                                s \in Readers!Compared}
               undetermined == {<<"undetermined", s, "*">> :
                                   s \in {t \in Readers!Name : readers.read[t].state = "undetermined"}}
               without == {<<"not compared", s, "*">> : s \in Readers!DeclaredSelected \ readers.listing.selected}
    <2>1. granted' = granted
      BY <1>1
    <2>2. extra' = extra
      BY <1>1
    <2>3. undetermined' = undetermined /\ without' = without
      OBVIOUS
    <2>4. /\ Readers!Rows = granted \cup extra \cup undetermined \cup without
                    \cup IF granted \cup extra \cup undetermined = {} THEN {<<"clean", "*", "*">>} ELSE {}
          /\ Readers!Rows' = granted' \cup extra' \cup undetermined' \cup without'
                     \cup IF granted' \cup extra' \cup undetermined' = {} THEN {<<"clean", "*", "*">>} ELSE {}
      BY DEF Readers!Rows
    <2> HIDE DEF granted, extra, undetermined, without
    <2>5. QED
      BY <2>1, <2>2, <2>3, <2>4, Zenon
  <1>3. Readers!Pending' = Readers!Pending
    BY DEF Readers!Pending, Readers!Comparable
  <1>4. QED
    BY <1>2, <1>3

LEMMA RowsTyped ==
    ASSUME Readers!ReadersAssumption, ReadersTyped
    PROVE  Readers!Rows \subseteq {"granted", "extra", "undetermined", "not compared", "clean"}
                          \X (Readers!Name \cup {"*"}) \X (Repo \cup {"*"})
  <1> DEFINE granted == UNION {{<<"granted", s, r>> : r \in Secrets[s].readers \ readers.read[s].granted} :
                                s \in Readers!Compared}
             extra == UNION {{<<"extra", s, r>> : r \in readers.read[s].granted \ Secrets[s].readers} :
                              s \in Readers!Compared}
             undetermined == {<<"undetermined", s, "*">> :
                                 s \in {t \in Readers!Name : readers.read[t].state = "undetermined"}}
             without == {<<"not compared", s, "*">> : s \in Readers!DeclaredSelected \ readers.listing.selected}
             Table == {"granted", "extra", "undetermined", "not compared", "clean"}
                      \X (Readers!Name \cup {"*"}) \X (Repo \cup {"*"})
  <1>1. Readers!Compared \subseteq Readers!Name /\ Readers!DeclaredSelected \subseteq Readers!Name
    BY DEF Readers!Compared, Readers!DeclaredSelected
  <1>2. \A s \in Readers!Name : Secrets[s].readers \subseteq Repo /\ readers.read[s].granted \subseteq Repo
    BY DEF Readers!ReadersAssumption, ReadersTyped
  <1>3. ASSUME NEW row \in granted
        PROVE  row \in Table
    <2>1. PICK s \in Readers!Compared : \E r \in Secrets[s].readers : row = <<"granted", s, r>>
      OBVIOUS
    <2>2. PICK r \in Secrets[s].readers : row = <<"granted", s, r>>
      BY <2>1
    <2>3. s \in Readers!Name /\ r \in Repo
      BY <1>1, <1>2, <2>2
    <2>4. QED
      BY <2>2, <2>3
  <1>4. ASSUME NEW row \in extra
        PROVE  row \in Table
    <2>1. PICK s \in Readers!Compared : \E r \in readers.read[s].granted : row = <<"extra", s, r>>
      OBVIOUS
    <2>2. PICK r \in readers.read[s].granted : row = <<"extra", s, r>>
      BY <2>1
    <2>3. s \in Readers!Name /\ r \in Repo
      BY <1>1, <1>2, <2>2
    <2>4. QED
      BY <2>2, <2>3
  <1>5. ASSUME NEW row \in undetermined \cup without \cup {<<"clean", "*", "*">>}
        PROVE  row \in Table
    <2>1. PICK kind \in {"undetermined", "not compared", "clean"}, s \in Readers!Name \cup {"*"} :
             row = <<kind, s, "*">>
      BY <1>1
    <2>2. QED
      BY <2>1
  <1>6. Readers!Rows \subseteq granted \cup extra \cup undetermined \cup without \cup {<<"clean", "*", "*">>}
    BY DEF Readers!Rows
  <1> HIDE DEF granted, extra, undetermined, without
  <1>7. QED
    BY <1>3, <1>4, <1>5, <1>6

-----------------------------------------------------------------------------
\* The steps of the check.

LEMMA ReadersInit ==
    ASSUME Readers!Init
    PROVE  ReadersInv
  <1>1. readers = Readers!Idle /\ secrets.always = secrets.now /\ secrets.now = secrets.ever
    BY DEF Readers!Init
  <1>2. secrets \in [{"now", "ever", "always"} -> SUBSET Readers!Fact]
    <2>1. PICK f \in SUBSET Readers!Fact : secrets = [now |-> f, ever |-> f, always |-> f]
      BY DEF Readers!Init
    <2>2. QED
      BY <2>1
  <1>3. ReadersTyped
    BY <1>1, <1>2 DEF ReadersTyped, Readers!Idle, Readers!NoList
  <1>4. ReadersHeard /\ ReadersListed /\ ReadersPrinted
    BY <1>1 DEF ReadersHeard, ReadersListed, ReadersPrinted, Readers!Idle, Readers!NoList
  <1>5. QED
    BY <1>3, <1>4 DEF ReadersInv

\* Whatever breaks the check off, nothing is known and nothing printed.
LEMMA ReadersDegradeStep ==
    ASSUME ReadersInv, Readers!Degrade, UNCHANGED secrets
    PROVE  ReadersInv'
  <1>1. readers' = [stage |-> "over", listing |-> Readers!NoList,
                    read |-> [s \in Readers!Name |-> [state |-> "unread", granted |-> {}]],
                    kind |-> "degraded", rows |-> {}]
    BY DEF Readers!Degrade, Readers!Idle
  <1>2. ReadersTyped'
    BY <1>1 DEF ReadersInv, ReadersTyped, Readers!NoList
  <1>3. ReadersHeard' /\ ReadersListed' /\ ReadersPrinted'
    BY <1>1 DEF ReadersHeard, ReadersListed, ReadersPrinted, Readers!NoList
  <1>4. QED
    BY <1>2, <1>3 DEF ReadersInv

LEMMA ReadersBeginStep ==
    ASSUME ReadersInv, Readers!Begin
    PROVE  ReadersInv'
  <1>1. secrets' = [now |-> secrets.now, ever |-> secrets.now, always |-> secrets.now]
    BY DEF Readers!Begin, ReadersInv, ReadersTyped
  <1>2. PICK stage \in {"reading", "over"}, kind \in {"none", "degraded"} :
           /\ stage = "reading" => kind = "none"
           /\ readers' = [stage |-> stage, listing |-> Readers!NoList,
                          read |-> [s \in Readers!Name |-> [state |-> "unread", granted |-> {}]],
                          kind |-> kind, rows |-> {}]
    BY DEF Readers!Begin, Readers!Degrade, Readers!Idle
  <1>3. ReadersTyped'
    BY <1>1, <1>2 DEF ReadersInv, ReadersTyped, Readers!NoList
  <1>4. ReadersHeard' /\ ReadersListed' /\ ReadersPrinted'
    BY <1>2 DEF ReadersHeard, ReadersListed, ReadersPrinted, Readers!NoList
  <1>5. QED
    BY <1>3, <1>4 DEF ReadersInv

\* The report is over: with what was read, or with no more than that it could not be.
LEMMA ReadersPublishStep ==
    ASSUME ReadersInv, UNCHANGED secrets, NEW rows, Readers!Publish(rows),
           \/ rows = {<<"unreadable", "*", "*">>}
           \/ rows = Readers!Rows /\ readers.listing.state = "read" /\ Readers!Pending = {}
    PROVE  ReadersInv'
  <1>1. /\ ReadersTyped /\ ReadersHeard /\ ReadersListed
        /\ readers' = [readers EXCEPT !.stage = "over", !.kind = "report", !.rows = rows]
    BY DEF ReadersInv, Readers!Publish
  <1>2. /\ readers'.stage = "over" /\ readers'.listing = readers.listing
        /\ readers'.read = readers.read /\ readers'.kind = "report" /\ readers'.rows = rows
    BY <1>1 DEF ReadersTyped
  <1>3. ReadersTyped'
    BY <1>1, <1>2 DEF ReadersTyped
  <1>4. ReadersHeard' /\ ReadersListed'
    BY <1>1, <1>2 DEF ReadersHeard, ReadersListed
  <1>5. Readers!Rows' = Readers!Rows /\ Readers!Pending' = Readers!Pending
    BY <1>2, RowsStay
  <1>6. ReadersPrinted'
    BY <1>2, <1>5 DEF ReadersPrinted
  <1>7. QED
    BY <1>3, <1>4, <1>6 DEF ReadersInv

LEMMA ReadersListSecretsStep ==
    ASSUME ReadersInv, Readers!ListSecrets
    PROVE  ReadersInv'
  <1> DEFINE live == {s \in Readers!Name : <<"live", s>> \in secrets.now}
             selected == {s \in Readers!Name : <<"selected", s>> \in secrets.now}
             listing == [state |-> "read", names |-> live, selected |-> selected]
  <1>1. CASE readers' = [readers EXCEPT !.listing = listing]
    <2>1. /\ ReadersTyped /\ ReadersHeard /\ ReadersPrinted /\ secrets' = secrets
          /\ readers.stage = "reading"
      BY DEF ReadersInv, Readers!ListSecrets
    <2>2. /\ readers'.stage = readers.stage /\ readers'.listing = listing
          /\ readers'.read = readers.read /\ readers'.kind = readers.kind
          /\ readers'.rows = readers.rows
      <3> HIDE DEF listing
      <3>1. QED
        BY <1>1, <2>1 DEF ReadersTyped
    <2>3. ReadersTyped'
      <3>1. listing \in [state : {"unread", "read"}, names : SUBSET Readers!Name, selected : SUBSET Readers!Name]
        OBVIOUS
      <3> HIDE DEF listing
      <3>2. QED
        BY <1>1, <2>1, <2>2, <3>1 DEF ReadersTyped
    <2>4. ReadersHeard'
      BY <2>1, <2>2 DEF ReadersHeard
    <2>5. ReadersListed'
      BY <2>1, <2>2 DEF ReadersListed, ReadersTyped
    <2>6. ReadersPrinted'
      BY <2>1, <2>2 DEF ReadersPrinted, ReadersTyped
    <2>7. QED
      BY <2>3, <2>4, <2>5, <2>6 DEF ReadersInv
  <1>2. CASE Readers!Publish({<<"unreadable", "*", "*">>})
    BY <1>2, ReadersPublishStep DEF Readers!ListSecrets
  <1>3. QED
    BY <1>1, <1>2 DEF Readers!ListSecrets

LEMMA ReadersReadListStep ==
    ASSUME ReadersInv, Readers!ReadList
    PROVE  ReadersInv'
  <1> DEFINE turn == Readers!Turn
             granted == {r \in Repo : <<"reads", turn, r>> \in secrets.now}
  <1>1. /\ ReadersTyped /\ ReadersHeard /\ ReadersListed /\ ReadersPrinted /\ secrets' = secrets
        /\ readers.stage = "reading" /\ turn \in Readers!Name
    <2>1. Readers!Turn \in Readers!Pending
      BY DEF Readers!ReadList, Readers!Turn
    <2>2. QED
      BY <2>1 DEF ReadersInv, ReadersTyped, Readers!ReadList, Readers!Pending, Readers!Comparable
  <1>2. PICK list \in [state : {"compared", "undetermined"}, granted : SUBSET Repo] :
           /\ readers' = [readers EXCEPT !.read[turn] = list]
           /\ list.state = "compared" => list.granted = granted
    <2> DEFINE full == [state |-> "compared", granted |-> granted]
               none == [state |-> "undetermined", granted |-> {}]
    <2>1. \E list \in {full, none} : readers' = [readers EXCEPT !.read[turn] = list]
      BY DEF Readers!ReadList, Readers!Put
    <2>2. /\ full \in [state : {"compared", "undetermined"}, granted : SUBSET Repo]
          /\ none \in [state : {"compared", "undetermined"}, granted : SUBSET Repo]
          /\ full.granted = granted /\ none.state # "compared"
      OBVIOUS
    <2> HIDE DEF full, none
    <2>3. QED
      BY <2>1, <2>2, Zenon
  <1> HIDE DEF turn
  <1>3. /\ readers'.stage = readers.stage /\ readers'.listing = readers.listing
        /\ readers'.read = [readers.read EXCEPT ![turn] = list]
        /\ readers'.kind = readers.kind /\ readers'.rows = readers.rows
    BY <1>1, <1>2 DEF ReadersTyped
  <1>4. ReadersTyped'
    <2>1. list \in [state : {"unread", "compared", "undetermined"}, granted : SUBSET Repo]
      BY <1>2
    <2>2. QED
      BY <1>1, <1>2, <1>3, <2>1 DEF ReadersTyped
  <1>5. ReadersHeard'
    <2>1. ASSUME NEW s \in Readers!Name, readers'.read[s].state = "compared", NEW r \in Repo
          PROVE  /\ r \in readers'.read[s].granted => <<"reads", s, r>> \in secrets.ever
                 /\ r \notin readers'.read[s].granted => <<"reads", s, r>> \notin secrets.always
      <3>1. CASE s = turn
        <4>1. readers'.read[s].granted = granted
          BY <1>1, <1>2, <1>3, <2>1, <3>1 DEF ReadersTyped
        <4>2. QED
          BY <1>1, <3>1, <4>1 DEF ReadersTyped
      <3>2. CASE s # turn
        <4>1. readers'.read[s] = readers.read[s]
          BY <1>1, <1>3, <3>2 DEF ReadersTyped
        <4>2. QED
          BY <1>1, <2>1, <4>1 DEF ReadersHeard
      <3>3. QED
        BY <3>1, <3>2
    <2>2. QED
      BY <1>1, <2>1 DEF ReadersHeard
  <1>6. ReadersListed'
    BY <1>1, <1>3 DEF ReadersListed
  <1>7. ReadersPrinted'
    BY <1>1, <1>3 DEF ReadersPrinted, ReadersTyped
  <1>8. QED
    BY <1>4, <1>5, <1>6, <1>7 DEF ReadersInv

\* What was the case stays so in ever, and what was not stays so in always.
LEMMA ReadersLiveChangeStep ==
    ASSUME ReadersInv, Readers!LiveChange
    PROVE  ReadersInv'
  <1>1. PICK f \in Readers!Fact :
           secrets' = [now |-> (secrets.now \ {f}) \cup ({f} \ secrets.now),
                       ever |-> secrets.ever \cup ((secrets.now \ {f}) \cup ({f} \ secrets.now)),
                       always |-> secrets.always \cap ((secrets.now \ {f}) \cup ({f} \ secrets.now))]
    BY DEF Readers!LiveChange
  <1>2. readers' = readers /\ ReadersTyped /\ ReadersHeard /\ ReadersListed /\ ReadersPrinted
    BY DEF Readers!LiveChange, ReadersInv
  <1>3. /\ secrets' \in [{"now", "ever", "always"} -> SUBSET Readers!Fact]
        /\ secrets'.always \subseteq secrets'.now /\ secrets'.now \subseteq secrets'.ever
        /\ secrets'.always \subseteq secrets.always /\ secrets.ever \subseteq secrets'.ever
    BY <1>1, <1>2 DEF ReadersTyped
  <1>4. ReadersTyped'
    BY <1>2, <1>3 DEF ReadersTyped
  <1>5. ReadersHeard' /\ ReadersListed'
    BY <1>2, <1>3 DEF ReadersHeard, ReadersListed
  <1>6. ReadersPrinted'
    BY <1>2, RowsStay DEF ReadersPrinted
  <1>7. QED
    BY <1>4, <1>5, <1>6 DEF ReadersInv

\* A step of something else.
LEMMA ReadersStillStep ==
    ASSUME ReadersInv, UNCHANGED <<secrets, readers>>
    PROVE  ReadersInv'
  <1>1. ReadersTyped' /\ ReadersHeard' /\ ReadersListed'
    BY DEF ReadersInv, ReadersTyped, ReadersHeard, ReadersListed
  <1>2. ReadersPrinted'
    BY RowsStay DEF ReadersInv, ReadersPrinted
  <1>3. QED
    BY <1>1, <1>2 DEF ReadersInv

\* The check is forgotten, and another may begin.
LEMMA ReadersForgetStep ==
    ASSUME ReadersInv, readers' = Readers!Idle,
           secrets' = [secrets EXCEPT !.ever = secrets.now, !.always = secrets.now]
    PROVE  ReadersInv'
  <1>1. secrets' = [now |-> secrets.now, ever |-> secrets.now, always |-> secrets.now]
    BY DEF ReadersInv, ReadersTyped
  <1>2. readers' = [stage |-> "idle", listing |-> Readers!NoList,
                    read |-> [s \in Readers!Name |-> [state |-> "unread", granted |-> {}]],
                    kind |-> "none", rows |-> {}]
    BY DEF Readers!Idle
  <1>3. ReadersTyped'
    BY <1>1, <1>2 DEF ReadersInv, ReadersTyped, Readers!NoList
  <1>4. ReadersHeard' /\ ReadersListed' /\ ReadersPrinted'
    BY <1>2 DEF ReadersHeard, ReadersListed, ReadersPrinted, Readers!NoList
  <1>5. QED
    BY <1>3, <1>4 DEF ReadersInv

LEMMA ReadersNextStep ==
    ASSUME ReadersInv, Readers!Next
    PROVE  ReadersInv'
  <1>1. CASE Readers!Break
    BY <1>1, ReadersDegradeStep DEF Readers!Break
  <1>2. CASE Readers!Report
    BY <1>2, ReadersPublishStep DEF Readers!Report
  <1>3. QED
    BY <1>1, <1>2, ReadersBeginStep, ReadersListSecretsStep, ReadersReadListStep,
       ReadersLiveChangeStep DEF Readers!Next

-----------------------------------------------------------------------------
\* What the invariant says of the reader tables.

LEMMA ReadersNothingFalse == ReadersInv => Readers!NoFalseReader
  <1>1. SUFFICES ASSUME ReadersInv, NEW s \in Readers!Name, NEW r \in Repo
        PROVE  /\ Readers!Row("granted", s, r) => r \in Secrets[s].readers /\ <<"reads", s, r>> \notin secrets.always
               /\ Readers!Row("extra", s, r) => r \notin Secrets[s].readers /\ <<"reads", s, r>> \in secrets.ever
    BY DEF Readers!NoFalseReader
  <1>2. /\ Readers!Row("granted", s, r) => <<"granted", s, r>> \in Readers!Rows
        /\ Readers!Row("extra", s, r) => <<"extra", s, r>> \in Readers!Rows
    <2>1. /\ <<"granted", s, r>> # <<"unreadable", "*", "*">>
          /\ <<"extra", s, r>> # <<"unreadable", "*", "*">>
      OBVIOUS
    <2>2. QED
      BY <1>1, <2>1 DEF ReadersInv, ReadersPrinted, Readers!Row
  <1>3. QED
    BY <1>1, <1>2, GrantedRows, ExtraRows DEF ReadersInv, ReadersHeard

LEMMA ReadersNothingSilent == ReadersInv => Readers!NoSilentReader
  <1>1. SUFFICES ASSUME ReadersInv, readers.kind = "report", ~ Readers!Row("unreadable", "*", "*"),
                        NEW s \in Readers!Name
        PROVE  LET unchecked == Readers!Row("undetermined", s, "*") /\ ~ Readers!Row("clean", "*", "*")
               IN  /\ <<"selected", s>> \in secrets.always => \A r \in Repo :
                         /\ r \in Secrets[s].readers /\ <<"reads", s, r>> \notin secrets.ever =>
                               Readers!Row("granted", s, r) \/ unchecked
                         /\ r \notin Secrets[s].readers /\ <<"reads", s, r>> \in secrets.always =>
                               Readers!Row("extra", s, r) \/ unchecked
                   /\ s \in Readers!DeclaredSelected /\ <<"selected", s>> \notin secrets.ever =>
                         Readers!Row("not compared", s, "*")
    BY DEF Readers!NoSilentReader
  <1>2. readers.rows = Readers!Rows /\ readers.listing.state = "read" /\ Readers!Pending = {}
    BY <1>1 DEF ReadersInv, ReadersPrinted, Readers!Row
  <1>3. ASSUME <<"selected", s>> \in secrets.always
        PROVE  readers.read[s].state \in {"compared", "undetermined"}
    BY <1>1, <1>2, <1>3 DEF ReadersInv, ReadersTyped, ReadersListed, Readers!Pending, Readers!Comparable
  <1>4. readers.read[s].state = "undetermined" =>
           Readers!Row("undetermined", s, "*") /\ ~ Readers!Row("clean", "*", "*")
    BY <1>2, UndeterminedRows DEF Readers!Row
  <1>5. ASSUME readers.read[s].state = "compared", NEW r \in Repo
        PROVE  /\ r \in Secrets[s].readers /\ <<"reads", s, r>> \notin secrets.ever =>
                     Readers!Row("granted", s, r)
               /\ r \notin Secrets[s].readers /\ <<"reads", s, r>> \in secrets.always =>
                     Readers!Row("extra", s, r)
    BY <1>1, <1>2, <1>5, GrantedRows, ExtraRows DEF ReadersInv, ReadersHeard, Readers!Row
  <1>6. s \in Readers!DeclaredSelected /\ <<"selected", s>> \notin secrets.ever =>
           Readers!Row("not compared", s, "*")
    BY <1>1, <1>2, NotComparedRows DEF ReadersInv, ReadersListed, Readers!Row
  <1>7. QED
    BY <1>3, <1>4, <1>5, <1>6

LEMMA ReadersTypes ==
    ASSUME Readers!ReadersAssumption, Readers!Possible(secrets.now)
    PROVE  ReadersInv => Readers!TypeOK
  <1> DEFINE Table == {"granted", "extra", "undetermined", "not compared", "unreadable", "clean"}
                      \X (Readers!Name \cup {"*"}) \X (Repo \cup {"*"})
  <1>1. SUFFICES ASSUME ReadersInv PROVE Readers!TypeOK
    OBVIOUS
  <1>2. readers.rows \subseteq Table
    <2>1. readers.rows = {} \/ readers.rows = {<<"unreadable", "*", "*">>} \/ readers.rows = Readers!Rows
      BY <1>1 DEF ReadersInv, ReadersPrinted
    <2>2. Readers!Rows \subseteq Table
      BY <1>1, RowsTyped DEF ReadersInv
    <2>3. <<"unreadable", "*", "*">> \in Table
      OBVIOUS
    <2> HIDE DEF Table
    <2>4. QED
      BY <2>1, <2>2, <2>3
  <1>3. QED
    BY <1>1, <1>2 DEF ReadersInv, ReadersTyped, Readers!TypeOK

\* Only a live secret has a visibility, before and after anything happens to it.
LEMMA ReadersStaysPossible ==
    ASSUME ReadersInv, Readers!Possible(secrets.now), Readers!Next
    PROVE  Readers!Possible(secrets'.now)
  <1>1. CASE Readers!LiveChange
    <2>1. PICK now : Readers!Possible(now) /\ secrets'.now = now
      BY <1>1 DEF Readers!LiveChange
    <2>2. QED
      BY <2>1
  <1>2. CASE ~ Readers!LiveChange
    <2>1. \/ secrets' = secrets
          \/ secrets' = [secrets EXCEPT !.ever = secrets.now, !.always = secrets.now]
      BY <1>2 DEF Readers!Next, Readers!Begin, Readers!ListSecrets, Readers!ReadList,
                  Readers!Break, Readers!Report
    <2>2. QED
      BY <2>1 DEF ReadersInv, ReadersTyped
  <1>3. QED
    BY <1>1, <1>2

-----------------------------------------------------------------------------
\* The check by itself.

\* The check keeps the invariant: of each reader list it knows what held when the list
\* came, through changes before and after it, and it prints all that it knows.
THEOREM ReadersInvariant == Readers!Spec => []ReadersInv
  <1>1. Readers!Init => ReadersInv
    BY ReadersInit
  <1>2. ReadersInv /\ [Readers!Next]_(Readers!vars) => ReadersInv'
    BY ReadersNextStep, ReadersStillStep DEF Readers!vars
  <1>3. QED
    BY <1>1, <1>2, PTL DEF Readers!Spec

\* A row is never false, for any secrets and repositories: the grant it calls missing
\* was missing at some time of the check, and the reader it calls undeclared had access.
THEOREM NoFalseReaderCorrect == Readers!Spec => []Readers!NoFalseReader
  BY ReadersNothingFalse, ReadersInvariant, PTL

\* And nothing is passed over: what differs from the config all the while has its row,
\* unless the report says that it could not check it; it says that all is as declared
\* only of what it checked.
THEOREM NoSilentReaderCorrect == Readers!Spec => []Readers!NoSilentReader
  BY ReadersNothingSilent, ReadersInvariant, PTL

-----------------------------------------------------------------------------
\* The two checks as steps of the job: what AppActorsProofs and the sections above show
\* of a check by itself holds where runs are cancelled and terminated around it and one
\* takes up where another left.

ActorProofs == INSTANCE AppActorsProofs

-----------------------------------------------------------------------------
\* The checks of PlanWorkflow are those the proofs are about: written out, the two
\* instances of a module are the same.

LEMMA SameActors ==
    /\ Actors!ActorsAssumption <=> ActorProofs!ActorsAssumption
    /\ Actors!Init <=> ActorProofs!Init
    /\ Actors!Next <=> ActorProofs!Next
    /\ Actors!Idle = ActorProofs!Idle
    /\ Actors!TypeOK <=> ActorProofs!TypeOK
  BY DEF
        Actors!TypeOK, ActorProofs!TypeOK, Actors!Section, ActorProofs!Section,
        Actors!ActorsAssumption, ActorProofs!ActorsAssumption, Actors!Init,
        ActorProofs!Init, Actors!BypassSlug, ActorProofs!BypassSlug, Actors!CheckSlug,
        ActorProofs!CheckSlug, Actors!BranchSlug, ActorProofs!BranchSlug,
        Actors!ReviewerSlug, ActorProofs!ReviewerSlug, Actors!SlugOf,
        ActorProofs!SlugOf, Actors!Sites, ActorProofs!Sites, Actors!Slug,
        ActorProofs!Slug, Actors!ReadNeedsInstallation,
        ActorProofs!ReadNeedsInstallation, Actors!Needing, ActorProofs!Needing,
        Actors!Fact, ActorProofs!Fact, Actors!Readable, ActorProofs!Readable,
        Actors!Installed, ActorProofs!Installed, Actors!NoList, ActorProofs!NoList,
        Actors!Idle, ActorProofs!Idle, Actors!Spend, ActorProofs!Spend, Actors!Degrade,
        ActorProofs!Degrade, Actors!Begin, ActorProofs!Begin, Actors!ReadInstallations,
        ActorProofs!ReadInstallations, Actors!Reply, ActorProofs!Reply, Actors!Answers,
        ActorProofs!Answers, Actors!BadAnswers, ActorProofs!BadAnswers, Actors!Unasked,
        ActorProofs!Unasked, Actors!Turn, ActorProofs!Turn, Actors!Classify,
        ActorProofs!Classify, Actors!Resolve, ActorProofs!Resolve, Actors!Break,
        ActorProofs!Break, Actors!Report, ActorProofs!Report, Actors!Unresolvable,
        ActorProofs!Unresolvable, Actors!Missing, ActorProofs!Missing, Actors!Accepted,
        ActorProofs!Accepted, Actors!FailsApply, ActorProofs!FailsApply, Actors!Rows,
        ActorProofs!Rows, Actors!LiveChange, ActorProofs!LiveChange, Actors!Next,
        ActorProofs!Next

LEMMA SameActorProperties ==
    /\ Actors!NoFalseActor <=> ActorProofs!NoFalseActor
    /\ Actors!NoSilentActor <=> ActorProofs!NoSilentActor
  BY DEF
        Actors!BypassSlug, ActorProofs!BypassSlug, Actors!CheckSlug,
        ActorProofs!CheckSlug, Actors!BranchSlug, ActorProofs!BranchSlug,
        Actors!ReviewerSlug, ActorProofs!ReviewerSlug, Actors!SlugOf,
        ActorProofs!SlugOf, Actors!Sites, ActorProofs!Sites, Actors!Slug,
        ActorProofs!Slug, Actors!ReadNeedsInstallation,
        ActorProofs!ReadNeedsInstallation, Actors!Needing, ActorProofs!Needing,
        Actors!FailsApply, ActorProofs!FailsApply, Actors!Readable,
        ActorProofs!Readable, Actors!Installed, ActorProofs!Installed, Actors!Named,
        ActorProofs!Named, Actors!NoFalseActor, ActorProofs!NoFalseActor,
        Actors!NoSilentActor, ActorProofs!NoSilentActor

-----------------------------------------------------------------------------
\* Each step of the job is a step of the check, none of its concern, or its end.

LEMMA ActorsInJob ==
    ASSUME [Next]_vars
    PROVE  \/ Actors!Next
           \/ UNCHANGED <<apps, actors>>
           \/ /\ actors' = Actors!Idle
              /\ apps' = [apps EXCEPT !.ever = apps.now, !.always = apps.now]
  BY DEF Next, Advance, vars, checks, Quiet, Push, PushOther, DeleteComment, Start, Interrupt, Terminate,
     Reset, Prepare, RunPlan, Guard, CheckoutEngine, CheckActors, CheckReaders, BuildReport,
     Lookup, Write, Verdict

LEMMA ReadersInJob ==
    ASSUME [Next]_vars
    PROVE  \/ Readers!Next
           \/ UNCHANGED <<secrets, readers>>
           \/ /\ readers' = Readers!Idle
              /\ secrets' = [secrets EXCEPT !.ever = secrets.now, !.always = secrets.now]
  BY DEF Next, Advance, vars, checks, Quiet, Push, PushOther, DeleteComment, Start, Interrupt, Terminate,
     Reset, Prepare, RunPlan, Guard, CheckoutEngine, CheckActors, CheckReaders, BuildReport,
     Lookup, Write, Verdict

\* In every run of plan.yml, cancelled or not: what the fragment on App slugs says was
\* the case while its check ran, and what was wrong throughout is in it or is said not
\* to have been checked.
THEOREM ActorReportIsTrueCorrect == Spec => []ActorReportIsTrue
  <1> USE WorkflowAssumption, SameActors
  <1>1. Init => ActorProofs!IInv
    BY ActorProofs!InitIInv DEF Init
  <1>2. ActorProofs!IInv /\ [Next]_vars => ActorProofs!IInv'
    BY ActorsInJob, ActorProofs!NextStep, ActorProofs!StillStep, ActorProofs!ForgetStep
  <1>3. ActorProofs!IInv => ActorReportIsTrue
    BY SameActorProperties, ActorProofs!NothingFalse, ActorProofs!NothingSilent
       DEF ActorReportIsTrue
  <1>4. QED
    BY <1>1, <1>2, <1>3, PTL DEF Spec

\* The same of the fragment on who may read the organization's secrets.
THEOREM ReaderReportIsTrueCorrect == Spec => []ReaderReportIsTrue
  <1>1. Init => ReadersInv
    BY ReadersInit DEF Init
  <1>2. ReadersInv /\ [Next]_vars => ReadersInv'
    BY ReadersInJob, ReadersNextStep, ReadersStillStep, ReadersForgetStep
  <1>3. ReadersInv => ReaderReportIsTrue
    BY ReadersNothingFalse, ReadersNothingSilent
       DEF ReaderReportIsTrue
  <1>4. QED
    BY <1>1, <1>2, <1>3, PTL DEF Spec

-----------------------------------------------------------------------------
\* Types.

\* What goes wrong, and what changes, stays within its bound.
Within ==
    /\ spent \in [{"live", "fault"} -> Nat]
    /\ spent.live <= MaxLive /\ spent.fault <= MaxFault

LEMMA SpentInJob ==
    ASSUME [Next]_vars
    PROVE  \/ spent' = spent
           \/ spent.fault < MaxFault /\ spent' = [spent EXCEPT !.fault = @ + 1]
           \/ spent.live < MaxLive /\ spent' = [spent EXCEPT !.live = @ + 1]
  <1>1. Fault => spent.fault < MaxFault /\ spent' = [spent EXCEPT !.fault = @ + 1]
    BY DEF Fault, Actors!Spend
  <1>2. ASSUME Actors!Next
        PROVE  \/ spent' = spent
               \/ spent.fault < MaxFault /\ spent' = [spent EXCEPT !.fault = @ + 1]
               \/ spent.live < MaxLive /\ spent' = [spent EXCEPT !.live = @ + 1]
    BY <1>2 DEF Actors!Next, Actors!Begin, Actors!ReadInstallations, Actors!Resolve,
       Actors!Break, Actors!Report, Actors!LiveChange, Actors!Spend
  <1>3. ASSUME Readers!Next
        PROVE  \/ spent' = spent
               \/ spent.fault < MaxFault /\ spent' = [spent EXCEPT !.fault = @ + 1]
               \/ spent.live < MaxLive /\ spent' = [spent EXCEPT !.live = @ + 1]
    BY <1>3 DEF Readers!Next, Readers!Begin, Readers!ListSecrets, Readers!ReadList,
       Readers!Break, Readers!Report, Readers!LiveChange, Readers!Spend
  <1>4. spent' = spent \/ Fault \/ Actors!Next \/ Readers!Next
    BY DEF Next, Advance, vars, Push, PushOther, DeleteComment, Start, Interrupt, Terminate, Prepare,
       RunPlan, Guard, CheckoutEngine, CheckActors, CheckReaders, BuildReport, Lookup,
       Write, Verdict
  <1>5. QED
    BY <1>1, <1>2, <1>3, <1>4

LEMMA StaysWithin ==
    ASSUME WorkflowAssumption, Within, [Next]_vars
    PROVE  Within'
  <1>1. MaxLive \in Nat /\ MaxFault \in Nat /\ spent.live \in Nat /\ spent.fault \in Nat
    BY DEF WorkflowAssumption, Within
  <1>2. CASE spent' = spent
    BY <1>2 DEF Within
  <1>3. CASE spent.fault < MaxFault /\ spent' = [spent EXCEPT !.fault = @ + 1]
    BY <1>1, <1>3 DEF Within
  <1>4. CASE spent.live < MaxLive /\ spent' = [spent EXCEPT !.live = @ + 1]
    BY <1>1, <1>4 DEF Within
  <1>5. QED
    BY <1>2, <1>3, <1>4, SpentInJob

\* The workflow and the two checks in it keep to their types and bounds, whatever the
\* commits, the config and the secrets are.
THEOREM WorkflowTypeCorrect == Spec => []TypeOK
  <1> DEFINE Inv == /\ downstream \in BOOLEAN /\ Within
                    /\ ActorProofs!IInv
                    /\ ReadersInv /\ Readers!Possible(secrets.now)
  <1> USE WorkflowAssumption, SameActors
  <1>1. Init => Inv
    <2>1. SUFFICES ASSUME Init PROVE Inv
      OBVIOUS
    <2>2. ActorProofs!IInv /\ ReadersInv
      BY <2>1, ActorProofs!InitIInv, ReadersInit DEF Init
    <2>3. Within
      BY <2>1 DEF Init, Actors!Init, Within, WorkflowAssumption
    <2>4. Readers!Possible(secrets.now)
      BY <2>1 DEF Init, Readers!Init
    <2>5. QED
      BY <2>1, <2>2, <2>3, <2>4 DEF Init
  <1>2. Inv /\ [Next]_vars => Inv'
    <2>1. SUFFICES ASSUME Inv, [Next]_vars PROVE Inv'
      OBVIOUS
    <2>2. ActorProofs!IInv'
      BY <2>1, ActorsInJob, ActorProofs!NextStep, ActorProofs!StillStep,
         ActorProofs!ForgetStep DEF WorkflowAssumption
    <2>3. ReadersInv'
      BY <2>1, ReadersInJob, ReadersNextStep, ReadersStillStep,
         ReadersForgetStep
    <2>4. Readers!Possible(secrets'.now)
      <3>1. CASE Readers!Next
        BY <2>1, <3>1, ReadersStaysPossible
      <3>2. CASE ~ Readers!Next
        <4>1. secrets'.now = secrets.now
          BY <2>1, <3>2, ReadersInJob DEF ReadersInv, ReadersTyped
        <4>2. QED
          BY <2>1, <4>1
      <3>3. QED
        BY <3>1, <3>2
    <2>5. downstream' = downstream
      BY <2>1 DEF Next, Advance, vars, Quiet, Push, PushOther, DeleteComment, Start, Interrupt, Terminate,
         Prepare, RunPlan, Guard, CheckoutEngine, CheckActors, CheckReaders, BuildReport,
         Lookup, Write, Verdict
    <2>6. Within'
      BY <2>1, StaysWithin
    <2>7. QED
      BY <2>1, <2>2, <2>3, <2>4, <2>5, <2>6
  <1>3. Inv /\ Typed => TypeOK
    BY ActorProofs!Types, ReadersTypes DEF Within, Typed, TypeOK, WorkflowAssumption
  <1>4. IInv => Typed
    BY DEF IInv
  <1>5. QED
    BY <1>1, <1>2, <1>3, <1>4, WorkflowInvariant, PTL DEF Spec
=============================================================================
