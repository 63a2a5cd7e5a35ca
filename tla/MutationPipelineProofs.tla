------------------------ MODULE MutationPipelineProofs ------------------------
(***************************************************************************)
(* Machine-checked proofs about MutationPipeline: the group holds one run, *)
(* no apply takes the live organization back, and no scan reports a        *)
(* divergence that is gone.                                                *)
(***************************************************************************)
EXTENDS MutationPipeline, TLAPS

\* The group holds one run, and keeps another pending only then.
OneRun ==
    /\ \A p, q \in running : p = q
    /\ \A p, q \in pending : p = q
    /\ running = {} => pending = {}

\* A later commit has a later config, and live state is not ahead of trunk.
History ==
    /\ \A m, n \in 0 .. head : m <= n => config[m] <= config[n]
    /\ \A n \in 0 .. head : config[n] <= n
    /\ live <= config[head]

\* Runs are pinned to commits of trunk, and a pending run has done nothing.
Pinned ==
    /\ \A run \in running \cup pending : run.sha <= head
    /\ \A n \in launched : n <= head
    /\ \A run \in pending : run.stage # "mutate"

\* A run that passed the guard carries a config live state is not ahead of.
Guarded == \A run \in running : run.stage = "mutate" => live <= config[run.sha]

IInv == TypeOK /\ OneRun /\ History /\ Pinned /\ Guarded

-----------------------------------------------------------------------------

LEMMA NewRunType ==
    ASSUME NEW kind \in {"apply", "drift", "testbed"}, NEW sha \in Commit
    PROVE  /\ NewRun(kind, sha) \in RunRecord
           /\ NewRun(kind, sha).sha = sha
           /\ NewRun(kind, sha).stage # "mutate"
  BY DEF NewRun, RunRecord, Stage

LEMMA HeadType ==
    ASSUME TypeOK
    PROVE  MaxMerge \in Nat /\ head \in 0 .. MaxMerge /\ head \in Nat
  BY PipelineAssumption DEF TypeOK, Commit

LEMMA SpendType ==
    ASSUME TypeOK, NEW b \in {"manual", "tamper", "fault"}, NEW max, Spend(b, max)
    PROVE  spent' \in [{"manual", "tamper", "fault"} -> Nat]
  BY DEF TypeOK, Spend

\* What the group holds after a run entered it.
LEMMA EnterGroup ==
    ASSUME TypeOK, OneRun, NEW run \in RunRecord, Enter(run)
    PROVE  /\ OneRun'
           /\ running' \subseteq RunRecord /\ pending' \subseteq RunRecord
           /\ running' \subseteq running \cup {run}
           /\ pending' \subseteq pending \cup {run}
  BY DEF TypeOK, OneRun, Enter

\* What the group holds after a run left it, or went on.
LEMMA ExitGroup ==
    ASSUME TypeOK, OneRun, NEW run \in running, Exit(run)
    PROVE  /\ OneRun'
           /\ running' \subseteq RunRecord /\ pending' \subseteq RunRecord
           /\ running' = pending /\ pending' = {}
  <1>1. running \ {run} = {}
    BY DEF OneRun
  <1> QED BY <1>1 DEF TypeOK, OneRun, Exit

LEMMA MoveGroup ==
    ASSUME TypeOK, OneRun, NEW run \in running, NEW next \in RunRecord, Move(run, next)
    PROVE  /\ OneRun'
           /\ running' \subseteq RunRecord /\ pending' \subseteq RunRecord
           /\ running' = {next} /\ pending' = pending
  <1>1. running \ {run} = {}
    BY DEF OneRun
  <1> QED BY <1>1 DEF TypeOK, OneRun, Move

\* Steps of the group that leave trunk alone, and live state unless the run that
\* holds the group passed the guard.
LEMMA GroupStep ==
    ASSUME IInv, UNCHANGED trunk, TypeOK', OneRun',
           \A n \in launched' : n <= head,
           pending' \subseteq pending \cup {run \in RunRecord : run.sha <= head /\ run.stage # "mutate"},
           \A run \in running' :
              /\ run.sha <= head
              /\ run.stage = "mutate" => live' <= config[run.sha],
           live' <= config[head]
    PROVE  IInv'
  BY DEF IInv, History, Pinned, Guarded, trunk

-----------------------------------------------------------------------------
\* Triggers.

\* A run pinned to a commit of trunk enters the group.
LEMMA EnterStep ==
    ASSUME IInv, NEW kind \in {"apply", "drift", "testbed"}, NEW sha \in Commit, sha <= head,
           Enter(NewRun(kind, sha)), UNCHANGED <<trunk, org, skipped, reported>>,
           launched' \subseteq launched \cup {sha},
           spent' \in [{"manual", "tamper", "fault"} -> Nat]
    PROVE  IInv'
  <1> DEFINE run == NewRun(kind, sha)
  <1>1. run \in RunRecord /\ run.sha = sha /\ run.stage # "mutate"
    BY NewRunType
  <1> HIDE DEF run
  <1>2. /\ OneRun'
        /\ running' \subseteq RunRecord /\ pending' \subseteq RunRecord
        /\ running' \subseteq running \cup {run}
        /\ pending' \subseteq pending \cup {run}
    <2>1. Enter(run)
      BY DEF run
    <2> QED BY <1>1, <2>1, EnterGroup DEF IInv
  <1>3. TypeOK'
    BY <1>2 DEF IInv, TypeOK, trunk, org
  <1>4. /\ \A n \in launched' : n <= head
        /\ pending' \subseteq pending \cup {q \in RunRecord : q.sha <= head /\ q.stage # "mutate"}
        /\ live' <= config[head]
    BY <1>1, <1>2 DEF IInv, Pinned, History, org
  <1>5. \A q \in running' : q.sha <= head /\ (q.stage = "mutate" => live' <= config[q.sha])
    BY <1>1, <1>2 DEF IInv, Pinned, Guarded, org
  <1> QED BY <1>2, <1>3, <1>4, <1>5, GroupStep

\* Trunk grows by one commit, which keeps the config or is its newest.
LEMMA GrowStep ==
    ASSUME IInv, head < MaxMerge, head' = head + 1,
           \E c \in {config[head], head + 1} : config' = [config EXCEPT ![head + 1] = c],
           UNCHANGED org
    PROVE  History' /\ \A n \in 0 .. head : config'[n] = config[n]
  <1>1. head \in Nat /\ MaxMerge \in Nat /\ head + 1 \in Commit /\ config \in [Commit -> Commit]
    BY HeadType DEF IInv, TypeOK, Commit
  <1>2. \A n \in 0 .. head : config'[n] = config[n] /\ config[n] \in Nat
    <2>1. \A n \in 0 .. head : n \in Commit /\ n # head + 1
      BY <1>1 DEF Commit
    <2>2. config \in [Commit -> Commit]
      BY <1>1
    <2>3. \A n \in Commit : config[n] \in Commit
      BY <2>2
    <2>4. Commit \subseteq Nat
      BY DEF Commit
    <2>5. \A n \in Commit : config[n] \in Nat
      BY <2>3, <2>4
    <2> QED BY <1>1, <2>1, <2>5
  <1>3. config'[head + 1] \in {config[head], head + 1}
    BY <1>1
  <1>4. config[head] <= head /\ config[head] \in Nat
    BY <1>1, <1>2 DEF IInv, History
  <1>5. \A n \in 0 .. head : config[n] <= config'[head + 1]
    <2>1. \A n \in 0 .. head : config[n] <= config[head]
      BY <1>1 DEF IInv, History
    <2> QED BY <1>1, <1>2, <1>3, <1>4, <2>1
  <1>6. \A n \in 0 .. head' : n \in 0 .. head \/ n = head + 1
    BY <1>1
  <1>7. \A n \in 0 .. head' : config'[n] <= n
    BY <1>1, <1>2, <1>3, <1>4, <1>6 DEF IInv, History
  <1>8. \A m, n \in 0 .. head' : m <= n => config'[m] <= config'[n]
    <2> SUFFICES ASSUME NEW m \in 0 .. head', NEW n \in 0 .. head', m <= n
                 PROVE  config'[m] <= config'[n]
      OBVIOUS
    <2>1. CASE n \in 0 .. head
      BY <1>1, <1>2, <2>1 DEF IInv, History
    <2>2. CASE n = head + 1 /\ m \in 0 .. head
      BY <1>2, <1>5, <2>2
    <2>3. CASE n = head + 1 /\ m = head + 1
      BY <1>1, <1>3, <1>4, <2>3
    <2> QED BY <1>6, <2>1, <2>2, <2>3
  <1>9. live' <= config'[head']
    <2>1. live <= config[head] /\ live \in Nat /\ config'[head + 1] \in Nat
      BY <1>1, <1>3, <1>4 DEF IInv, History, TypeOK, Commit
    <2> QED BY <1>1, <1>4, <1>5, <2>1 DEF org
  <1> QED BY <1>2, <1>7, <1>8, <1>9 DEF History

LEMMA MergeStep ==
    ASSUME IInv, MergeConfig \/ MergeOther
    PROVE  IInv'
  <1>1. /\ head < MaxMerge /\ head' = head + 1
        /\ \E c \in {config[head], head + 1} : config' = [config EXCEPT ![head + 1] = c]
        /\ UNCHANGED <<org, skipped, reported, spent>>
        /\ launched' \subseteq launched \cup {head + 1}
    BY DEF MergeConfig, MergeOther
  <1>2. head \in Nat /\ MaxMerge \in Nat /\ head + 1 \in Commit
    BY <1>1, HeadType DEF IInv, Commit
  <1>3. History' /\ \A n \in 0 .. head : config'[n] = config[n]
    BY <1>1, GrowStep
  <1> DEFINE run == NewRun("apply", head + 1)
  <1>4. run \in RunRecord /\ run.sha = head + 1 /\ run.stage # "mutate"
    BY <1>2, NewRunType
  <1> HIDE DEF run
  <1>5. /\ OneRun'
        /\ running' \subseteq RunRecord /\ pending' \subseteq RunRecord
        /\ running' \subseteq running \cup {run}
        /\ pending' \subseteq pending \cup {run}
    <2>1. CASE MergeConfig
      <3>1. Enter(run)
        BY <2>1 DEF MergeConfig, run
      <3> QED BY <1>4, <3>1, EnterGroup DEF IInv
    <2>2. CASE MergeOther
      BY <2>2 DEF MergeOther, group, IInv, TypeOK, OneRun
    <2> QED BY <2>1, <2>2
  <1>6. TypeOK'
    <2>1. config' \in [Commit -> Commit]
      <3>1. head \in Commit /\ config \in [Commit -> Commit]
        BY DEF IInv, TypeOK
      <3> QED BY <1>1, <1>2, <3>1
    <2> QED BY <1>1, <1>2, <1>5, <2>1 DEF IInv, TypeOK, org, Commit
  <1>7. Pinned'
    <2>1. \A q \in running \cup pending : q.sha <= head + 1
      <3>1. \A q \in running \cup pending : q.sha \in Nat /\ q.sha <= head
        BY DEF IInv, Pinned, TypeOK, RunRecord, Commit
      <3> QED BY <1>2, <3>1
    <2>2. \A n \in launched : n <= head + 1
      BY <1>2 DEF IInv, Pinned, TypeOK, Commit
    <2> QED BY <1>1, <1>2, <1>4, <1>5, <2>1, <2>2 DEF IInv, Pinned
  <1>8. Guarded'
    <2>1. \A q \in running : q.stage = "mutate" => live <= config'[q.sha]
      <3>1. \A q \in running : q.sha \in 0 .. head
        BY <1>2 DEF IInv, Pinned, TypeOK, RunRecord, Commit
      <3> QED BY <1>3, <3>1 DEF IInv, Guarded
    <2> QED BY <1>1, <1>4, <1>5, <2>1 DEF Guarded, org
  <1> QED BY <1>3, <1>5, <1>6, <1>7, <1>8 DEF IInv

LEMMA TriggerStep ==
    ASSUME IInv, Trigger
    PROVE  IInv'
  <1>1. CASE MergeConfig \/ MergeOther
    BY <1>1, MergeStep
  <1>2. CASE Dispatch
    <2>1. head \in Commit /\ head <= head
      BY HeadType DEF IInv, Commit
    <2>2. spent' \in [{"manual", "tamper", "fault"} -> Nat]
      BY <1>2, SpendType DEF Dispatch, IInv
    <2> QED BY <1>2, <2>1, <2>2, EnterStep DEF Dispatch
  <1>3. ASSUME NEW kind \in Reruns, Rerun(kind)
        PROVE  IInv'
    <2>1. PICK n \in IF kind = "apply" THEN launched ELSE 0 .. head : Enter(NewRun(kind, n))
      BY <1>3 DEF Rerun
    <2>2. n \in Commit /\ n <= head
      <3>1. n \in launched \/ n \in 0 .. head
        OBVIOUS
      <3> QED BY <3>1, HeadType DEF IInv, TypeOK, Pinned, Commit
    <2>3. spent' \in [{"manual", "tamper", "fault"} -> Nat]
      BY <1>3, SpendType DEF Rerun, IInv
    <2>4. kind \in {"apply", "drift", "testbed"}
      BY PipelineAssumption
    <2> QED BY <1>3, <2>1, <2>2, <2>3, <2>4, EnterStep DEF Rerun
  <1>4. CASE Tamper
    <2>1. spent' \in [{"manual", "tamper", "fault"} -> Nat]
      BY <1>4, SpendType DEF Tamper, IInv
    <2>2. TypeOK'
      BY <1>4, <2>1 DEF IInv, TypeOK, Tamper, trunk, group
    <2> QED BY <1>4, <2>2 DEF IInv, Tamper, trunk, group, OneRun, History, Pinned, Guarded
  <1>5. ASSUME NEW kind \in {"drift", "testbed"}, Schedule(kind)
        PROVE  IInv'
    <2>1. head \in Commit /\ head <= head
      BY HeadType DEF IInv, Commit
    <2>2. spent' \in [{"manual", "tamper", "fault"} -> Nat]
      BY <1>5 DEF Schedule, IInv, TypeOK
    <2> QED BY <1>5, <2>1, <2>2, EnterStep DEF Schedule
  <1> QED BY <1>1, <1>2, <1>3, <1>4, <1>5 DEF Trigger
-----------------------------------------------------------------------------
\* Steps of the run that holds the group.

\* The variables of which a step of a run need only keep the type.
Ancillary ==
    /\ torn' \in BOOLEAN /\ churned' \in BOOLEAN /\ reported' \in BOOLEAN
    /\ skipped' \subseteq Commit
    /\ spent' \in [{"manual", "tamper", "fault"} -> Nat]
    /\ UNCHANGED <<trunk, launched>>

LEMMA MoveStep ==
    ASSUME IInv, NEW run \in running, NEW next \in RunRecord, next.sha = run.sha,
           Move(run, next), UNCHANGED live, Ancillary,
           next.stage = "mutate" => live <= config[run.sha]
    PROVE  IInv'
  <1>1. OneRun' /\ running' = {next} /\ pending' = pending /\ running' \subseteq RunRecord
    BY MoveGroup DEF IInv
  <1>2. TypeOK'
    BY <1>1 DEF IInv, TypeOK, Ancillary, trunk
  <1> QED BY <1>1, <1>2 DEF IInv, History, Pinned, Guarded, Ancillary, trunk

LEMMA ExitStep ==
    ASSUME IInv, NEW run \in running, Exit(run), live' \in Commit, live' <= config[head], Ancillary
    PROVE  IInv'
  <1>1. OneRun' /\ running' = pending /\ pending' = {} /\ pending \subseteq RunRecord
    BY ExitGroup DEF IInv, TypeOK
  <1>2. TypeOK'
    BY <1>1 DEF IInv, TypeOK, Ancillary, trunk
  <1> QED BY <1>1, <1>2 DEF IInv, History, Pinned, Guarded, Ancillary, trunk

LEMMA LiveFact ==
    ASSUME IInv
    PROVE  live \in Commit /\ live <= config[head]
  BY DEF IInv, TypeOK, History

\* After a leg the run moves on to a stage that does not mutate, or is over.
LEMMA AfterLegStep ==
    ASSUME IInv, NEW run \in running, AfterLeg(run), UNCHANGED live, Ancillary
    PROVE  IInv'
  <1>1. run \in RunRecord
    BY DEF IInv, TypeOK
  <1>2. CASE Exit(run)
    BY <1>2, ExitStep, LiveFact
  <1>3. CASE run.kind # "drift"
    <2>1. run.leg \in {1, 2, 3}
      BY <1>1 DEF RunRecord
    <2>2. \E s \in {"plan", "revert", "cleanup"}, l \in 1 .. 3 :
             \/ Move(run, [run EXCEPT !.stage = s, !.leg = l])
             \/ Move(run, [run EXCEPT !.stage = s])
      BY <1>3, <2>1 DEF AfterLeg
    <2>3. PICK s \in {"plan", "revert", "cleanup"}, l \in 1 .. 3 :
             \/ Move(run, [run EXCEPT !.stage = s, !.leg = l])
             \/ Move(run, [run EXCEPT !.stage = s])
      BY <2>2
    <2>4. s \in Stage /\ s # "mutate"
      BY DEF Stage
    <2>5. PICK next \in RunRecord :
             Move(run, next) /\ next.sha = run.sha /\ next.stage = s
      <3>1. /\ [run EXCEPT !.stage = s, !.leg = l] \in RunRecord
            /\ [run EXCEPT !.stage = s, !.leg = l].sha = run.sha
            /\ [run EXCEPT !.stage = s, !.leg = l].stage = s
        BY <1>1, <2>4 DEF RunRecord
      <3>2. /\ [run EXCEPT !.stage = s] \in RunRecord
            /\ [run EXCEPT !.stage = s].sha = run.sha
            /\ [run EXCEPT !.stage = s].stage = s
        BY <1>1, <2>4 DEF RunRecord
      <3> QED BY <2>3, <3>1, <3>2
    <2> QED BY <2>4, <2>5, MoveStep
  <1> QED BY <1>2, <1>3 DEF AfterLeg

\* A run that sets its stage.
LEMMA StageStep ==
    ASSUME IInv, NEW run \in running, NEW s \in Stage, Move(run, [run EXCEPT !.stage = s]),
           UNCHANGED live, Ancillary,
           s = "mutate" => live <= config[run.sha]
    PROVE  IInv'
  <1>1. run \in RunRecord
    BY DEF IInv, TypeOK
  <1>2. /\ [run EXCEPT !.stage = s] \in RunRecord
        /\ [run EXCEPT !.stage = s].sha = run.sha
        /\ [run EXCEPT !.stage = s].stage = s
    BY <1>1 DEF RunRecord
  <1> QED BY <1>2, MoveStep

LEMMA RunStep ==
    ASSUME IInv, NEW run \in running, Step(run) \/ Lose(run)
    PROVE  IInv'
  <1>0. /\ run \in RunRecord
        /\ run.sha \in Commit
        /\ live \in Commit /\ live <= config[head]
        /\ {"guard", "mutate", "plan", "report", "revert", "cleanup"} \subseteq Stage
        /\ Diverges(run.sha) \in BOOLEAN /\ run.saw \in BOOLEAN
    BY LiveFact DEF IInv, TypeOK, RunRecord, Stage, Diverges
  <1>1. Ancillary
    <2>1. spent' \in [{"manual", "tamper", "fault"} -> Nat]
      <3>1. UNCHANGED spent \/ Spend("fault", MaxFault)
        BY DEF Step, Approve, Decline, Guard, Mutate, Plan, Report, LegFails, Induce, Revert, Cleanup, Patch, Lose
      <3> QED BY <3>1, SpendType DEF IInv, TypeOK
    <2>2. skipped' \subseteq Commit
      BY <1>0 DEF IInv, TypeOK, Step, Approve, Decline, Guard, Mutate, Plan, Report, LegFails, Induce,
                  Revert, Cleanup, Patch, Lose
    <2>3. torn' \in BOOLEAN /\ churned' \in BOOLEAN
      BY DEF IInv, TypeOK, Step, Approve, Decline, Guard, Mutate, Plan, Report, LegFails, Induce,
             Revert, Cleanup, Patch, Lose, org
    <2>4. reported' \in BOOLEAN
      BY <1>0 DEF IInv, TypeOK, Step, Approve, Decline, Guard, Mutate, Plan, Report, LegFails, Induce,
             Revert, Cleanup, Patch, Lose
    <2>5. UNCHANGED <<trunk, launched>>
      BY DEF Step, Approve, Decline, Guard, Mutate, Plan, Report, LegFails, Induce, Revert, Cleanup, Patch, Lose
    <2> QED BY <2>1, <2>2, <2>3, <2>4, <2>5 DEF Ancillary
  <1>2. CASE Approve(run)
    BY <1>0, <1>1, <1>2, StageStep DEF Approve, org
  <1>3. CASE Decline(run)
    BY <1>0, <1>1, <1>3, ExitStep DEF Decline, org
  <1>4. CASE Guard(run)
    <2>1. UNCHANGED live
      BY <1>4 DEF Guard, org
    <2>2. CASE run.sha = head /\ Move(run, [run EXCEPT !.stage = "mutate"])
      BY <1>0, <1>1, <2>1, <2>2, StageStep
    <2>3. CASE Exit(run)
      BY <1>0, <1>1, <2>1, <2>3, ExitStep
    <2> QED BY <1>4, <2>2, <2>3 DEF Guard
  <1>5. CASE Mutate(run)
    <2>1. live' = config[run.sha] /\ Exit(run)
      BY <1>5 DEF Mutate
    <2>2. config[run.sha] \in Commit /\ config[run.sha] <= config[head]
      <3>1. run.sha \in 0 .. head /\ head \in 0 .. head /\ run.sha <= head
        BY <1>0, HeadType DEF IInv, Pinned, Commit
      <3> QED BY <1>0, <3>1 DEF IInv, TypeOK, History
    <2> QED BY <1>1, <2>1, <2>2, ExitStep
  <1>6. CASE Plan(run)
    <2>1. /\ [run EXCEPT !.stage = "report", !.saw = Diverges(run.sha)] \in RunRecord
          /\ [run EXCEPT !.stage = "report", !.saw = Diverges(run.sha)].sha = run.sha
          /\ [run EXCEPT !.stage = "report", !.saw = Diverges(run.sha)].stage # "mutate"
      BY <1>0 DEF RunRecord
    <2> QED BY <1>1, <1>6, <2>1, MoveStep DEF Plan, org
  <1>7. CASE Report(run) \/ LegFails(run)
    BY <1>1, <1>7, AfterLegStep DEF Report, LegFails, org
  <1>8. CASE Induce(run) \/ Revert(run)
    BY <1>0, <1>1, <1>8, StageStep DEF Induce, Revert
  <1>9. CASE Cleanup(run) \/ Lose(run)
    BY <1>0, <1>1, <1>9, ExitStep DEF Cleanup, Lose
  <1> QED BY <1>2, <1>3, <1>4, <1>5, <1>6, <1>7, <1>8, <1>9 DEF Step

\* At any moment at most one run holds the group, live state is not ahead of
\* trunk, and a run past the guard is not behind it.
THEOREM PipelineInvariant == Spec => []IInv
  <1>1. Init => IInv
    <2> SUFFICES ASSUME Init PROVE IInv
      OBVIOUS
    <2>1. MaxMerge \in Nat /\ 0 \in Commit
      BY PipelineAssumption DEF Commit
    <2>2. TypeOK
      BY <2>1 DEF Init, TypeOK
    <2>3. History
      <3>1. 0 .. head = {0} /\ config[0] = 0
        BY <2>1 DEF Init
      <3> QED BY <3>1 DEF Init, History
    <2> QED BY <2>2, <2>3 DEF Init, IInv, OneRun, Pinned, Guarded
  <1>2. IInv /\ [Next]_vars => IInv'
    <2> SUFFICES ASSUME IInv, [Next]_vars PROVE IInv'
      OBVIOUS
    <2>1. CASE Trigger
      BY <2>1, TriggerStep
    <2>2. ASSUME NEW run \in running, Step(run) \/ Lose(run)
          PROVE  IInv'
      BY <2>2, RunStep
    <2>3. CASE UNCHANGED vars
      BY <2>3 DEF vars, IInv, TypeOK, OneRun, History, Pinned, Guarded
    <2> QED BY <2>1, <2>2, <2>3 DEF Next
  <1> QED BY <1>1, <1>2, PTL DEF Spec

\* The supersession guard does its work: whatever is queued, cancelled,
\* approved late or re-run, live state never goes back to an older config.
THEOREM NeverRollsBackCorrect == Spec => NeverRollsBack
  <1>1. IInv /\ [Next]_vars => [live' >= live]_vars
    <2> SUFFICES ASSUME IInv, Next PROVE live' >= live
      OBVIOUS
    <2>1. live >= live
      BY DEF IInv, TypeOK, Commit
    <2>2. CASE Trigger
      BY <2>1, <2>2 DEF Trigger, MergeConfig, MergeOther, Dispatch, Rerun, Schedule, Tamper, org
    <2>3. ASSUME NEW run \in running, Mutate(run)
          PROVE  live' >= live
      BY <2>3 DEF Mutate, IInv, Guarded
    <2>4. ASSUME NEW run \in running, Step(run) \/ Lose(run), ~ Mutate(run)
          PROVE  live' >= live
      BY <2>1, <2>4 DEF Step, Approve, Decline, Guard, Plan, Report, LegFails, Induce, Revert,
                        Cleanup, Patch, Lose, org
    <2> QED BY <2>2, <2>3, <2>4 DEF Next
  <1> QED BY <1>1, PipelineInvariant, PTL DEF Spec, NeverRollsBack

-----------------------------------------------------------------------------
\* What a scan saw.

Scan(run) == run.kind # "apply"

\* Only a scan plans and reports, and a run that waits for the group has done neither.
Kinds ==
    /\ \A run \in running \cup pending :
          run.stage \in {"induce", "plan", "report", "revert", "cleanup"} => Scan(run)
    /\ \A run \in pending : run.stage # "report"

\* Nothing that a scan compares with is behind live state: it came after the run that
\* holds the group, or holds it itself.
Current ==
    /\ \A run \in running \cup pending : Scan(run) => live <= config[run.sha]
    /\ \A run \in running, next \in pending : Scan(next) => run.sha <= next.sha

\* A divergence that is about to be reported is still there.
Seen == \A run \in running : run.stage = "report" /\ run.saw => Diverges(head)

Watched == Kinds /\ Current /\ Seen

\* A scan that enters is of the tip of trunk, which live state is not ahead of.
LEMMA EnterWatched ==
    ASSUME IInv, Watched, NEW kind \in {"apply", "drift", "testbed"}, NEW sha \in Commit,
           kind # "apply" => sha = head,
           Enter(NewRun(kind, sha)), UNCHANGED <<trunk, org>>
    PROVE  Watched'
  <1> DEFINE run == NewRun(kind, sha)
  <1>1. /\ run.sha = sha /\ run.kind = kind /\ run.stage # "report"
        /\ run.stage \in {"induce", "plan", "report", "revert", "cleanup"} => Scan(run)
    BY DEF NewRun, Scan
  <1> HIDE DEF run
  <1>2. /\ running' \subseteq running \cup {run} /\ pending' \subseteq pending \cup {run}
        /\ running = {} \/ running' = running
        /\ running = {} => running' = {run} /\ pending' = {}
    <2>1. Enter(run)
      BY DEF run
    <2>2. QED
      BY <2>1 DEF Enter, IInv, OneRun
  <1>3. live' = live /\ head' = head /\ config' = config /\ \A n : Diverges(n)' <=> Diverges(n)
    BY DEF trunk, org, Diverges
  <1>4. Kinds'
    BY <1>1, <1>2 DEF Watched, Kinds
  <1>5. Current'
    <2>1. Scan(run) => live <= config[run.sha]
      BY <1>1 DEF Scan, IInv, History
    <2>2. \A q \in running : Scan(run) => q.sha <= run.sha
      BY <1>1 DEF Scan, IInv, Pinned
    <2>3. \A q \in running', p \in pending' : Scan(p) => q.sha <= p.sha
      BY <1>2, <2>2 DEF Watched, Current
    <2>4. QED
      BY <1>2, <1>3, <2>1, <2>3 DEF Watched, Current
  <1>6. Seen'
    <2>1. \A q \in running' : q.stage = "report" => q \in running
      BY <1>1, <1>2
    <2>2. QED
      BY <1>3, <2>1 DEF Watched, Seen, Diverges
  <1>7. QED
    BY <1>4, <1>5, <1>6 DEF Watched

\* A new commit is of no older config than the one before it.
LEMMA MergeWatched ==
    ASSUME IInv, Watched, MergeConfig \/ MergeOther
    PROVE  Watched'
  <1>1. /\ head < MaxMerge /\ head' = head + 1
        /\ \E c \in {config[head], head + 1} : config' = [config EXCEPT ![head + 1] = c]
        /\ live' = live /\ torn' = torn /\ churned' = churned /\ UNCHANGED org
    BY DEF MergeConfig, MergeOther, org
  <1>2. IInv' /\ History'
    BY MergeStep DEF IInv
  <1>3. \A n \in 0 .. head : config'[n] = config[n]
    BY <1>1, GrowStep
  <1>4. head \in Nat /\ live \in Nat /\ head \in 0 .. head /\ head \in 0 .. head' /\ head' \in 0 .. head'
        /\ config[head] \in Nat /\ config'[head'] \in Nat /\ config'[head] = config[head]
    <2>1. head \in Nat /\ head' = head + 1
      BY <1>1, HeadType DEF IInv
    <2>2. head \in Commit /\ head' \in Commit
      BY <1>2 DEF IInv, TypeOK
    <2>3. QED
      BY <1>2, <1>3, <2>1, <2>2 DEF IInv, TypeOK, Commit
  <1> DEFINE run == NewRun("apply", head + 1)
  <1>5. ~ Scan(run) /\ run.stage \notin {"induce", "plan", "report", "revert", "cleanup"}
    BY DEF NewRun, Scan
  <1> HIDE DEF run
  <1>6. /\ running' \subseteq running \cup {run} /\ pending' \subseteq pending \cup {run}
        /\ running = {} \/ running' = running
        /\ running = {} => pending' = {}
    <2>1. CASE MergeConfig
      <3>1. Enter(run)
        BY <2>1 DEF MergeConfig, run
      <3>2. QED
        BY <3>1 DEF Enter, IInv, OneRun
    <2>2. CASE MergeOther
      BY <2>2 DEF MergeOther, group, IInv, OneRun
    <2>3. QED
      BY <2>1, <2>2
  <1>7. Kinds'
    BY <1>5, <1>6 DEF Watched, Kinds
  <1>8. Current'
    <2>1. \A q \in running \cup pending : q.sha \in 0 .. head
      BY <1>4 DEF IInv, Pinned, TypeOK, RunRecord, Commit
    <2>2. \A q \in running \cup pending : config'[q.sha] = config[q.sha]
      BY <1>3, <2>1
    <2>3. QED
      BY <1>1, <1>5, <1>6, <2>2 DEF Watched, Current
  <1>9. Seen'
    <2>1. \A q \in running' : q.stage = "report" => q \in running
      BY <1>5, <1>6
    <2>2. Diverges(head) => Diverges(head)'
      <3>1. config[head] <= config'[head']
        BY <1>1, <1>2, <1>4 DEF History
      <3>2. live <= config[head]
        BY DEF IInv, History
      <3>3. live # config[head] => live' # config'[head']
        BY <1>1, <1>4, <3>1, <3>2
      <3>4. QED
        BY <1>1, <3>3 DEF Diverges
    <2>3. QED
      BY <2>1, <2>2 DEF Watched, Seen
  <1>10. QED
    BY <1>7, <1>8, <1>9 DEF Watched

LEMMA TriggerWatched ==
    ASSUME Reruns \subseteq {"apply"}, IInv, Watched, Trigger
    PROVE  Watched'
  <1>1. CASE MergeConfig \/ MergeOther
    BY <1>1, MergeWatched
  <1>2. CASE Dispatch
    BY <1>2, HeadType, EnterWatched DEF Dispatch, IInv, Commit
  <1>3. ASSUME NEW kind \in Reruns, Rerun(kind)
        PROVE  Watched'
    <2>1. kind = "apply"
      OBVIOUS
    <2>2. PICK n \in launched : Enter(NewRun("apply", n))
      BY <1>3, <2>1 DEF Rerun
    <2>3. n \in Commit
      BY DEF IInv, TypeOK
    <2>4. QED
      BY <1>3, <2>2, <2>3, EnterWatched DEF Rerun
  <1>4. CASE Tamper
    <2>1. /\ running' = running /\ pending' = pending /\ live' = live /\ config' = config
          /\ head' = head /\ torn' = TRUE
      BY <1>4 DEF Tamper, group, trunk
    <2>2. QED
      BY <2>1 DEF Watched, Kinds, Current, Seen, Diverges
  <1>5. ASSUME NEW kind \in {"drift", "testbed"}, Schedule(kind)
        PROVE  Watched'
    BY <1>5, HeadType, EnterWatched DEF Schedule, IInv, Commit
  <1>6. QED
    BY <1>1, <1>2, <1>3, <1>4, <1>5 DEF Trigger

\* The run that holds the group goes on.
LEMMA MoveWatched ==
    ASSUME IInv, Watched, NEW run \in running, NEW next \in RunRecord, Move(run, next),
           UNCHANGED trunk, UNCHANGED live, next.sha = run.sha, next.kind = run.kind,
           next.stage \in {"induce", "plan", "report", "revert", "cleanup"} => Scan(run),
           next.stage = "report" /\ next.saw => Diverges(head)'
    PROVE  Watched'
  <1>1. running' = {next} /\ pending' = pending /\ config' = config /\ head' = head
    BY MoveGroup DEF IInv, trunk
  <1>2. Kinds'
    BY <1>1 DEF Watched, Kinds, Scan
  <1>3. Current'
    BY <1>1 DEF Watched, Current, Scan
  <1>4. Seen'
    BY <1>1 DEF Seen
  <1>5. QED
    BY <1>2, <1>3, <1>4 DEF Watched

\* It ends, and the one that waited has not looked yet.
LEMMA ExitWatched ==
    ASSUME IInv, Watched, NEW run \in running, Exit(run), UNCHANGED trunk,
           \A next \in pending : Scan(next) => live' <= config[next.sha]
    PROVE  Watched'
  <1>1. running' = pending /\ pending' = {} /\ config' = config
    BY ExitGroup DEF IInv, trunk
  <1>2. QED
    BY <1>1 DEF Watched, Kinds, Current, Seen

LEMMA AfterLegWatched ==
    ASSUME IInv, Watched, NEW run \in running, run.stage \in {"plan", "report"}, AfterLeg(run),
           UNCHANGED trunk, UNCHANGED live
    PROVE  Watched'
  <1>1. run \in RunRecord /\ Scan(run)
    BY DEF IInv, TypeOK, Watched, Kinds
  <1>2. CASE Exit(run)
    <2>1. \A next \in pending : Scan(next) => live' <= config[next.sha]
      BY DEF Watched, Current
    <2>2. QED
      BY <1>2, <2>1, ExitWatched
  <1>3. CASE ~ Exit(run)
    <2>1. run.leg \in {1, 2, 3}
      BY <1>1 DEF RunRecord
    <2>2. PICK s \in {"plan", "revert", "cleanup"}, l \in 1 .. 3 :
             \/ Move(run, [run EXCEPT !.stage = s, !.leg = l])
             \/ Move(run, [run EXCEPT !.stage = s])
      BY <1>3, <2>1 DEF AfterLeg
    <2>3. PICK next \in RunRecord : /\ Move(run, next) /\ next.sha = run.sha
                                    /\ next.stage = s /\ next.kind = run.kind
      <3>1. /\ [run EXCEPT !.stage = s, !.leg = l] \in RunRecord
            /\ [run EXCEPT !.stage = s, !.leg = l].sha = run.sha
            /\ [run EXCEPT !.stage = s, !.leg = l].stage = s
            /\ [run EXCEPT !.stage = s, !.leg = l].kind = run.kind
        BY <1>1 DEF RunRecord, Stage
      <3>2. /\ [run EXCEPT !.stage = s] \in RunRecord
            /\ [run EXCEPT !.stage = s].sha = run.sha
            /\ [run EXCEPT !.stage = s].stage = s
            /\ [run EXCEPT !.stage = s].kind = run.kind
        BY <1>1 DEF RunRecord, Stage
      <3>3. QED
        BY <2>2, <3>1, <3>2
    <2>4. QED
      BY <1>1, <2>3, MoveWatched
  <1>4. QED
    BY <1>2, <1>3

LEMMA StageWatched ==
    ASSUME IInv, Watched, NEW run \in running, NEW s \in Stage \ {"report"},
           Move(run, [run EXCEPT !.stage = s]), UNCHANGED trunk, UNCHANGED live,
           s \in {"induce", "plan", "revert", "cleanup"} => Scan(run)
    PROVE  Watched'
  <1>1. run \in RunRecord
    BY DEF IInv, TypeOK
  <1>2. PICK next : next = [run EXCEPT !.stage = s]
    OBVIOUS
  <1>3. next \in RunRecord /\ next.sha = run.sha /\ next.stage = s /\ next.kind = run.kind
    BY <1>1, <1>2 DEF RunRecord
  <1>4. QED
    BY <1>2, <1>3, MoveWatched

LEMMA RunWatched ==
    ASSUME IInv, Watched, NEW run \in running, Step(run) \/ Lose(run)
    PROVE  Watched'
  <1>1. /\ run \in RunRecord /\ run.sha \in Commit
        /\ {"guard", "mutate", "plan", "report", "revert", "cleanup"} \subseteq Stage
        /\ Diverges(run.sha) \in BOOLEAN
    BY DEF IInv, TypeOK, RunRecord, Stage, Diverges
  <1>2. UNCHANGED trunk
    BY DEF Step, Approve, Decline, Guard, Mutate, Plan, Report, LegFails, Induce, Revert,
       Cleanup, Lose, trunk
  <1>3. ~ Mutate(run) => UNCHANGED live
    BY DEF Step, Approve, Decline, Guard, Plan, Report, LegFails, Induce, Revert, Cleanup,
       Patch, Lose, org
  <1>4. live' = live => \A next \in pending : Scan(next) => live' <= config[next.sha]
    BY DEF Watched, Current
  <1>5. CASE Mutate(run)
    <2>1. live' = config[run.sha] /\ Exit(run)
      BY <1>5 DEF Mutate
    <2>2. ASSUME NEW next \in pending, Scan(next)
          PROVE  config[run.sha] <= config[next.sha]
      <3>1. run.sha \in 0 .. head /\ next.sha \in 0 .. head
        BY <1>1, HeadType DEF IInv, Pinned, TypeOK, RunRecord, Commit
      <3>2. run.sha <= next.sha
        BY <2>2 DEF Watched, Current
      <3>3. QED
        BY <3>1, <3>2 DEF IInv, History
    <2>3. QED
      BY <1>2, <2>1, <2>2, ExitWatched
  <1>6. CASE Exit(run) /\ ~ Mutate(run)
    BY <1>2, <1>3, <1>4, <1>6, ExitWatched
  <1>7. CASE Approve(run) \/ (Guard(run) /\ ~ Exit(run))
    <2>1. PICK s \in {"guard", "mutate"} : Move(run, [run EXCEPT !.stage = s])
      BY <1>7 DEF Approve, Guard
    <2>2. UNCHANGED live
      BY <1>7 DEF Approve, Guard, org
    <2>3. QED
      BY <1>1, <1>2, <2>1, <2>2, StageWatched
  <1>8. CASE Plan(run)
    <2>1. Scan(run) /\ UNCHANGED <<live, torn, churned>>
      BY <1>8 DEF Plan, Watched, Kinds, org
    <2>2. PICK next : next = [run EXCEPT !.stage = "report", !.saw = Diverges(run.sha)]
      OBVIOUS
    <2>3. /\ next \in RunRecord /\ next.sha = run.sha /\ next.kind = run.kind
          /\ next.saw = Diverges(run.sha) /\ next.stage = "report"
      BY <1>1, <2>2 DEF RunRecord
    <2>4. Diverges(run.sha) => Diverges(head)
      <3>1. run.sha \in 0 .. head /\ head \in 0 .. head /\ run.sha <= head
        BY <1>1, HeadType DEF IInv, Pinned, Commit
      <3>2. config[run.sha] <= config[head] /\ live <= config[run.sha]
        BY <2>1, <3>1 DEF IInv, History, Watched, Current
      <3>3. live \in Nat /\ config[run.sha] \in Nat /\ config[head] \in Nat
        BY <1>1 DEF IInv, TypeOK, Commit
      <3>4. QED
        BY <3>2, <3>3 DEF Diverges
    <2>5. Diverges(head)' <=> Diverges(head)
      BY <1>2, <2>1 DEF Diverges, trunk
    <2>6. QED
      BY <1>2, <1>8, <2>1, <2>2, <2>3, <2>4, <2>5, MoveWatched DEF Plan
  <1>9. CASE Report(run) \/ LegFails(run)
    <2>1. UNCHANGED live /\ AfterLeg(run) /\ run.stage \in {"plan", "report"}
      BY <1>9 DEF Report, LegFails, org
    <2>2. QED
      BY <1>2, <2>1, AfterLegWatched
  <1>10. CASE Induce(run) \/ Revert(run)
    <2>1. /\ Scan(run) /\ UNCHANGED live /\ Move(run, [run EXCEPT !.stage = "plan"])
      BY <1>10 DEF Induce, Revert, Watched, Kinds
    <2>2. QED
      BY <1>1, <1>2, <2>1, StageWatched
  <1>11. Exit(run) \/ ~ (Decline(run) \/ Cleanup(run) \/ Lose(run))
    BY DEF Decline, Cleanup, Lose
  <1>12. QED
    BY <1>5, <1>6, <1>7, <1>8, <1>9, <1>10, <1>11 DEF Step

\* Where nobody re-runs an old scan: whatever is merged, applied, torn or edited while
\* scans wait and run, the issues are told of a divergence only when there is one.
THEOREM NoPhantomDriftCorrect ==
    ASSUME Reruns \subseteq {"apply"}
    PROVE  Spec => NoPhantomDrift
  <1>1. Init => Watched
    BY DEF Init, Watched, Kinds, Current, Seen
  <1>2. IInv /\ Watched /\ [Next]_vars => Watched'
    <2>1. SUFFICES ASSUME IInv, Watched, [Next]_vars PROVE Watched'
      OBVIOUS
    <2>2. CASE UNCHANGED vars
      BY <2>1, <2>2 DEF vars, Watched, Kinds, Current, Seen, Diverges
    <2>3. QED
      BY <2>1, <2>2, TriggerWatched, RunWatched DEF Next
  <1>3. IInv /\ Watched /\ [Next]_vars => [~ reported /\ reported' => Diverges(head)]_vars
    <2>1. SUFFICES ASSUME IInv, Watched, Next, ~ reported, reported'
                   PROVE  Diverges(head)
      OBVIOUS
    <2>2. PICK run \in running : Report(run)
      BY <2>1 DEF Next, Trigger, MergeConfig, MergeOther, Dispatch, Rerun, Schedule, Tamper,
         Step, Approve, Decline, Guard, Mutate, Plan, LegFails, Induce, Revert, Cleanup, Lose
    <2>3. run.stage = "report" /\ run.saw
      BY <2>1, <2>2 DEF Report
    <2>4. QED
      BY <2>1, <2>3 DEF Watched, Seen
  <1>4. QED
    BY <1>1, <1>2, <1>3, PipelineInvariant, PTL DEF Spec, NoPhantomDrift

\* The types of the pipeline's state, and with them that its group holds runs only of
\* the kinds and stages there are.
THEOREM PipelineTypeCorrect == Spec => []TypeOK
  <1>1. IInv => TypeOK
    BY DEF IInv
  <1>2. QED
    BY <1>1, PipelineInvariant, PTL
=============================================================================
