------------------------- MODULE DriftLifecycleProofs -------------------------
(***************************************************************************)
(* Machine-checked proofs about DriftLifecycle and its refinement.         *)
(***************************************************************************)
EXTENDS DriftLifecycleRefinement, TLAPS

\* The members of a population are listed issues.
LEMMA PopulationSubset ==
    ASSUME NEW leg \in Leg, NEW issues, NEW unresolved
    PROVE  Population(leg, issues, unresolved) \subseteq issues
  BY DEF Population, Leg

\* An action of ReconcileLeg, spelled out by its kind.
LEMMA ReconcileLegMeaning ==
    ASSUME NEW leg, NEW records, NEW expected, NEW issues,
           NEW a \in ReconcileLeg(leg, records, expected, issues)
    PROVE  /\ a = [kind |-> a.kind, leg |-> leg, fp |-> a.fp, number |-> a.number]
           /\ \/ /\ a.kind = "close"
                 /\ a.fp \notin records \ expected
                 /\ \E e \in issues : e.fp = a.fp /\ e.number = a.number /\ e.fp # NoMarker
              \/ /\ a.kind = "update"
                 /\ a.fp \in records \ expected
                 /\ \E e \in issues : e.fp = a.fp /\ e.number = a.number /\ e.fp # NoMarker
              \/ /\ a.kind = "open"
                 /\ a.fp \in records \ expected
                 /\ a.number = 0
                 /\ \A c \in Current(issues) : c.fp # a.fp
  <1>1. CASE \E i \in {c \in Current(issues) : c.fp \notin records \ expected} :
               a = [kind |-> "close", leg |-> leg, fp |-> i.fp, number |-> i.number]
    BY <1>1 DEF Current
  <1>2. CASE \E i \in {c \in Current(issues) : c.fp \in records \ expected} :
               a = [kind |-> "update", leg |-> leg, fp |-> i.fp, number |-> i.number]
    BY <1>2 DEF Current
  <1>3. CASE \E f \in {d \in records \ expected : \A c \in Current(issues) : c.fp # d} :
               a = [kind |-> "open", leg |-> leg, fp |-> f, number |-> 0]
    BY <1>3
  <1> QED BY <1>1, <1>2, <1>3 DEF ReconcileLeg

\* Actions on well-typed listings are well typed.
LEMMA ReconcileType ==
    ASSUME NEW legs \in SUBSET Leg, NEW records \in SUBSET Fingerprint, NEW expected,
           NEW unresolved, NEW issues \in SUBSET ListedIssue(Number)
    PROVE  ReconcilePopulations(legs, records, expected, unresolved, issues)
              \subseteq IssueAction(Number)
  <1> SUFFICES ASSUME NEW leg \in legs,
                      NEW a \in ReconcileLeg(leg, records \cap FingerprintsOf(leg), expected,
                                             Population(leg, issues, unresolved))
               PROVE  a \in IssueAction(Number)
    BY DEF ReconcilePopulations
  <1>1. Population(leg, issues, unresolved) \subseteq ListedIssue(Number)
    BY PopulationSubset
  <1>2. a = [kind |-> a.kind, leg |-> leg, fp |-> a.fp, number |-> a.number]
    BY ReconcileLegMeaning
  <1>3. a.kind \in {"close", "open", "update"}
    BY ReconcileLegMeaning
  <1>4. a.fp \in Fingerprint /\ a.number \in Number \cup {0}
    BY <1>1, ReconcileLegMeaning DEF ListedIssue
  <1> QED BY <1>2, <1>3, <1>4 DEF IssueAction

-----------------------------------------------------------------------------
\* Type correctness.

LEMMA LeaveType ==
    ASSUME TypeOK, NEW r \in Run, Leave(r), spent' \in [{"live", "fault", "human", "edit"} -> Nat]
    PROVE  TypeOK'
  <1>1. Unread \in [Fingerprint -> Verdict]
    BY DEF Unread, Verdict
  <1> QED BY <1>1 DEF TypeOK, Leave, live

LEMMA SpendType ==
    ASSUME TypeOK, NEW b \in {"live", "fault", "human", "edit"}, NEW max,
           Spend(b, max) \/ Free
    PROVE  spent' \in [{"live", "fault", "human", "edit"} -> Nat]
  BY DEF TypeOK, Spend, Free

\* What the legs read are verdicts.
LEMMA VerdictType ==
    ASSUME TypeOK, NEW r \in Run
    PROVE  /\ \A leg \in Leg : WithLeg(r, leg) \in [Fingerprint -> Verdict]
           /\ \A unreadable : WithRows(r, unreadable) \in [Fingerprint -> Verdict]
  <1>1. \A f \in Fingerprint : found[r][f] \in Verdict
    BY DEF TypeOK
  <1>2. \A u : \A f \in Fingerprint : RowVerdict(r, f, u) \in Verdict /\ Reading(f) \in Verdict
    BY DEF RowVerdict, Reading, Verdict
  <1> QED BY <1>1, <1>2 DEF WithLeg, WithRows

\* A run's reading steps.
LEMMA ReadingType ==
    ASSUME TypeOK, NEW r \in Run, RunPlan(r) \/ ListIssues(r) \/ Sweep(r) \/ Assert(r)
    PROVE  TypeOK'
  <1>1. CASE RunPlan(r)
    <2>1. CASE Spend("fault", MaxFault) /\ Leave(r)
      BY <2>1, SpendType, LeaveType
    <2>2. CASE ~ (Spend("fault", MaxFault) /\ Leave(r))
      <3>1. found' = [found EXCEPT ![r] = WithLeg(r, "plan")] /\ ran' = [ran EXCEPT ![r] = {"plan"}]
        BY <1>1, <2>2 DEF RunPlan
      <3>2. found' \in [Run -> [Fingerprint -> Verdict]] /\ ran' \in [Run -> SUBSET Leg]
        BY <3>1, VerdictType DEF TypeOK, Leg
      <3> QED BY <1>1, <2>2, <3>2 DEF TypeOK, RunPlan, Free, live
    <2> QED BY <2>1, <2>2
  <1>2. CASE ListIssues(r)
    <2>1. {[number |-> n, fp |-> issue[n].fp, labels |-> issue[n].labels] :
              n \in {m \in Number : Visible(m)}} \subseteq ListedIssue(Number)
      BY DEF TypeOK, Issue, ListedIssue
    <2> QED BY <1>2, <2>1 DEF TypeOK, ListIssues, live
  <1>3. CASE Sweep(r)
    <2>1. spent' \in [{"live", "fault", "human", "edit"} -> Nat]
      BY <1>3, SpendType DEF Sweep
    <2>2. found' \in [Run -> [Fingerprint -> Verdict]] /\ ran' \in [Run -> SUBSET Leg]
      <3>1. "inventory" \in Leg /\ WithLeg(r, "inventory") \in [Fingerprint -> Verdict]
        BY VerdictType DEF Leg
      <3>2. \/ found' = [found EXCEPT ![r] = WithLeg(r, "inventory")]
               /\ ran' = [ran EXCEPT ![r] = @ \cup {"inventory"}]
            \/ UNCHANGED <<found, ran>>
        BY <1>3 DEF Sweep
      <3> QED BY <3>1, <3>2 DEF TypeOK
    <2> QED BY <1>3, <2>1, <2>2 DEF TypeOK, Sweep, live
  <1>4. CASE Assert(r)
    <2>1. spent' \in [{"live", "fault", "human", "edit"} -> Nat]
      BY <1>4, SpendType DEF Assert
    <2>2. found' \in [Run -> [Fingerprint -> Verdict]] /\ ran' \in [Run -> SUBSET Leg]
      <3>1. "control" \in Leg
        BY DEF Leg
      <3>2. \/ \E u : /\ found' = [found EXCEPT ![r] = WithRows(r, u)]
                     /\ ran' = [ran EXCEPT ![r] = @ \cup {"control"}]
            \/ UNCHANGED <<found, ran>>
        BY <1>4 DEF Assert
      <3>3. CASE UNCHANGED <<found, ran>>
        BY <3>3 DEF TypeOK
      <3>4. ASSUME NEW u, found' = [found EXCEPT ![r] = WithRows(r, u)],
                   ran' = [ran EXCEPT ![r] = @ \cup {"control"}]
            PROVE  found' \in [Run -> [Fingerprint -> Verdict]] /\ ran' \in [Run -> SUBSET Leg]
        BY <3>1, <3>4, VerdictType DEF TypeOK
      <3> QED BY <3>2, <3>3, <3>4
    <2>3. Decide(ran'[r], found'[r], checkout[r], listed[r]) \subseteq IssueAction(Number)
      BY <2>2, ReconcileType DEF TypeOK, Decide
    <2>4. todo' \in [Run -> SUBSET IssueAction(Number)]
      BY <1>4, <2>3 DEF TypeOK, Assert
    <2> QED BY <1>4, <2>1, <2>2, <2>4 DEF TypeOK, Assert, live
  <1> QED BY <1>1, <1>2, <1>3, <1>4

\* What a run takes up is what it has to do.
LEMMA TurnFact ==
    ASSUME NEW r, NEW kind, NEW a \in Turn(r, kind)
    PROVE  a \in todo[r] /\ a.kind = kind /\ pc[r] = "execute" /\ half[r] = {}
  BY DEF Turn, Foremost

\* An update of one field of an issue leaves an issue.
LEMMA FieldType ==
    ASSUME TypeOK, NEW n, NEW fp \in Fingerprint \cup {NoMarker}, NEW s \in {"open", "closed"},
           \/ issue' = [issue EXCEPT ![n].fp = fp]
           \/ issue' = [issue EXCEPT ![n].state = s]
           \/ issue' = [issue EXCEPT ![n].told = TRUE]
           \/ issue' = [issue EXCEPT ![n].state = "open", ![n].told = FALSE]
    PROVE  issue' \in [Number -> Issue]
  <1>1. issue \in [Number -> Issue]
    BY DEF TypeOK
  <1>2. CASE issue' = [issue EXCEPT ![n].fp = fp]
    BY <1>1, <1>2 DEF Issue
  <1>3. CASE issue' = [issue EXCEPT ![n].state = s]
    BY <1>1, <1>3 DEF Issue
  <1>4. CASE issue' = [issue EXCEPT ![n].told = TRUE]
    BY <1>1, <1>4 DEF Issue
  <1>5. CASE issue' = [issue EXCEPT ![n].state = "open", ![n].told = FALSE]
    BY <1>1, <1>5 DEF Issue
  <1> QED BY <1>2, <1>3, <1>4, <1>5

\* A run's writing steps.
LEMMA ExecuteType ==
    ASSUME TypeOK, NEW r \in Run, Execute(r)
    PROVE  TypeOK'
  <1>0. /\ \A k : \A a \in Turn(r, k) : a \in IssueAction(Number)
        /\ \A a \in half[r] : a \in IssueAction(Number)
    BY TurnFact DEF TypeOK
  <1>1. CASE CreateIssue(r)
    <2>1. \A leg \in Leg : LabelsOf(leg) \subseteq Label
      BY DEF LabelsOf, Label, Leg
    <2>2. \A a \in IssueAction(Number) :
             [state |-> "open", fp |-> a.fp, labels |-> LabelsOf(a.leg), told |-> FALSE] \in Issue
      BY <2>1 DEF Issue, IssueAction
    <2>3. issue' \in [Number -> Issue]
      BY <1>0, <1>1, <2>2 DEF TypeOK, CreateIssue
    <2> QED BY <1>1, <2>3 DEF TypeOK, CreateIssue, live, reading
  <1>2. CASE RefreshIssue(r)
    <2>1. issue' \in [Number -> Issue]
      <3>1. PICK a \in Turn(r, "update") : issue' = [issue EXCEPT ![a.number].fp = a.fp]
        BY <1>2 DEF RefreshIssue
      <3>2. a.fp \in Fingerprint
        BY <1>0 DEF IssueAction
      <3> QED BY <3>1, <3>2, FieldType
    <2>2. half' \in [Run -> SUBSET IssueAction(Number)]
      BY <1>0, <1>2 DEF TypeOK, RefreshIssue
    <2> QED BY <1>2, <2>1, <2>2 DEF TypeOK, RefreshIssue, live, reading
  <1>3. CASE CommentRecurrence(r)
    BY <1>3 DEF TypeOK, CommentRecurrence, live, reading
  <1>4. CASE CommentResolution(r)
    <2>1. issue' \in [Number -> Issue]
      <3>1. PICK a \in Turn(r, "close") : issue' = [issue EXCEPT ![a.number].told = TRUE]
        BY <1>4 DEF CommentResolution
      <3> QED BY <3>1, FieldType
    <2>2. half' \in [Run -> SUBSET IssueAction(Number)]
      BY <1>0, <1>4 DEF TypeOK, CommentResolution
    <2> QED BY <1>4, <2>1, <2>2 DEF TypeOK, CommentResolution, live, reading
  <1>5. CASE CloseIssue(r)
    <2>1. issue' \in [Number -> Issue]
      <3>1. PICK a \in half[r] : issue' = [issue EXCEPT ![a.number].state = "closed"]
        BY <1>5 DEF CloseIssue
      <3> QED BY <3>1, FieldType
    <2> QED BY <1>5, <2>1 DEF TypeOK, CloseIssue, live, reading
  <1>6. CASE Finish(r)
    <2>1. spent' \in [{"live", "fault", "human", "edit"} -> Nat]
      BY <1>6 DEF Finish, Free, TypeOK
    <2> QED BY <1>6, <2>1, LeaveType DEF Finish
  <1> QED BY <1>1, <1>2, <1>3, <1>4, <1>5, <1>6 DEF Execute

LEMMA SurroundingsType ==
    ASSUME TypeOK, Surroundings
    PROVE  TypeOK'
  <1>1. ASSUME NEW f \in Fingerprint, LiveChange(f)
        PROVE  TypeOK'
    <2>1. spent' \in [{"live", "fault", "human", "edit"} -> Nat]
      BY <1>1, SpendType DEF LiveChange
    <2> QED BY <1>1, <2>1 DEF TypeOK, LiveChange, reading
  <1>2. ASSUME NEW f \in Fingerprint, GovernanceEdit(f)
        PROVE  TypeOK'
    <2>1. spent' \in [{"live", "fault", "human", "edit"} -> Nat]
      BY <1>2, SpendType DEF GovernanceEdit
    <2> QED BY <1>2, <2>1 DEF TypeOK, GovernanceEdit, reading
  <1>3. ASSUME NEW n \in Number, HumanMove(n)
        PROVE  TypeOK'
    <2>1. spent' \in [{"live", "fault", "human", "edit"} -> Nat]
      BY <1>3, SpendType DEF HumanMove
    <2>2. issue' \in [Number -> Issue]
      <3>1. \/ issue' = [issue EXCEPT ![n].state = "closed"]
            \/ issue' = [issue EXCEPT ![n].state = "open", ![n].told = FALSE]
            \/ issue' = [issue EXCEPT ![n].fp = NoMarker]
        BY <1>3 DEF HumanMove
      <3> QED BY <3>1, FieldType
    <2> QED BY <1>3, <2>1, <2>2 DEF TypeOK, HumanMove, live, reading
  <1> QED BY <1>1, <1>2, <1>3 DEF Surroundings

\* The variables of the drift job keep their types, for any set of workflows,
\* divergences and bounds.
THEOREM TypeCorrect == Spec => []TypeOK
  <1>1. Init => TypeOK
    BY DEF Init, TypeOK, NoIssue, Issue, Unread, Verdict
  <1>2. TypeOK /\ [Next]_vars => TypeOK'
    <2> SUFFICES ASSUME TypeOK, [Next]_vars PROVE TypeOK'
      OBVIOUS
    <2>1. ASSUME NEW r \in Run, Start(r)
          PROVE  TypeOK'
      BY <2>1 DEF TypeOK, Start
    <2>2. ASSUME NEW r \in Run, Advance(r)
          PROVE  TypeOK'
      BY <2>2, ReadingType, ExecuteType DEF Advance
    <2>3. ASSUME NEW r \in Run, Abort(r)
          PROVE  TypeOK'
      BY <2>3, SpendType, LeaveType DEF Abort
    <2>4. CASE Surroundings
      BY <2>4, SurroundingsType
    <2>5. CASE UNCHANGED vars
      BY <2>5 DEF TypeOK, vars
    <2> QED BY <2>1, <2>2, <2>3, <2>4, <2>5 DEF Next
  <1> QED BY <1>1, <1>2, PTL DEF Spec

-----------------------------------------------------------------------------
\* The inductive invariant behind NoPhantomAction and DegradedUntouched.

\* The concurrency group lets one run in.
Exclusion == \A q, r \in Run : pc[q] # "idle" /\ pc[r] # "idle" => q = r

\* A run holds nothing it has not read or decided yet.
Resting ==
    \A r \in Run :
        /\ pc[r] # "execute" => todo[r] = {}
        /\ pc[r] \in {"idle", "plan"} => found[r] = Unread /\ ran[r] = {}

\* The history of the run in the group holds the present.
Seen ==
    (\E r \in Run : pc[r] # "idle") => diverged \subseteq drifting /\ Fingerprint \ diverged \subseteq settled

\* A verdict was true at some moment of the run.
Known ==
    \A r \in Run : \A f \in Fingerprint :
        /\ found[r][f] = "unread" <=> LegOf[f] \notin ran[r]
        /\ found[r][f] = "drift" => f \in drifting
        /\ found[r][f] = "clean" => f \in settled
        /\ found[r][f] = "unlisted" => f \notin checkout[r]
        /\ found[r][f] = "unresolved" => LegOf[f] = "control"

\* An issue with a marker has the labels its leg creates issues with.
Labelled ==
    \A n \in Number :
        issue[n].fp \in Fingerprint => issue[n].labels = LabelsOf(LegOf[issue[n].fp])

\* What was listed exists, and has the labels it was listed with.
Listed ==
    \A r \in Run : \A e \in listed[r] :
        /\ issue[e.number].state # "none"
        /\ issue[e.number].labels = e.labels
        /\ e.fp \in Fingerprint => e.labels = LabelsOf(LegOf[e.fp])

\* An action rests on a verdict of its own leg.
Planned ==
    \A r \in Run :
        /\ half[r] \subseteq todo[r]
        /\ \A a \in todo[r] :
              /\ a.leg = LegOf[a.fp]
              /\ found[r][a.fp] \notin {"unread", "unresolved"}
              /\ IF a.kind = "close"
                 THEN found[r][a.fp] # "drift" \/ a.fp \notin checkout[r]
                 ELSE found[r][a.fp] = "drift" /\ a.fp \in checkout[r]
              /\ a.kind # "open" =>
                    /\ a.number \in Number
                    /\ issue[a.number].state # "none"
                    /\ issue[a.number].labels = LabelsOf(a.leg)

IInv ==
    /\ TypeOK /\ Exclusion /\ Resting /\ Seen /\ Known
    /\ Labelled /\ Listed /\ Planned

\* No step but Start lets a run in.
LEMMA ExclusionStep ==
    ASSUME IInv, [Next]_vars
    PROVE  Exclusion'
  <1>1. ASSUME NEW r \in Run, Start(r)
        PROVE  Exclusion'
    BY <1>1 DEF IInv, TypeOK, Exclusion, Start
  <1>2. CASE \A q \in Run : pc'[q] # "idle" => pc[q] # "idle"
    BY <1>2 DEF IInv, Exclusion
  <1>3. ASSUME NEW r \in Run, Advance(r) \/ Abort(r)
        PROVE  \A q \in Run : pc'[q] # "idle" => pc[q] # "idle"
    <2>1. \/ UNCHANGED pc
          \/ pc[r] # "idle" /\ \E l : pc' = [pc EXCEPT ![r] = l]
      BY <1>3 DEF Advance, Execute, RunPlan, ListIssues, Sweep, Assert, CreateIssue, RefreshIssue,
                  CommentRecurrence, CommentResolution, CloseIssue, Finish, Leave, Abort
    <2> QED BY <2>1 DEF IInv, TypeOK
  <1>4. ASSUME Surroundings \/ UNCHANGED vars
        PROVE  UNCHANGED pc
    BY <1>4 DEF Surroundings, LiveChange, GovernanceEdit, HumanMove, vars
  <1> QED BY <1>1, <1>2, <1>3, <1>4 DEF Next

\* A history kept since the run began covers the present.
LEMMA SeenStep ==
    ASSUME IInv, [Next]_vars
    PROVE  Seen'
  <1>1. ASSUME NEW r \in Run, Start(r)
        PROVE  Seen'
    BY <1>1 DEF IInv, Seen, Start
  <1>2. ASSUME NEW f \in Fingerprint, LiveChange(f)
        PROVE  Seen'
    BY <1>2 DEF IInv, Seen, LiveChange
  <1>3. ASSUME NEW r \in Run, Advance(r) \/ Abort(r)
        PROVE  Seen'
    <2>1. UNCHANGED live
      BY <1>3 DEF Advance, Execute, RunPlan, ListIssues, Sweep, Assert, CreateIssue, RefreshIssue,
                  CommentRecurrence, CommentResolution, CloseIssue, Finish, Leave, Abort
    <2>2. pc[r] # "idle"
      BY <1>3, TurnFact DEF Advance, Execute, RunPlan, ListIssues, Sweep, Assert, CreateIssue,
                  RefreshIssue, CommentRecurrence, CommentResolution, CloseIssue, Finish, Abort,
                  IInv, Planned, Resting
    <2> QED BY <2>1, <2>2 DEF IInv, Seen, live
  <1>4. ASSUME NEW f \in Fingerprint, GovernanceEdit(f)
        PROVE  Seen'
    BY <1>4 DEF GovernanceEdit, IInv, Seen
  <1>5. ASSUME NEW n \in Number, HumanMove(n)
        PROVE  Seen'
    BY <1>5 DEF HumanMove, IInv, Seen, live
  <1>6. CASE UNCHANGED vars
    BY <1>6 DEF vars, IInv, Seen
  <1> QED BY <1>1, <1>2, <1>3, <1>4, <1>5, <1>6 DEF Next, Surroundings

\* Steps that let a run in, or end one.
LEMMA StartStep ==
    ASSUME IInv, NEW r \in Run, Start(r)
    PROVE  Resting' /\ Known' /\ Labelled' /\ Listed' /\ Planned'
  <1>1. \A q \in Run : found[q] = Unread /\ ran[q] = {} /\ todo[q] = {} /\ half[q] = {}
    BY DEF IInv, Resting, Planned, Start
  <1>2. \A q \in Run : todo'[q] = {} /\ half'[q] = {} /\ found'[q] = Unread /\ ran'[q] = {}
    BY <1>1 DEF Start
  <1>3. Known'
    BY <1>2, FingerprintAssumption DEF Known, Unread
  <1> QED BY <1>2, <1>3 DEF IInv, Resting, Labelled, Listed, Planned, Start

LEMMA LeaveStep ==
    ASSUME IInv, NEW r \in Run, Leave(r)
    PROVE  Resting' /\ Known' /\ Labelled' /\ Listed' /\ Planned'
  <1>1. \A q \in Run \ {r} :
           /\ pc'[q] = pc[q] /\ checkout'[q] = checkout[q] /\ found'[q] = found[q]
           /\ ran'[q] = ran[q] /\ listed'[q] = listed[q] /\ todo'[q] = todo[q]
           /\ half'[q] = half[q]
    BY DEF Leave, IInv, TypeOK
  <1>2. /\ found'[r] = Unread /\ ran'[r] = {} /\ listed'[r] = {} /\ todo'[r] = {}
        /\ half'[r] = {} /\ pc'[r] = "idle"
    BY DEF Leave, IInv, TypeOK
  <1>3. UNCHANGED <<issue, settled, drifting>>
    BY DEF Leave, live
  <1>4. Resting'
    BY <1>1, <1>2 DEF IInv, Resting
  <1>5. Known'
    <2>1. ASSUME NEW q \in Run, NEW f \in Fingerprint
          PROVE  Known!(q)!(f)'
      BY <1>1, <1>2, <1>3, FingerprintAssumption DEF IInv, Known, Unread
    <2> QED BY <2>1 DEF Known
  <1>6. Labelled' /\ Listed'
    BY <1>1, <1>2, <1>3 DEF IInv, Labelled, Listed
  <1>7. Planned'
    <2>1. ASSUME NEW q \in Run \ {r}
          PROVE  Planned!(q)'
      BY <1>1, <1>3, <2>1 DEF IInv, Planned
    <2>2. Planned!(r)'
      BY <1>2
    <2> QED BY <2>1, <2>2 DEF Planned
  <1> QED BY <1>4, <1>5, <1>6, <1>7

\* Steps of the surroundings that touch no issue and no run.
LEMMA OutsideStep ==
    ASSUME IInv, UNCHANGED <<issue, pc, checkout, found, ran, listed, todo, half>>,
           settled \subseteq settled', drifting \subseteq drifting'
    PROVE  Resting' /\ Known' /\ Labelled' /\ Listed' /\ Planned'
  BY DEF IInv, Resting, Known, Labelled, Listed, Planned

\* What a leg reads is in the history.
LEMMA ReadingSeen ==
    ASSUME IInv, NEW r \in Run, pc[r] # "idle", NEW f \in Fingerprint
    PROVE  /\ Reading(f) \in {"drift", "clean"}
           /\ Reading(f) = "drift" => f \in drifting
           /\ Reading(f) = "clean" => f \in settled
  BY DEF IInv, Seen, Reading

LEMMA RunPlanStep ==
    ASSUME IInv, NEW r \in Run, RunPlan(r), ~ Leave(r)
    PROVE  Resting' /\ Known' /\ Labelled' /\ Listed' /\ Planned'
  <1>1. /\ found' = [found EXCEPT ![r] = WithLeg(r, "plan")]
        /\ ran' = [ran EXCEPT ![r] = {"plan"}]
        /\ pc' = [pc EXCEPT ![r] = "list"]
        /\ pc[r] = "plan"
        /\ UNCHANGED <<issue, checkout, listed, todo, half, settled, drifting>>
    BY DEF RunPlan, live
  <1>2. found[r] = Unread /\ todo[r] = {} /\ half[r] = {}
    BY <1>1 DEF IInv, Resting, Planned
  <1>3. Resting'
    BY <1>1, <1>2 DEF IInv, TypeOK, Resting
  <1>4. Known'
    <2>1. ASSUME NEW q \in Run \ {r}, NEW f \in Fingerprint
          PROVE  Known!(q)!(f)'
      BY <1>1, <2>1 DEF IInv, TypeOK, Known
    <2>2. ASSUME NEW f \in Fingerprint
          PROVE  Known!(r)!(f)'
      <3>1. /\ found'[r][f] = IF LegOf[f] = "plan" THEN Reading(f) ELSE "unread"
            /\ ran'[r] = {"plan"}
        BY <1>1, <1>2 DEF IInv, TypeOK, WithLeg, Unread
      <3> QED BY <1>1, <3>1, ReadingSeen
    <2> QED BY <2>1, <2>2 DEF Known
  <1>5. Labelled' /\ Listed' /\ Planned'
    <2>1. \A q \in Run : todo[q] # {} => found'[q] = found[q]
      BY <1>1, <1>2 DEF IInv, TypeOK
    <2> QED BY <1>1, <2>1 DEF IInv, Labelled, Listed, Planned
  <1> QED BY <1>3, <1>4, <1>5

LEMMA ListIssuesStep ==
    ASSUME IInv, NEW r \in Run, ListIssues(r)
    PROVE  Resting' /\ Known' /\ Labelled' /\ Listed' /\ Planned'
  <1>1. UNCHANGED <<issue, checkout, found, ran, todo, half, settled, drifting>>
    BY DEF ListIssues, live
  <1>2. Resting' /\ Known' /\ Labelled' /\ Planned'
    BY <1>1 DEF ListIssues, IInv, TypeOK, Resting, Known, Labelled, Planned
  <1>3. Listed'
    <2>1. ASSUME NEW e \in listed'[r]
          PROVE  \E n \in Number :
                    /\ Visible(n)
                    /\ e = [number |-> n, fp |-> issue[n].fp, labels |-> issue[n].labels]
      BY DEF ListIssues, IInv, TypeOK
    <2>2. ASSUME NEW e \in listed'[r]
          PROVE  Listed!(r)!(e)'
      BY <1>1, <2>1 DEF IInv, Labelled, Visible
    <2>3. ASSUME NEW q \in Run \ {r}
          PROVE  listed'[q] = listed[q]
      BY DEF ListIssues, IInv, TypeOK
    <2> QED BY <1>1, <2>2, <2>3 DEF IInv, Listed
  <1> QED BY <1>2, <1>3

LEMMA SweepStep ==
    ASSUME IInv, NEW r \in Run, Sweep(r)
    PROVE  Resting' /\ Known' /\ Labelled' /\ Listed' /\ Planned'
  <1>1. /\ pc' = [pc EXCEPT ![r] = "assert"]
        /\ pc[r] = "sweep"
        /\ UNCHANGED <<issue, checkout, listed, todo, half, settled, drifting>>
    BY DEF Sweep, live
  <1>2. todo[r] = {} /\ half[r] = {}
    BY <1>1 DEF IInv, Resting, Planned
  <1>3. CASE UNCHANGED <<found, ran>>
    BY <1>1, <1>3 DEF IInv, TypeOK, Resting, Known, Labelled, Listed, Planned
  <1>4. CASE /\ found' = [found EXCEPT ![r] = WithLeg(r, "inventory")]
             /\ ran' = [ran EXCEPT ![r] = @ \cup {"inventory"}]
    <2>1. Resting'
      BY <1>1, <1>2, <1>4 DEF IInv, TypeOK, Resting
    <2>2. Known'
      <3>1. ASSUME NEW q \in Run \ {r}, NEW f \in Fingerprint
            PROVE  Known!(q)!(f)'
        BY <1>1, <1>4, <3>1 DEF IInv, TypeOK, Known
      <3>2. ASSUME NEW f \in Fingerprint
            PROVE  Known!(r)!(f)'
        <4>1. /\ found'[r][f] = IF LegOf[f] = "inventory" THEN Reading(f) ELSE found[r][f]
              /\ ran'[r] = ran[r] \cup {"inventory"}
          BY <1>4 DEF IInv, TypeOK, WithLeg
        <4> QED BY <1>1, <4>1, ReadingSeen DEF IInv, Known
      <3> QED BY <3>1, <3>2 DEF Known
    <2>3. \A q \in Run : todo[q] # {} => found'[q] = found[q]
      BY <1>2, <1>4 DEF IInv, TypeOK
    <2>4. Labelled' /\ Listed' /\ Planned'
      BY <1>1, <2>3 DEF IInv, Labelled, Listed, Planned
    <2> QED BY <2>1, <2>2, <2>4
  <1> QED BY <1>3, <1>4 DEF Sweep

\* The labels an issue was created with decide the leg that may touch it.
LEMMA PopulationLeg ==
    ASSUME NEW leg \in Leg, NEW own \in Leg, NEW issues, NEW unresolved,
           NEW e \in Population(leg, issues, unresolved), e.labels = LabelsOf(own)
    PROVE  /\ leg = own
           /\ leg = "control" => e.fp \notin unresolved
  BY DEF Population, Leg, LabelsOf

\* The reconciled actions rest on what the run found.
LEMMA DecideMeaning ==
    ASSUME NEW r \in Run, NEW legs \in SUBSET Leg, NEW verdict, NEW counted, NEW issues,
           NEW a \in Decide(legs, verdict, counted, issues),
           issues \subseteq ListedIssue(Number),
           \A e \in issues : e.fp \in Fingerprint => e.labels = LabelsOf(LegOf[e.fp]),
           \A f \in Fingerprint : verdict[f] = "unread" <=> LegOf[f] \notin legs,
           \A f \in Fingerprint : verdict[f] = "unresolved" => LegOf[f] = "control"
    PROVE  /\ a.leg = LegOf[a.fp]
           /\ a.fp \in Fingerprint
           /\ verdict[a.fp] \notin {"unread", "unresolved"}
           /\ IF a.kind = "close" THEN verdict[a.fp] # "drift" \/ a.fp \notin counted
                                  ELSE verdict[a.fp] = "drift" /\ a.fp \in counted
           /\ IF a.kind = "open" THEN a.number = 0
                                 ELSE \E e \in issues : e.fp = a.fp /\ e.number = a.number
  <1> DEFINE drifts == {f \in Fingerprint : verdict[f] = "drift"}
             unresolved == {f \in Fingerprint : verdict[f] = "unresolved"}
  <1>1. PICK leg \in legs :
           a \in ReconcileLeg(leg, drifts \cap FingerprintsOf(leg), Fingerprint \ counted,
                              Population(leg, issues, unresolved))
    BY DEF Decide, ReconcilePopulations
  <1>2. leg \in Leg /\ Population(leg, issues, unresolved) \subseteq issues
    BY PopulationSubset
  <1>3. a.leg = leg
    BY <1>1, ReconcileLegMeaning
  <1>4. CASE a.kind \in {"open", "update"}
    <2>1. a.fp \in (drifts \cap FingerprintsOf(leg)) \ (Fingerprint \ counted)
      BY <1>1, <1>4, ReconcileLegMeaning
    <2>2. IF a.kind = "open" THEN a.number = 0
                             ELSE \E e \in issues : e.fp = a.fp /\ e.number = a.number
      BY <1>1, <1>2, <1>4, ReconcileLegMeaning
    <2> QED BY <1>3, <1>4, <2>1, <2>2 DEF FingerprintsOf
  <1>5. CASE a.kind = "close"
    <2>1. a.fp \notin (drifts \cap FingerprintsOf(leg)) \ (Fingerprint \ counted)
      BY <1>1, <1>5, ReconcileLegMeaning
    <2>2. PICK e \in Population(leg, issues, unresolved) :
             e.fp = a.fp /\ e.number = a.number /\ e.fp # NoMarker
      <3> DEFINE population == Population(leg, issues, unresolved)
                 records == drifts \cap FingerprintsOf(leg)
      <3>1. a \in ReconcileLeg(leg, records, Fingerprint \ counted, population)
        BY <1>1
      <3> HIDE DEF population, records
      <3>2. \E e \in population : e.fp = a.fp /\ e.number = a.number /\ e.fp # NoMarker
        BY <1>5, <3>1, ReconcileLegMeaning
      <3> QED BY <3>2 DEF population
    <2>3. e \in issues /\ a.fp \in Fingerprint
      <3>1. e \in issues
        BY <1>2, <2>2
      <3>2. e \in ListedIssue(Number)
        BY <3>1
      <3>3. e.fp \in Fingerprint \cup {NoMarker}
        BY <3>2 DEF ListedIssue
      <3> QED BY <2>2, <3>1, <3>3
    <2>4. e.labels = LabelsOf(LegOf[a.fp]) /\ LegOf[a.fp] \in Leg
      BY <2>2, <2>3, FingerprintAssumption
    <2>5. leg = LegOf[a.fp] /\ (leg = "control" => a.fp \notin unresolved)
      BY <1>2, <2>2, <2>4, PopulationLeg
    <2>6. verdict[a.fp] # "drift" \/ a.fp \notin counted
      BY <2>1, <2>3, <2>5 DEF FingerprintsOf
    <2>7. verdict[a.fp] \notin {"unread", "unresolved"}
      BY <2>3, <2>5
    <2> QED BY <1>3, <1>5, <2>2, <2>3, <2>5, <2>6, <2>7
  <1> QED BY <1>1, <1>4, <1>5, ReconcileLegMeaning

LEMMA AssertStep ==
    ASSUME IInv, NEW r \in Run, Assert(r), TypeOK'
    PROVE  Resting' /\ Known' /\ Labelled' /\ Listed' /\ Planned'
  <1>1. /\ pc' = [pc EXCEPT ![r] = "execute"]
        /\ pc[r] = "assert"
        /\ todo' = [todo EXCEPT ![r] = Decide(ran'[r], found'[r], checkout[r], listed[r])]
        /\ UNCHANGED <<issue, checkout, listed, half, settled, drifting>>
    BY DEF Assert, live
  <1>2. half[r] = {}
    BY <1>1 DEF IInv, Resting, Planned
  <1>3. \A q \in Run \ {r} :
           /\ found'[q] = found[q] /\ ran'[q] = ran[q] /\ todo'[q] = todo[q] /\ pc'[q] = pc[q]
    <2>1. \/ UNCHANGED <<found, ran>>
          \/ \E u : /\ found' = [found EXCEPT ![r] = WithRows(r, u)]
                   /\ ran' = [ran EXCEPT ![r] = @ \cup {"control"}]
      BY DEF Assert
    <2> QED BY <1>1, <2>1 DEF IInv, TypeOK
  <1>4. Resting'
    BY <1>1, <1>3 DEF IInv, TypeOK, Resting
  <1>5. Known'
    <2>1. ASSUME NEW q \in Run \ {r}, NEW f \in Fingerprint
          PROVE  Known!(q)!(f)'
      BY <1>1, <1>3, <2>1 DEF IInv, Known
    <2>2. CASE UNCHANGED <<found, ran>>
      BY <1>1, <2>2 DEF IInv, Known
    <2>3. ASSUME NEW u, found' = [found EXCEPT ![r] = WithRows(r, u)],
                 ran' = [ran EXCEPT ![r] = @ \cup {"control"}],
                 NEW f \in Fingerprint
          PROVE  Known!(r)!(f)'
      <3>1. /\ found'[r][f] = IF LegOf[f] = "control" THEN RowVerdict(r, f, u) ELSE found[r][f]
            /\ ran'[r] = ran[r] \cup {"control"}
        BY <2>3 DEF IInv, TypeOK, WithRows
      <3>2. CASE LegOf[f] = "control"
        <4>1. /\ RowVerdict(r, f, u) \in {"unlisted", "unresolved", Reading(f)}
              /\ RowVerdict(r, f, u) = "unlisted" => f \notin checkout[r]
          BY ReadingSeen, <1>1 DEF RowVerdict
        <4> QED BY <1>1, <3>1, <3>2, <4>1, ReadingSeen
      <3>3. CASE LegOf[f] # "control"
        BY <1>1, <3>1, <3>3 DEF IInv, Known
      <3> QED BY <3>2, <3>3
    <2>4. UNCHANGED <<found, ran>> \/ \E u : /\ found' = [found EXCEPT ![r] = WithRows(r, u)]
                                             /\ ran' = [ran EXCEPT ![r] = @ \cup {"control"}]
      BY DEF Assert
    <2> QED BY <2>1, <2>2, <2>3, <2>4 DEF Known
  <1>6. Labelled' /\ Listed'
    BY <1>1 DEF IInv, Labelled, Listed
  <1>7. Planned'
    <2>1. ASSUME NEW q \in Run \ {r}
          PROVE  Planned!(q)'
      BY <1>1, <1>3, <2>1 DEF IInv, Planned
    <2>2. half'[r] = {}
      BY <1>1, <1>2
    <2>3. ASSUME NEW a \in todo'[r]
          PROVE  /\ a.leg = LegOf[a.fp]
                 /\ found'[r][a.fp] \notin {"unread", "unresolved"}
                 /\ IF a.kind = "close"
                    THEN found'[r][a.fp] # "drift" \/ a.fp \notin checkout'[r]
                    ELSE found'[r][a.fp] = "drift" /\ a.fp \in checkout'[r]
                 /\ a.kind # "open" =>
                       /\ a.number \in Number
                       /\ issue'[a.number].state # "none"
                       /\ issue'[a.number].labels = LabelsOf(a.leg)
      <3>1. /\ a \in Decide(ran'[r], found'[r], checkout[r], listed[r])
            /\ ran'[r] \in SUBSET Leg
            /\ listed[r] \subseteq ListedIssue(Number)
        BY <1>1, <2>3 DEF IInv, TypeOK
      <3>2. /\ \A f \in Fingerprint : found'[r][f] = "unread" <=> LegOf[f] \notin ran'[r]
            /\ \A f \in Fingerprint : found'[r][f] = "unresolved" => LegOf[f] = "control"
        BY <1>5 DEF Known
      <3>3. \A e \in listed[r] : e.fp \in Fingerprint => e.labels = LabelsOf(LegOf[e.fp])
        BY DEF IInv, Listed
      <3>4. /\ a.leg = LegOf[a.fp]
            /\ a.fp \in Fingerprint
            /\ found'[r][a.fp] \notin {"unread", "unresolved"}
            /\ IF a.kind = "close" THEN found'[r][a.fp] # "drift" \/ a.fp \notin checkout[r]
                                   ELSE found'[r][a.fp] = "drift" /\ a.fp \in checkout[r]
            /\ a.kind # "open" => \E e \in listed[r] : e.fp = a.fp /\ e.number = a.number
        BY <3>1, <3>2, <3>3, DecideMeaning
      <3>5. ASSUME a.kind # "open"
            PROVE  /\ a.number \in Number
                   /\ issue'[a.number].state # "none"
                   /\ issue'[a.number].labels = LabelsOf(a.leg)
        BY <1>1, <3>1, <3>4, <3>5 DEF IInv, Listed, ListedIssue
      <3> QED BY <1>1, <3>4, <3>5
    <2> QED BY <2>1, <2>2, <2>3 DEF Planned
  <1> QED BY <1>4, <1>5, <1>6, <1>7

\* Issues never vanish and keep their labels.
Kept ==
    \A n \in Number : issue[n].state # "none" =>
        issue'[n].state # "none" /\ issue'[n].labels = issue[n].labels

\* Steps that write issues and drop actions.
LEMMA WritingStep ==
    ASSUME IInv, Kept, UNCHANGED <<checkout, found, ran, listed, pc, settled, drifting>>,
           \A q \in Run : todo'[q] \subseteq todo[q] /\ half'[q] \subseteq todo'[q]
    PROVE  Resting' /\ Known' /\ Listed' /\ Planned'
  <1>1. Resting' /\ Known'
    BY DEF IInv, Resting, Known
  <1>2. Listed'
    <2>1. ASSUME NEW q \in Run, NEW e \in listed[q]
          PROVE  issue'[e.number].state # "none" /\ issue'[e.number].labels = issue[e.number].labels
      <3>1. e.number \in Number
        BY DEF IInv, TypeOK, ListedIssue
      <3> QED BY <3>1 DEF IInv, Listed, Kept
    <2> QED BY <2>1 DEF IInv, Listed
  <1>3. Planned'
    <2>1. ASSUME NEW q \in Run, NEW a \in todo[q], a.kind # "open"
          PROVE  /\ a.number \in Number
                 /\ issue'[a.number].state # "none"
                 /\ issue'[a.number].labels = LabelsOf(a.leg)
      BY <2>1 DEF IInv, Planned, Kept
    <2> QED BY <2>1 DEF IInv, Planned
  <1> QED BY <1>1, <1>2, <1>3

\* Writing drops actions from the plan, once they are carried out.
LEMMA ExecuteDrops ==
    ASSUME IInv, NEW r \in Run, Execute(r), ~ Finish(r)
    PROVE  \A q \in Run : todo'[q] \subseteq todo[q] /\ half'[q] \subseteq todo'[q]
  <1>0. /\ \A k : \A a \in Turn(r, k) : a \in todo[r] /\ half[r] = {}
        /\ \A a \in half[r] : a \in todo[r]
    BY TurnFact DEF IInv, Planned
  <1>1. PICK a \in todo[r] :
           \/ todo' = [todo EXCEPT ![r] = @ \ {a}] /\ half' = half /\ half[r] = {}
           \/ todo' = [todo EXCEPT ![r] = @ \ {a}] /\ half' = [half EXCEPT ![r] = {}]
           \/ todo' = todo /\ half' = [half EXCEPT ![r] = {a}]
    BY <1>0 DEF Execute, CreateIssue, RefreshIssue, CommentRecurrence, CommentResolution, CloseIssue
  <1>2. \A q \in Run \ {r} : todo'[q] = todo[q] /\ half'[q] = half[q]
    BY <1>1 DEF IInv, TypeOK
  <1>3. todo'[r] \subseteq todo[r] /\ half'[r] \subseteq todo'[r]
    <2>1. todo \in [Run -> SUBSET IssueAction(Number)] /\ half \in [Run -> SUBSET IssueAction(Number)]
      BY DEF IInv, TypeOK
    <2>2. CASE todo' = [todo EXCEPT ![r] = @ \ {a}] /\ half' = half /\ half[r] = {}
      BY <2>1, <2>2
    <2>3. CASE todo' = [todo EXCEPT ![r] = @ \ {a}] /\ half' = [half EXCEPT ![r] = {}]
      BY <2>1, <2>3
    <2>4. CASE todo' = todo /\ half' = [half EXCEPT ![r] = {a}]
      BY <2>1, <2>4
    <2> QED BY <1>1, <2>2, <2>3, <2>4
  <1> QED BY <1>2, <1>3 DEF IInv, Planned

LEMMA ExecuteStep ==
    ASSUME IInv, NEW r \in Run, Execute(r), ~ Finish(r)
    PROVE  Resting' /\ Known' /\ Labelled' /\ Listed' /\ Planned'
  <1>0. /\ \A n \in Number : issue[n] \in Issue
        /\ \A k : \A a \in Turn(r, k) : a \in todo[r] /\ a.kind = k /\ half[r] = {}
        /\ \A a \in half[r] : a \in todo[r]
        /\ half[r] \subseteq todo[r]
        /\ todo[r] \subseteq IssueAction(Number)
        /\ issue \in [Number -> Issue]
    BY TurnFact DEF IInv, TypeOK, Planned
  <1>1. UNCHANGED <<checkout, found, ran, listed, pc, settled, drifting>>
    BY DEF Execute, CreateIssue, RefreshIssue, CommentRecurrence, CommentResolution, CloseIssue,
           reading, live
  <1>2. \A q \in Run : todo'[q] \subseteq todo[q] /\ half'[q] \subseteq todo'[q]
    BY ExecuteDrops
  <1>3. CASE CreateIssue(r)
    <2>1. PICK a \in Turn(r, "open"), n \in Number :
             /\ issue[n].state = "none"
             /\ issue' = [issue EXCEPT ![n] =
                   [state |-> "open", fp |-> a.fp, labels |-> LabelsOf(a.leg), told |-> FALSE]]
      BY <1>3 DEF CreateIssue, NextNumber
    <2>2. a.leg = LegOf[a.fp]
      BY <1>0 DEF IInv, Planned
    <2>3. Kept
      BY <1>0, <2>1 DEF Kept
    <2>4. Labelled'
      BY <1>0, <2>1, <2>2 DEF IInv, Labelled
    <2> QED BY <1>1, <1>2, <2>3, <2>4, WritingStep
  <1>4. CASE RefreshIssue(r)
    <2>1. PICK a \in Turn(r, "update") : issue' = [issue EXCEPT ![a.number].fp = a.fp]
      BY <1>4 DEF RefreshIssue
    <2>2. /\ a.number \in Number
          /\ issue[a.number].labels = LabelsOf(LegOf[a.fp])
      BY <1>0 DEF IInv, Planned
    <2>3. Kept
      BY <1>0, <2>1 DEF Kept, Issue
    <2>4. Labelled'
      BY <1>0, <2>1, <2>2 DEF IInv, Labelled, Issue
    <2> QED BY <1>1, <1>2, <2>3, <2>4, WritingStep
  <1>5. CASE CommentRecurrence(r)
    <2>1. Kept /\ Labelled'
      BY <1>5 DEF CommentRecurrence, IInv, Kept, Labelled
    <2> QED BY <1>1, <1>2, <2>1, WritingStep
  <1>6. CASE CommentResolution(r)
    <2>1. PICK n : issue' = [issue EXCEPT ![n].told = TRUE]
      BY <1>6 DEF CommentResolution
    <2>2. Kept /\ Labelled'
      BY <1>0, <2>1 DEF IInv, Kept, Labelled, Issue
    <2> QED BY <1>1, <1>2, <2>2, WritingStep
  <1>7. CASE CloseIssue(r)
    <2>1. PICK n : issue' = [issue EXCEPT ![n].state = "closed"]
      BY <1>7 DEF CloseIssue
    <2>2. Kept /\ Labelled'
      BY <1>0, <2>1 DEF IInv, Kept, Labelled, Issue
    <2> QED BY <1>1, <1>2, <2>2, WritingStep
  <1> QED BY <1>3, <1>4, <1>5, <1>6, <1>7 DEF Execute

LEMMA HumanStep ==
    ASSUME IInv, NEW n \in Number, HumanMove(n)
    PROVE  Resting' /\ Known' /\ Labelled' /\ Listed' /\ Planned'
  <1>1. /\ UNCHANGED <<checkout, found, ran, listed, todo, half, pc, settled, drifting>>
        /\ issue[n].fp \in Fingerprint
        /\ \/ /\ issue[n].state = "open"
              /\ issue' = [issue EXCEPT ![n].state = "closed"]
           \/ /\ issue[n].state = "closed"
              /\ issue' = [issue EXCEPT ![n].state = "open", ![n].told = FALSE]
           \/ /\ issue[n].state = "open"
              /\ issue' = [issue EXCEPT ![n].fp = NoMarker]
    BY DEF HumanMove, live, reading
  <1>2. issue \in [Number -> Issue] /\ NoMarker \notin Fingerprint
    BY FingerprintAssumption DEF IInv, TypeOK
  <1>3. Kept
    BY <1>1, <1>2 DEF Kept, Issue
  <1>4. Labelled'
    BY <1>1, <1>2 DEF IInv, Labelled, Issue
  <1>5. \A q \in Run : todo'[q] \subseteq todo[q] /\ half'[q] \subseteq todo'[q]
    BY <1>1 DEF IInv, Planned
  <1>6. Resting' /\ Known' /\ Listed' /\ Planned'
    BY <1>1, <1>3, <1>5, WritingStep
  <1> QED BY <1>4, <1>6

\* All steps together.
LEMMA InvariantStep ==
    ASSUME IInv, [Next]_vars, TypeOK'
    PROVE  IInv'
  <1>1. Exclusion' /\ Seen'
    BY ExclusionStep, SeenStep
  <1>2. ASSUME NEW r \in Run, Start(r) \/ Abort(r) \/ Advance(r)
        PROVE  Resting' /\ Known' /\ Labelled' /\ Listed' /\ Planned'
    <2>1. CASE Start(r)
      BY <2>1, StartStep
    <2>2. CASE Leave(r)
      BY <2>2, LeaveStep
    <2>3. CASE RunPlan(r) /\ ~ Leave(r)
      BY <2>3, RunPlanStep
    <2>4. CASE ListIssues(r)
      BY <2>4, ListIssuesStep
    <2>5. CASE Sweep(r)
      BY <2>5, SweepStep
    <2>6. CASE Assert(r)
      BY <2>6, AssertStep
    <2>7. CASE Execute(r) /\ ~ Finish(r)
      BY <2>7, ExecuteStep
    <2>8. CASE Finish(r) \/ Abort(r)
      BY <2>2, <2>8 DEF Finish, Abort
    <2> QED BY <1>2, <2>1, <2>2, <2>3, <2>4, <2>5, <2>6, <2>7, <2>8 DEF Advance
  <1>3. ASSUME NEW f \in Fingerprint, LiveChange(f)
        PROVE  Resting' /\ Known' /\ Labelled' /\ Listed' /\ Planned'
    <2>1. /\ UNCHANGED <<issue, pc, checkout, found, ran, listed, todo, half>>
          /\ settled \subseteq settled' /\ drifting \subseteq drifting'
      BY <1>3 DEF LiveChange, reading
    <2> QED BY <2>1, OutsideStep
  <1>4. ASSUME NEW f \in Fingerprint, GovernanceEdit(f)
        PROVE  Resting' /\ Known' /\ Labelled' /\ Listed' /\ Planned'
    <2>1. /\ UNCHANGED <<issue, pc, checkout, found, ran, listed, todo, half>>
          /\ settled \subseteq settled' /\ drifting \subseteq drifting'
      BY <1>4 DEF GovernanceEdit, reading
    <2> QED BY <2>1, OutsideStep
  <1>5. ASSUME NEW n \in Number, HumanMove(n)
        PROVE  Resting' /\ Known' /\ Labelled' /\ Listed' /\ Planned'
    BY <1>5, HumanStep
  <1>6. ASSUME UNCHANGED vars
        PROVE  Resting' /\ Known' /\ Labelled' /\ Listed' /\ Planned'
    <2>1. /\ UNCHANGED <<issue, pc, checkout, found, ran, listed, todo, half>>
          /\ settled \subseteq settled' /\ drifting \subseteq drifting'
      BY <1>6 DEF vars
    <2> QED BY <2>1, OutsideStep
  <1>7. Resting' /\ Known' /\ Labelled' /\ Listed' /\ Planned'
    <2>1. CASE Next
      BY <1>2, <1>3, <1>4, <1>5, <2>1 DEF Next, Surroundings
    <2> QED BY <1>6, <2>1
  <1> QED BY <1>1, <1>7 DEF IInv

\* The invariant is inductive.
THEOREM Invariant == Spec => []IInv
  <1>1. Init => IInv
    <2> SUFFICES ASSUME Init PROVE IInv
      OBVIOUS
    <2>1. TypeOK
      BY DEF Init, TypeOK, NoIssue, Issue, Unread, Verdict
    <2>2. Known
      BY FingerprintAssumption DEF Init, Known, Unread
    <2>3. Labelled
      BY FingerprintAssumption DEF Init, Labelled, NoIssue
    <2> QED BY <2>1, <2>2, <2>3 DEF IInv, Init, Exclusion, Resting, Seen, Listed, Planned
  <1>2. IInv /\ [Next]_vars /\ TypeOK' => IInv'
    BY InvariantStep
  <1> QED BY <1>1, <1>2, TypeCorrect, PTL DEF Spec

\* Whatever a run is about to do to an issue was true of the live organization
\* at some moment of that run, however the organization and the issues change
\* under it, whichever legs fail and wherever other runs were cut off.
THEOREM NoPhantomActionCorrect == Spec => []NoPhantomAction
  <1>1. IInv => NoPhantomAction
    <2> SUFFICES ASSUME IInv, NEW r \in Run, NEW a \in todo[r]
                 PROVE  NoPhantomAction!(r)!(a)
      BY DEF NoPhantomAction
    <2>1. a.fp \in Fingerprint /\ found[r][a.fp] \in Verdict
      BY DEF IInv, TypeOK, IssueAction
    <2> QED BY <2>1 DEF IInv, Known, Planned, Verdict
  <1> QED BY <1>1, Invariant, PTL

\* Explicit degradation holds for any number of divergences, runs and issues:
\* no action is ever planned on a leg that did not run or a row that was not
\* read.
THEOREM DegradedUntouchedCorrect == Spec => []DegradedUntouched
  <1>1. IInv => DegradedUntouched
    BY DEF IInv, Planned, DegradedUntouched
  <1> QED BY <1>1, Invariant, PTL

-----------------------------------------------------------------------------
\* One open issue for each divergence, as long as nobody reopens an issue.

\* From the listing to the reconciliation, every open drift issue is listed.
Covered ==
    \A r \in Run : pc[r] \in {"sweep", "assert"} =>
        \A n \in Number : Visible(n) /\ issue[n].fp \in Fingerprint =>
            \E e \in listed[r] : e.number = n /\ e.fp = issue[n].fp

\* A run holds no listing before it has made one, and lists an issue once and a
\* marker once.
Distinct ==
    \A r \in Run :
        /\ pc[r] \in {"idle", "plan", "list"} => listed[r] = {}
        /\ \A d, e \in listed[r] :
              d.number = e.number \/ (d.fp = e.fp /\ e.fp \in Fingerprint) => d = e

\* A listed issue bears the marker it was listed with, unless somebody edited it
\* away.
Faithful ==
    \A r \in Run : \A e \in listed[r] : issue[e.number].fp \in {e.fp, NoMarker}

\* What is planned for an issue is planned for the marker it was listed with, and
\* no other open issue bears that marker.
Sole ==
    \A r \in Run : \A a \in todo[r] :
        IF a.kind = "open" THEN a.number = 0
        ELSE /\ \E e \in listed[r] : e.fp = a.fp /\ e.number = a.number
             /\ OpenIssues(a.fp) \subseteq {a.number}

\* What is to be opened was not listed, and is not open.
Fresh ==
    \A r \in Run : \A a \in todo[r] : a.kind = "open" =>
        OpenIssues(a.fp) = {} /\ \A e \in listed[r] : e.fp # a.fp

UInv == OneOpenIssue /\ Covered /\ Distinct /\ Faithful /\ Sole /\ Fresh

\* No issue appears, and none changes its marker, but for losing it.
Quiet ==
    \A n \in Number :
        /\ Visible(n)' => Visible(n)
        /\ issue[n].state # "none" => issue'[n].fp \in {issue[n].fp, NoMarker}

\* Steps that make no issue and no plan.
LEMMA QuietStep ==
    ASSUME IInv, UInv, Quiet,
           \A q \in Run :
              \/ listed'[q] = {} /\ todo'[q] = {} /\ pc'[q] = "idle"
              \/ /\ listed'[q] = listed[q] /\ todo'[q] \subseteq todo[q]
                 /\ pc'[q] \in {"sweep", "assert"} => pc[q] \in {"sweep", "assert"}
                 /\ pc'[q] \in {"idle", "plan", "list"} => pc[q] \in {"idle", "plan", "list"}
    PROVE  UInv'
  <1>1. \A n \in Number : Visible(n)' =>
           Visible(n) /\ (issue'[n].fp \in Fingerprint => issue'[n].fp = issue[n].fp)
    BY FingerprintAssumption DEF Quiet, Visible
  <1>2. \A f \in Fingerprint : OpenIssues(f)' \subseteq OpenIssues(f)
    BY <1>1 DEF OpenIssues
  <1>3. OneOpenIssue'
    BY <1>2 DEF UInv, OneOpenIssue
  <1>4. Covered'
    BY <1>1 DEF UInv, Covered
  <1>5. Distinct'
    BY DEF UInv, Distinct
  <1>6. Faithful'
    <2>1. ASSUME NEW q \in Run, NEW e \in listed'[q]
          PROVE  issue'[e.number].fp \in {e.fp, NoMarker}
      <3>1. e \in listed[q]
        OBVIOUS
      <3>2. e.number \in Number /\ issue[e.number].state # "none"
        BY <3>1 DEF IInv, TypeOK, Listed, ListedIssue
      <3> QED BY <3>1, <3>2 DEF UInv, Faithful, Quiet
    <2> QED BY <2>1 DEF Faithful
  <1>7. \A q \in Run : \A a \in todo'[q] :
           a \in todo[q] /\ a.fp \in Fingerprint /\ listed'[q] = listed[q]
    BY DEF IInv, TypeOK, IssueAction
  <1>8. Sole'
    <2>1. ASSUME NEW q \in Run, NEW a \in todo'[q]
          PROVE  Sole!(q)!(a)'
      BY <1>2, <1>7 DEF UInv, Sole
    <2> QED BY <2>1 DEF Sole
  <1>9. Fresh'
    <2>1. ASSUME NEW q \in Run, NEW a \in todo'[q], a.kind = "open"
          PROVE  OpenIssues(a.fp)' = {} /\ \A e \in listed'[q] : e.fp # a.fp
      BY <1>2, <1>7, <2>1 DEF UInv, Fresh
    <2> QED BY <2>1 DEF Fresh
  <1> QED BY <1>3, <1>4, <1>5, <1>6, <1>8, <1>9 DEF UInv

\* The listing takes each open issue, and each marker once.
LEMMA ListIssuesUnique ==
    ASSUME IInv, UInv, NEW r \in Run, ListIssues(r)
    PROVE  UInv'
  <1>1. UNCHANGED <<issue, todo>> /\ pc[r] = "list"
    BY DEF ListIssues
  <1>2. /\ \A q \in Run \ {r} : listed'[q] = listed[q] /\ pc'[q] = pc[q]
        /\ listed'[r] = {[number |-> n, fp |-> issue[n].fp, labels |-> issue[n].labels] :
                            n \in {m \in Number : Visible(m)}}
    BY DEF ListIssues, IInv, TypeOK
  <1>3. OneOpenIssue'
    BY <1>1 DEF UInv, OneOpenIssue, OpenIssues, Visible
  <1>4. Covered'
    <2>1. ASSUME NEW n \in Number, Visible(n)
          PROVE  \E e \in listed'[r] : e.number = n /\ e.fp = issue[n].fp
      <3> DEFINE e == [number |-> n, fp |-> issue[n].fp, labels |-> issue[n].labels]
      <3>1. e \in listed'[r]
        BY <1>2, <2>1
      <3>2. e.number = n /\ e.fp = issue[n].fp
        OBVIOUS
      <3> QED BY <3>1, <3>2
    <2> QED BY <1>1, <1>2, <2>1 DEF UInv, Covered, Visible
  <1>5. Distinct'
    <2>1. ASSUME NEW d \in listed'[r], NEW e \in listed'[r], d.fp = e.fp, e.fp \in Fingerprint
          PROVE  d = e
      <3>1. PICK m \in Number :
               /\ Visible(m)
               /\ d = [number |-> m, fp |-> issue[m].fp, labels |-> issue[m].labels]
        BY <1>2
      <3>2. PICK n \in Number :
               /\ Visible(n)
               /\ e = [number |-> n, fp |-> issue[n].fp, labels |-> issue[n].labels]
        BY <1>2
      <3>3. m \in OpenIssues(e.fp) /\ n \in OpenIssues(e.fp)
        BY <2>1, <3>1, <3>2 DEF OpenIssues
      <3> QED BY <2>1, <3>1, <3>2, <3>3 DEF UInv, OneOpenIssue
    <2>2. ASSUME NEW d \in listed'[r], NEW e \in listed'[r], d.number = e.number
          PROVE  d = e
      BY <1>2, <2>2
    <2>3. pc'[r] = "sweep" /\ \A q \in Run \ {r} : pc'[q] = pc[q]
      BY DEF ListIssues, IInv, TypeOK
    <2>4. ASSUME NEW q \in Run
          PROVE  Distinct!(q)'
      <3>1. CASE q = r
        BY <2>1, <2>2, <2>3, <3>1
      <3>2. CASE q # r
        BY <1>2, <2>3, <3>2 DEF UInv, Distinct
      <3> QED BY <3>1, <3>2
    <2> QED BY <2>4 DEF Distinct
  <1>6. Faithful'
    BY <1>1, <1>2 DEF UInv, Faithful
  <1>7. todo[r] = {} /\ \A f : OpenIssues(f)' = OpenIssues(f)
    BY <1>1 DEF IInv, Resting, OpenIssues, Visible
  <1>8. Sole' /\ Fresh'
    <2>1. ASSUME NEW q \in Run, NEW a \in todo'[q]
          PROVE  Sole!(q)!(a)' /\ Fresh!(q)!(a)'
      <3>1. q \in Run \ {r} /\ a \in todo[q] /\ listed'[q] = listed[q]
        BY <1>1, <1>2, <1>7, <2>1
      <3> QED BY <1>7, <3>1 DEF UInv, Sole, Fresh
    <2> QED BY <2>1 DEF Sole, Fresh
  <1> QED BY <1>3, <1>4, <1>5, <1>6, <1>8 DEF UInv

\* An opening is decided only when no listed issue of its leg bears the marker.
LEMMA DecideFresh ==
    ASSUME NEW r \in Run, NEW legs \in SUBSET Leg, NEW verdict, NEW counted, NEW issues,
           NEW a \in Decide(legs, verdict, counted, issues), a.kind = "open",
           NEW e \in issues, e.fp = a.fp, e.number \in Nat,
           e.labels = LabelsOf(LegOf[a.fp]),
           \A d \in issues : d.fp = e.fp => d = e
    PROVE  FALSE
  <1> DEFINE drifts == {f \in Fingerprint : verdict[f] = "drift"}
             unresolved == {f \in Fingerprint : verdict[f] = "unresolved"}
  <1>1. PICK leg \in legs :
           a \in ReconcileLeg(leg, drifts \cap FingerprintsOf(leg), Fingerprint \ counted,
                              Population(leg, issues, unresolved))
    BY DEF Decide, ReconcilePopulations
  <1>2. a.fp \in drifts \cap FingerprintsOf(leg)
    BY <1>1, ReconcileLegMeaning
  <1>3. \A c \in Current(Population(leg, issues, unresolved)) : c.fp # a.fp
    BY <1>1, ReconcileLegMeaning
  <1>4. e \in Population(leg, issues, unresolved)
    <2>1. leg \in Leg /\ e.labels = LabelsOf(leg) /\ e.fp \notin unresolved
      BY <1>2 DEF FingerprintsOf
    <2> QED BY <2>1 DEF Population, Leg, LabelsOf
  <1>5. e \in Current(Population(leg, issues, unresolved))
    <2>1. \A d \in Population(leg, issues, unresolved) : d.fp = e.fp => e.number <= d.number
      BY <1>1, PopulationSubset
    <2>2. e.fp # NoMarker
      BY <1>2, FingerprintAssumption
    <2> QED BY <1>4, <2>1, <2>2 DEF Current
  <1> QED BY <1>3, <1>5

LEMMA AssertUnique ==
    ASSUME IInv, UInv, NEW r \in Run, Assert(r), TypeOK'
    PROVE  UInv'
  <1>1. /\ UNCHANGED <<issue, listed, checkout>>
        /\ pc[r] = "assert"
        /\ pc' = [pc EXCEPT ![r] = "execute"]
        /\ todo' = [todo EXCEPT ![r] = Decide(ran'[r], found'[r], checkout[r], listed[r])]
    BY DEF Assert
  <1>2. \A q \in Run \ {r} : todo'[q] = todo[q] /\ pc'[q] = pc[q]
    BY <1>1 DEF IInv, TypeOK
  <1>3. pc'[r] = "execute" /\ todo'[r] = Decide(ran'[r], found'[r], checkout[r], listed[r])
    BY <1>1 DEF IInv, TypeOK
  <1>4. OneOpenIssue' /\ Distinct' /\ Faithful'
    BY <1>1, <1>2, <1>3 DEF UInv, OneOpenIssue, OpenIssues, Visible, Distinct, Faithful
  <1>5. Covered'
    BY <1>1, <1>2, <1>3 DEF UInv, Covered, Visible
  <1>6. /\ Known' /\ Planned'
        /\ listed[r] \subseteq ListedIssue(Number)
        /\ ran'[r] \in SUBSET Leg
        /\ \A e \in listed[r] : e.fp \in Fingerprint => e.labels = LabelsOf(LegOf[e.fp])
    BY AssertStep DEF IInv, TypeOK, Listed
  <1>7. \A f : OpenIssues(f)' = OpenIssues(f)
    BY <1>1 DEF OpenIssues, Visible
  <1>8. ASSUME NEW f \in Fingerprint, NEW n \in OpenIssues(f)
        PROVE  \E e \in listed[r] : e.number = n /\ e.fp = f
    BY <1>1 DEF OpenIssues, UInv, Covered
  <1>9. \A d, e \in listed[r] : d.fp = e.fp /\ e.fp \in Fingerprint => d = e
    BY DEF UInv, Distinct
  <1>10. \A a \in todo'[r] : a.fp \in Fingerprint
    BY <1>3 DEF TypeOK, IssueAction
  <1>11. Sole'
    <2>1. ASSUME NEW a \in todo'[r]
          PROVE  Sole!(r)!(a)'
      <3>1. IF a.kind = "open" THEN a.number = 0
            ELSE \E e \in listed[r] : e.fp = a.fp /\ e.number = a.number
        BY <1>3, <1>6, DecideMeaning DEF Known
      <3>2. ASSUME a.kind # "open", NEW n \in OpenIssues(a.fp)
            PROVE  n = a.number
        BY <1>8, <1>9, <1>10, <3>1, <3>2
      <3> QED BY <1>1, <1>7, <3>1, <3>2
    <2>2. ASSUME NEW q \in Run \ {r}
          PROVE  Sole!(q)'
      BY <1>1, <1>2, <1>7 DEF UInv, Sole
    <2> QED BY <2>1, <2>2 DEF Sole
  <1>12. Fresh'
    <2>1. ASSUME NEW a \in todo'[r], a.kind = "open", NEW e \in listed[r], e.fp = a.fp
          PROVE  FALSE
      <3>1. \A d \in listed[r] : d.fp = e.fp => d = e
        BY <1>9, <1>10, <2>1
      <3>2. e.labels = LabelsOf(LegOf[a.fp]) /\ e.number \in Nat
        BY <1>6, <1>10, <2>1 DEF Number, ListedIssue
      <3> QED BY <1>3, <1>6, <2>1, <3>1, <3>2, DecideFresh
    <2>2. ASSUME NEW a \in todo'[r], a.kind = "open"
          PROVE  OpenIssues(a.fp) = {}
      BY <1>8, <1>10, <2>1, <2>2
    <2>3. ASSUME NEW q \in Run \ {r}
          PROVE  Fresh!(q)'
      BY <1>1, <1>2, <1>7 DEF UInv, Fresh
    <2> QED BY <1>1, <1>7, <2>1, <2>2, <2>3 DEF Fresh
  <1> QED BY <1>4, <1>5, <1>11, <1>12 DEF UInv

LEMMA CreateIssueUnique ==
    ASSUME IInv, UInv, NEW r \in Run, CreateIssue(r)
    PROVE  UInv'
  <1>1. PICK a \in Turn(r, "open"), n \in Number :
           /\ issue[n].state = "none"
           /\ issue' = [issue EXCEPT ![n] =
                 [state |-> "open", fp |-> a.fp, labels |-> LabelsOf(a.leg), told |-> FALSE]]
           /\ todo' = [todo EXCEPT ![r] = @ \ {a}]
           /\ UNCHANGED <<pc, listed>>
    BY DEF CreateIssue, NextNumber, reading
  <1>2. a \in todo[r] /\ a.kind = "open" /\ pc[r] = "execute" /\ a.fp \in Fingerprint
    BY <1>1, TurnFact DEF IInv, TypeOK, IssueAction
  <1>3. /\ \A m \in Number \ {n} : issue'[m] = issue[m]
        /\ issue'[n].state = "open" /\ issue'[n].fp = a.fp /\ ~ Visible(n)
        /\ \A q \in Run : todo'[q] \subseteq todo[q] /\ (q = r => a \notin todo'[q])
    BY <1>1 DEF IInv, TypeOK, Visible
  <1>4. /\ \A f \in Fingerprint \ {a.fp} : OpenIssues(f)' = OpenIssues(f)
        /\ OpenIssues(a.fp)' \subseteq OpenIssues(a.fp) \cup {n}
    BY <1>3 DEF OpenIssues, Visible
  <1>5. OpenIssues(a.fp) = {}
    BY <1>2 DEF UInv, Fresh
  <1>6. OneOpenIssue'
    BY <1>4, <1>5 DEF UInv, OneOpenIssue
  <1>7. \A q \in Run \ {r} : pc[q] = "idle" /\ todo[q] = {}
    BY <1>2 DEF IInv, Exclusion, Resting
  <1>8. Covered' /\ Distinct'
    BY <1>1, <1>2, <1>7 DEF UInv, Covered, Distinct
  <1>9. Faithful'
    <2>1. ASSUME NEW q \in Run, NEW e \in listed[q]
          PROVE  issue'[e.number].fp \in {e.fp, NoMarker}
      <3>1. e.number \in Number \ {n}
        BY <1>1 DEF IInv, TypeOK, Listed, ListedIssue
      <3> QED BY <1>3, <3>1 DEF UInv, Faithful
    <2> QED BY <1>1, <2>1 DEF Faithful
  <1>10. ASSUME NEW q \in Run, NEW b \in todo'[q]
         PROVE  /\ q = r /\ b \in todo[r] /\ listed'[r] = listed[r]
                /\ b.fp \in Fingerprint \ {a.fp}
    <2>1. q = r /\ b \in todo[r] /\ b # a /\ listed'[r] = listed[r]
      BY <1>1, <1>3, <1>7
    <2>2. a \in IssueAction(Number) /\ b \in IssueAction(Number)
      BY <1>2, <2>1 DEF IInv, TypeOK
    <2>3. CASE b.kind = "open"
      <3>1. a.kind = b.kind /\ a.number = b.number
        BY <1>2, <2>1, <2>3 DEF UInv, Sole
      <3>2. a.leg = LegOf[a.fp] /\ b.leg = LegOf[b.fp]
        BY <1>2, <2>1 DEF IInv, Planned
      <3> QED BY <2>1, <2>2, <3>1, <3>2 DEF IssueAction
    <2>4. CASE b.kind # "open"
      <3>1. PICK e \in listed[r] : e.fp = b.fp
        BY <2>1, <2>4 DEF UInv, Sole
      <3>2. e.fp # a.fp
        BY <1>2, <3>1 DEF UInv, Fresh
      <3> QED BY <2>1, <2>2, <3>1, <3>2 DEF IssueAction
    <2> QED BY <2>3, <2>4
  <1>11. Sole'
    <2>1. ASSUME NEW q \in Run, NEW b \in todo'[q]
          PROVE  Sole!(q)!(b)'
      BY <1>4, <1>10 DEF UInv, Sole
    <2> QED BY <2>1 DEF Sole
  <1>12. Fresh'
    <2>1. ASSUME NEW q \in Run, NEW b \in todo'[q], b.kind = "open"
          PROVE  OpenIssues(b.fp)' = {} /\ \A e \in listed'[q] : e.fp # b.fp
      BY <1>4, <1>10, <2>1 DEF UInv, Fresh
    <2> QED BY <2>1 DEF Fresh
  <1> QED BY <1>6, <1>8, <1>9, <1>11, <1>12 DEF UInv

\* What a run writes into the body of an issue is the marker it listed the issue
\* with: nothing changes, or a marker that was edited away is restored.
LEMMA RefreshMeaning ==
    ASSUME IInv, UInv, NEW r \in Run, RefreshIssue(r)
    PROVE  \E a \in todo[r] :
              /\ a.kind = "update" /\ a.number \in Number /\ a.fp \in Fingerprint
              /\ pc[r] = "execute"
              /\ found[r][a.fp] = "drift" /\ a.fp \in checkout[r]
              /\ \E d \in listed[r] : d.fp = a.fp /\ d.number = a.number
              /\ issue[a.number].fp \in {a.fp, NoMarker}
              /\ issue'[a.number].fp = a.fp
              /\ \A n \in Number \ {a.number} : issue'[n] = issue[n]
              /\ \A n \in Number : /\ issue'[n].state = issue[n].state
                                   /\ issue'[n].labels = issue[n].labels
              /\ \A f \in Fingerprint \ {a.fp} : OpenIssues(f)' = OpenIssues(f)
              /\ OpenIssues(a.fp) \subseteq OpenIssues(a.fp)'
              /\ OpenIssues(a.fp)' \subseteq {a.number}
  <1>1. PICK a \in Turn(r, "update") : issue' = [issue EXCEPT ![a.number].fp = a.fp]
    BY DEF RefreshIssue
  <1>2. /\ a \in todo[r] /\ a.kind = "update" /\ pc[r] = "execute"
        /\ a.number \in Number /\ a.fp \in Fingerprint
        /\ found[r][a.fp] = "drift" /\ a.fp \in checkout[r]
    BY <1>1, TurnFact DEF IInv, Planned, TypeOK, IssueAction
  <1>3. /\ \E d \in listed[r] : d.fp = a.fp /\ d.number = a.number
        /\ OpenIssues(a.fp) \subseteq {a.number}
    BY <1>2 DEF UInv, Sole
  <1>4. issue[a.number].fp \in {a.fp, NoMarker}
    BY <1>3 DEF UInv, Faithful
  <1>5. issue \in [Number -> Issue]
    BY DEF IInv, TypeOK
  <1>6. /\ issue'[a.number].fp = a.fp
        /\ \A n \in Number \ {a.number} : issue'[n] = issue[n]
        /\ \A n \in Number : issue'[n].state = issue[n].state /\ issue'[n].labels = issue[n].labels
    BY <1>1, <1>2, <1>5 DEF Issue
  <1>7. \A n \in Number : Visible(n)' = Visible(n)
    BY <1>6 DEF Visible
  <1>8. \A f \in Fingerprint \ {a.fp} : OpenIssues(f)' = OpenIssues(f)
    BY <1>4, <1>6, <1>7, FingerprintAssumption DEF OpenIssues
  <1>9. /\ OpenIssues(a.fp) \subseteq OpenIssues(a.fp)'
        /\ OpenIssues(a.fp)' \subseteq {a.number}
    BY <1>3, <1>6, <1>7 DEF OpenIssues
  <1> QED BY <1>2, <1>3, <1>4, <1>6, <1>8, <1>9

\* A restored marker duplicates none: no other open issue bears it.
LEMMA RefreshIssueUnique ==
    ASSUME IInv, UInv, NEW r \in Run, RefreshIssue(r)
    PROVE  UInv'
  <1>1. UNCHANGED <<pc, listed, todo>>
    BY DEF RefreshIssue, reading
  <1>2. PICK a \in todo[r] :
           /\ a.kind = "update" /\ a.number \in Number /\ a.fp \in Fingerprint
           /\ pc[r] = "execute"
           /\ \E d \in listed[r] : d.fp = a.fp /\ d.number = a.number
           /\ issue'[a.number].fp = a.fp
           /\ \A n \in Number \ {a.number} : issue'[n] = issue[n]
           /\ \A f \in Fingerprint \ {a.fp} : OpenIssues(f)' = OpenIssues(f)
           /\ OpenIssues(a.fp)' \subseteq {a.number}
    BY RefreshMeaning
  <1>3. PICK d \in listed[r] : d.fp = a.fp /\ d.number = a.number
    BY <1>2
  <1>4. \A q \in Run \ {r} : pc[q] = "idle" /\ listed[q] = {} /\ todo[q] = {}
    BY <1>2 DEF IInv, Exclusion, Resting, UInv, Distinct
  <1>5. OneOpenIssue'
    BY <1>2 DEF UInv, OneOpenIssue
  <1>6. Covered' /\ Distinct'
    BY <1>1, <1>2, <1>4 DEF UInv, Covered, Distinct
  <1>7. Faithful'
    <2>1. ASSUME NEW e \in listed[r]
          PROVE  issue'[e.number].fp \in {e.fp, NoMarker}
      <3>1. CASE e.number = a.number
        BY <1>2, <1>3, <3>1 DEF UInv, Distinct
      <3>2. CASE e.number # a.number
        <4>1. e.number \in Number
          BY DEF IInv, TypeOK, ListedIssue
        <4> QED BY <1>2, <3>2, <4>1 DEF UInv, Faithful
      <3> QED BY <3>1, <3>2
    <2> QED BY <1>1, <1>4, <2>1 DEF Faithful
  <1>8. Sole'
    <2>1. ASSUME NEW b \in todo[r], b.kind # "open"
          PROVE  OpenIssues(b.fp)' \subseteq {b.number}
      <3>1. b.fp \in Fingerprint
        BY DEF IInv, TypeOK, IssueAction
      <3>2. PICK e \in listed[r] : e.fp = b.fp /\ e.number = b.number
        BY <2>1 DEF UInv, Sole
      <3>3. CASE b.fp = a.fp
        BY <1>2, <1>3, <3>1, <3>2, <3>3 DEF UInv, Distinct
      <3>4. CASE b.fp # a.fp
        BY <1>2, <2>1, <3>1, <3>4 DEF UInv, Sole
      <3> QED BY <3>3, <3>4
    <2>2. ASSUME NEW q \in Run, NEW b \in todo'[q]
          PROVE  Sole!(q)!(b)'
      <3>1. q = r /\ b \in todo[r]
        BY <1>1, <1>4, <2>2
      <3> QED BY <1>1, <2>1, <3>1 DEF UInv, Sole
    <2> QED BY <2>2 DEF Sole
  <1>9. Fresh'
    <2>1. ASSUME NEW q \in Run, NEW b \in todo'[q], b.kind = "open"
          PROVE  OpenIssues(b.fp)' = {} /\ \A e \in listed'[q] : e.fp # b.fp
      <3>1. q = r /\ b \in todo[r] /\ b.fp \in Fingerprint
        BY <1>1, <1>4, <2>1 DEF IInv, TypeOK, IssueAction
      <3>2. OpenIssues(b.fp) = {} /\ \A e \in listed[r] : e.fp # b.fp
        BY <2>1, <3>1 DEF UInv, Fresh
      <3> QED BY <1>1, <1>2, <1>3, <3>1, <3>2
    <2> QED BY <2>1 DEF Fresh
  <1> QED BY <1>5, <1>6, <1>7, <1>8, <1>9 DEF UInv

\* The other writing steps: no issue opens, and no marker is written.
LEMMA ExecuteQuiet ==
    ASSUME IInv, UInv, NEW r \in Run,
           CommentRecurrence(r) \/ CommentResolution(r) \/ CloseIssue(r)
    PROVE  UInv'
  <1>1. UNCHANGED <<pc, listed>>
    BY DEF CommentRecurrence, CommentResolution, CloseIssue, reading
  <1>2. \A q \in Run : todo'[q] \subseteq todo[q]
    <2>1. Execute(r) /\ ~ Finish(r)
      BY TurnFact DEF Execute, Finish, CommentRecurrence, CommentResolution, CloseIssue,
                      IInv, Planned
    <2> QED BY <2>1, ExecuteDrops
  <1>3. issue \in [Number -> Issue]
    BY DEF IInv, TypeOK
  <1>4. Quiet
    <2>1. CASE CommentRecurrence(r)
      BY <2>1 DEF CommentRecurrence, Quiet, Visible
    <2>2. CASE CommentResolution(r)
      <3>1. PICK n : issue' = [issue EXCEPT ![n].told = TRUE]
        BY <2>2 DEF CommentResolution
      <3> QED BY <1>3, <3>1 DEF Quiet, Visible, Issue
    <2>3. CASE CloseIssue(r)
      <3>1. PICK n : issue' = [issue EXCEPT ![n].state = "closed"]
        BY <2>3 DEF CloseIssue
      <3> QED BY <1>3, <3>1 DEF Quiet, Visible, Issue
    <2> QED BY <2>1, <2>2, <2>3
  <1> QED BY <1>1, <1>2, <1>4, QuietStep

LEMMA LeaveQuiet ==
    ASSUME IInv, UInv, NEW r \in Run, Leave(r)
    PROVE  UInv'
  <1>1. Quiet
    BY DEF Leave, Quiet, Visible
  <1>2. /\ listed'[r] = {} /\ todo'[r] = {} /\ pc'[r] = "idle"
        /\ \A q \in Run \ {r} : pc'[q] = pc[q] /\ listed'[q] = listed[q] /\ todo'[q] = todo[q]
    BY DEF Leave, IInv, TypeOK
  <1> QED BY <1>1, <1>2, QuietStep

\* Reading a leg, starting, and the surroundings, when nobody reopens an issue.
LEMMA OtherQuiet ==
    ASSUME IInv, UInv, "reopen" \notin HumanMoves,
           \/ \E r \in Run : Start(r) \/ (RunPlan(r) /\ ~ Leave(r)) \/ Sweep(r)
           \/ Surroundings
           \/ UNCHANGED vars
    PROVE  UInv'
  <1>1. UNCHANGED <<listed, todo>>
    BY DEF Start, RunPlan, Sweep, Surroundings, LiveChange, GovernanceEdit, HumanMove, reading, vars
  <1>2. \A q \in Run :
           /\ pc'[q] \in {"sweep", "assert"} => pc[q] \in {"sweep", "assert"}
           /\ pc'[q] \in {"idle", "plan", "list"} => pc[q] \in {"idle", "plan", "list"}
    <2>1. ASSUME NEW r \in Run, Start(r) \/ (RunPlan(r) /\ ~ Leave(r)) \/ Sweep(r)
          PROVE  \/ pc[r] = "idle" /\ pc' = [pc EXCEPT ![r] = "plan"]
                 \/ pc[r] = "plan" /\ pc' = [pc EXCEPT ![r] = "list"]
                 \/ pc[r] = "sweep" /\ pc' = [pc EXCEPT ![r] = "assert"]
      BY <2>1 DEF Start, RunPlan, Sweep
    <2>2. UNCHANGED pc \/ \E r \in Run : Start(r) \/ (RunPlan(r) /\ ~ Leave(r)) \/ Sweep(r)
      BY DEF Surroundings, LiveChange, GovernanceEdit, HumanMove, vars
    <2> QED BY <2>1, <2>2 DEF IInv, TypeOK
  <1>3. Quiet
    <2>1. CASE UNCHANGED issue
      BY <2>1 DEF Quiet, Visible
    <2>2. ASSUME NEW n \in Number, HumanMove(n)
          PROVE  Quiet
      <3>1. /\ issue \in [Number -> Issue]
            /\ \/ issue' = [issue EXCEPT ![n].state = "closed"]
               \/ issue' = [issue EXCEPT ![n].fp = NoMarker]
        BY <2>2 DEF HumanMove, IInv, TypeOK
      <3>2. CASE issue' = [issue EXCEPT ![n].state = "closed"]
        BY <3>1, <3>2 DEF Quiet, Visible, Issue
      <3>3. CASE issue' = [issue EXCEPT ![n].fp = NoMarker]
        BY <3>1, <3>3 DEF Quiet, Visible, Issue
      <3> QED BY <3>1, <3>2, <3>3
    <2>3. UNCHANGED issue \/ \E n \in Number : HumanMove(n)
      BY DEF Start, RunPlan, Sweep, Surroundings, LiveChange, GovernanceEdit, vars
    <2> QED BY <2>1, <2>2, <2>3
  <1> QED BY <1>1, <1>2, <1>3, QuietStep

LEMMA UniqueStep ==
    ASSUME IInv, UInv, "reopen" \notin HumanMoves, [Next]_vars, TypeOK'
    PROVE  UInv'
  <1>1. ASSUME NEW r \in Run, Start(r) \/ Advance(r) \/ Abort(r)
        PROVE  UInv'
    <2>1. CASE Leave(r)
      BY <2>1, LeaveQuiet
    <2>2. CASE Start(r) \/ (RunPlan(r) /\ ~ Leave(r)) \/ Sweep(r)
      BY <2>2, OtherQuiet
    <2>3. CASE ListIssues(r)
      BY <2>3, ListIssuesUnique
    <2>4. CASE Assert(r)
      BY <2>4, AssertUnique
    <2>5. CASE CreateIssue(r)
      BY <2>5, CreateIssueUnique
    <2>6. CASE RefreshIssue(r)
      BY <2>6, RefreshIssueUnique
    <2>7. CASE CommentRecurrence(r) \/ CommentResolution(r) \/ CloseIssue(r)
      BY <2>7, ExecuteQuiet
    <2>8. CASE Finish(r) \/ Abort(r)
      BY <2>1, <2>8 DEF Finish, Abort
    <2> QED BY <1>1, <2>1, <2>2, <2>3, <2>4, <2>5, <2>6, <2>7, <2>8 DEF Advance, Execute
  <1>2. ASSUME Surroundings \/ UNCHANGED vars
        PROVE  UInv'
    BY <1>2, OtherQuiet
  <1> QED BY <1>1, <1>2 DEF Next

\* ADR-0002's one deduplicated issue per divergence, for any number of
\* divergences, runs and issues: no cut-off run, lost answer, failed leg, issue
\* closed by hand or marker edited away, before a run lists the issue or while it
\* works on it, ever leads to two open issues for one divergence.
THEOREM OneOpenIssueCorrect ==
    ASSUME "reopen" \notin HumanMoves
    PROVE  Spec => []OneOpenIssue
  <1>1. Init => UInv
    BY DEF Init, UInv, OneOpenIssue, Covered, Distinct, Faithful, Sole, Fresh, OpenIssues,
           Visible, NoIssue
  <1>2. IInv /\ UInv /\ [Next]_vars /\ TypeOK' => UInv'
    BY UniqueStep
  <1>3. UInv => OneOpenIssue
    BY DEF UInv
  <1> QED BY <1>1, <1>2, <1>3, Invariant, TypeCorrect, PTL DEF Spec

-----------------------------------------------------------------------------
\* A run closes no issue it has not commented.

\* The steps that write issues.
LEMMA IssueWriters ==
    ASSUME [Next]_vars
    PROVE  \/ UNCHANGED issue
           \/ \E r \in Run :
                 CreateIssue(r) \/ RefreshIssue(r) \/ CommentResolution(r) \/ CloseIssue(r)
           \/ \E n \in Number : HumanMove(n)
  BY DEF Next, Advance, Execute, Surroundings, Start, Abort, RunPlan, ListIssues, Sweep, Assert,
         CommentRecurrence, Finish, Leave, LiveChange, GovernanceEdit, vars

\* The issue whose closing is begun bears the comment.
Explained == \A r \in Run : \A a \in half[r] : a.kind = "close" => issue[a.number].told

\* Nobody takes the comment away.
LEMMA CommentsStay ==
    ASSUME IInv, "reopen" \notin HumanMoves, [Next]_vars,
           NEW n \in Number, issue[n].state # "none", issue[n].told
    PROVE  issue'[n].told
  <1>1. issue \in [Number -> Issue]
    BY DEF IInv, TypeOK
  <1>2. ASSUME NEW r \in Run, CreateIssue(r)
        PROVE  issue'[n].told
    <2>1. PICK m \in Number : issue[m].state = "none" /\ \E i : issue' = [issue EXCEPT ![m] = i]
      BY <1>2 DEF CreateIssue, NextNumber
    <2>2. PICK i : issue' = [issue EXCEPT ![m] = i]
      BY <2>1
    <2> QED BY <1>1, <2>1, <2>2
  <1>3. ASSUME NEW r \in Run, RefreshIssue(r) \/ CommentResolution(r) \/ CloseIssue(r)
        PROVE  issue'[n].told
    <2>1. PICK m, fp : \/ issue' = [issue EXCEPT ![m].fp = fp]
                       \/ issue' = [issue EXCEPT ![m].told = TRUE]
                       \/ issue' = [issue EXCEPT ![m].state = "closed"]
      BY <1>3 DEF RefreshIssue, CommentResolution, CloseIssue
    <2> QED BY <1>1, <2>1 DEF Issue
  <1>4. ASSUME NEW m \in Number, HumanMove(m)
        PROVE  issue'[n].told
    <2>1. \/ issue' = [issue EXCEPT ![m].fp = NoMarker]
          \/ issue' = [issue EXCEPT ![m].state = "closed"]
      BY <1>4 DEF HumanMove
    <2> QED BY <1>1, <2>1 DEF Issue
  <1> QED BY <1>2, <1>3, <1>4, IssueWriters

LEMMA ExplainedStep ==
    ASSUME IInv, Explained, "reopen" \notin HumanMoves, [Next]_vars
    PROVE  Explained'
  <1> SUFFICES ASSUME NEW q \in Run, NEW a \in half'[q], a.kind = "close"
               PROVE  issue'[a.number].told
    BY DEF Explained
  <1>1. CASE a \in half[q]
    <2>1. a.number \in Number /\ issue[a.number].state # "none" /\ issue[a.number].told
      BY <1>1 DEF IInv, Planned, Explained
    <2> QED BY <2>1, CommentsStay
  <1>2. CASE a \notin half[q]
    <2>1. PICK r, b :
             /\ r \in Run
             /\ half' = [half EXCEPT ![r] = {b}]
             /\ b \in todo[r]
             /\ b.kind = "close" => issue' = [issue EXCEPT ![b.number].told = TRUE]
      <3>1. ASSUME NEW r \in Run, RefreshIssue(r) \/ CommentResolution(r)
            PROVE  \E b \in todo[r] :
                      /\ half' = [half EXCEPT ![r] = {b}]
                      /\ b.kind = "close" => issue' = [issue EXCEPT ![b.number].told = TRUE]
        BY <3>1, TurnFact DEF RefreshIssue, CommentResolution
      <3>2. \/ half'[q] \subseteq half[q]
            \/ \E r \in Run : RefreshIssue(r) \/ CommentResolution(r)
        <4>1. ASSUME NEW r \in Run, Start(r) \/ Advance(r) \/ Abort(r),
                     ~ (RefreshIssue(r) \/ CommentResolution(r))
              PROVE  half' = half \/ half' = [half EXCEPT ![r] = {}]
          BY <4>1 DEF Advance, Execute, Start, Abort, RunPlan, ListIssues, Sweep, Assert,
                      CreateIssue, CommentRecurrence, CloseIssue, Finish, Leave
        <4>2. ASSUME Surroundings \/ UNCHANGED vars
              PROVE  half' = half
          BY <4>2 DEF Surroundings, LiveChange, GovernanceEdit, HumanMove, vars
        <4> QED BY <4>1, <4>2 DEF Next, IInv, TypeOK
      <3> QED BY <1>2, <3>1, <3>2
    <2>2. a = b /\ q = r
      BY <1>2, <2>1 DEF IInv, TypeOK
    <2>3. a.number \in Number
      BY <2>1, <2>2 DEF IInv, Planned
    <2> QED BY <2>1, <2>2, <2>3 DEF IInv, TypeOK, Issue
  <1> QED BY <1>1, <1>2

\* The issue is the audit record: whatever run is cut off between its two calls,
\* no run ever closes an issue without the comment that says why, for any number
\* of issues, runs and divergences, as long as nobody reopens an issue.  (A
\* person who reopens one between the two calls makes the run close it again
\* under the old comment.)
THEOREM ClosedWithReasonCorrect ==
    ASSUME "reopen" \notin HumanMoves
    PROVE  Spec => ClosedWithReason
  <1>1. Init => Explained
    BY DEF Init, Explained
  <1>2. IInv /\ Explained /\ [Next]_vars => Explained'
    BY ExplainedStep
  <1>3. IInv /\ Explained /\ [Next]_vars =>
           [\A n \in Number : /\ issue[n].state = "open"
                              /\ issue'[n].state = "closed"
                              /\ UNCHANGED spent
                              => issue[n].told]_vars
    <2> SUFFICES ASSUME IInv, Explained, [Next]_vars,
                        NEW n \in Number, issue[n].state = "open", issue'[n].state = "closed",
                        UNCHANGED spent
                 PROVE  issue[n].told
      OBVIOUS
    <2>1. issue \in [Number -> Issue] /\ spent["human"] \in Nat
      BY DEF IInv, TypeOK
    <2>2. ASSUME NEW r \in Run, CreateIssue(r)
          PROVE  FALSE
      <3>1. PICK m, a :
               issue' = [issue EXCEPT ![m] =
                  [state |-> "open", fp |-> a.fp, labels |-> LabelsOf(a.leg), told |-> FALSE]]
        BY <2>2 DEF CreateIssue
      <3> QED BY <2>1, <3>1
    <2>3. ASSUME NEW r \in Run, RefreshIssue(r) \/ CommentResolution(r)
          PROVE  FALSE
      <3>1. PICK m, fp : \/ issue' = [issue EXCEPT ![m].fp = fp]
                         \/ issue' = [issue EXCEPT ![m].told = TRUE]
        BY <2>3 DEF RefreshIssue, CommentResolution
      <3> QED BY <2>1, <3>1 DEF Issue
    <2>4. ASSUME NEW m \in Number, HumanMove(m)
          PROVE  FALSE
      BY <2>1, <2>4 DEF HumanMove, Spend, IInv, TypeOK
    <2>5. ASSUME NEW r \in Run, CloseIssue(r)
          PROVE  issue[n].told
      <3>1. PICK a \in half[r] :
               a.kind = "close" /\ issue' = [issue EXCEPT ![a.number].state = "closed"]
        BY <2>5 DEF CloseIssue
      <3>2. n = a.number
        BY <2>1, <3>1
      <3> QED BY <3>1, <3>2 DEF Explained
    <2> QED BY <2>2, <2>3, <2>4, <2>5, IssueWriters
  <1> QED BY <1>1, <1>2, <1>3, Invariant, PTL DEF Spec, ClosedWithReason

-----------------------------------------------------------------------------
\* A run that has executed everything leaves the issues as it read the world.

\* What was listed is still open and marked, but for issues people moved.
Standing ==
    \A r \in Run : pc[r] \in {"sweep", "assert"} =>
        \A e \in listed[r] : e.fp \in Fingerprint \ disturbed =>
            Visible(e.number) /\ issue[e.number].fp = e.fp

\* Where the issues of a leg that was read are not yet as the leg found the
\* world, the plan holds the action that makes them so.
Owed ==
    \A r \in Run : pc[r] = "execute" =>
        \A f \in Fingerprint \ disturbed :
            LegOf[f] \in ran[r] /\ found[r][f] # "unresolved" =>
                IF found[r][f] = "drift" /\ f \in checkout[r]
                THEN OpenIssues(f) = {} => \E a \in todo[r] : a.kind = "open" /\ a.fp = f
                ELSE \A n \in OpenIssues(f) :
                        \E a \in todo[r] : a.kind = "close" /\ a.fp = f /\ a.number = n

OInv == Standing /\ Owed

\* A divergence that is to be reported and has no listed issue is opened.
LEMMA DecideOpens ==
    ASSUME NEW legs, NEW verdict, NEW counted, NEW issues,
           NEW f \in counted \cap Fingerprint, verdict[f] = "drift", LegOf[f] \in legs,
           legs \in SUBSET Leg,
           \A e \in issues : e.fp # f
    PROVE  \E a \in Decide(legs, verdict, counted, issues) : a.kind = "open" /\ a.fp = f
  <1> DEFINE drifts == {d \in Fingerprint : verdict[d] = "drift"}
             unresolved == {d \in Fingerprint : verdict[d] = "unresolved"}
             leg == LegOf[f]
             a == [kind |-> "open", leg |-> leg, fp |-> f, number |-> 0]
  <1>1. f \in (drifts \cap FingerprintsOf(leg)) \ (Fingerprint \ counted)
    BY DEF FingerprintsOf
  <1>2. \A c \in Current(Population(leg, issues, unresolved)) : c.fp # f
    BY PopulationSubset DEF Current
  <1>3. a \in ReconcileLeg(leg, drifts \cap FingerprintsOf(leg), Fingerprint \ counted,
                           Population(leg, issues, unresolved))
    BY <1>1, <1>2 DEF ReconcileLeg
  <1>4. a \in Decide(legs, verdict, counted, issues)
    BY <1>3 DEF Decide, ReconcilePopulations
  <1>5. a.kind = "open" /\ a.fp = f
    OBVIOUS
  <1> QED BY <1>4, <1>5

\* The one listed issue of a divergence that is not to be reported is closed.
LEMMA DecideCloses ==
    ASSUME NEW legs, NEW verdict, NEW counted, NEW issues, NEW e \in issues,
           e.fp \in Fingerprint, LegOf[e.fp] \in legs,
           legs \in SUBSET Leg,
           verdict[e.fp] # "unresolved",
           verdict[e.fp] # "drift" \/ e.fp \notin counted,
           e.labels = LabelsOf(LegOf[e.fp]), e.number \in Nat,
           \A d \in issues : d.fp = e.fp => d = e
    PROVE  \E a \in Decide(legs, verdict, counted, issues) :
              a.kind = "close" /\ a.fp = e.fp /\ a.number = e.number
  <1> DEFINE drifts == {d \in Fingerprint : verdict[d] = "drift"}
             unresolved == {d \in Fingerprint : verdict[d] = "unresolved"}
             leg == LegOf[e.fp]
             a == [kind |-> "close", leg |-> leg, fp |-> e.fp, number |-> e.number]
  <1>1. e.fp \notin (drifts \cap FingerprintsOf(leg)) \ (Fingerprint \ counted)
    OBVIOUS
  <1>2. e \in Population(leg, issues, unresolved)
    BY DEF Population, Leg, LabelsOf
  <1>3. e \in Current(Population(leg, issues, unresolved))
    <2>1. \A d \in Population(leg, issues, unresolved) : d.fp = e.fp => e.number <= d.number
      BY PopulationSubset
    <2> QED BY <1>2, <2>1, FingerprintAssumption DEF Current
  <1>4. a \in ReconcileLeg(leg, drifts \cap FingerprintsOf(leg), Fingerprint \ counted,
                           Population(leg, issues, unresolved))
    BY <1>1, <1>3 DEF ReconcileLeg
  <1>5. a \in Decide(legs, verdict, counted, issues)
    BY <1>4 DEF Decide, ReconcilePopulations
  <1>6. a.kind = "close" /\ a.fp = e.fp /\ a.number = e.number
    OBVIOUS
  <1> QED BY <1>5, <1>6

\* Steps that open or close no issue but those they mark as disturbed, and leave
\* the plan of a run that executes as it is.
LEMMA OwedStays ==
    ASSUME IInv, OInv, disturbed \subseteq disturbed',
           \A f \in Fingerprint \ disturbed' : OpenIssues(f)' = OpenIssues(f),
           \A q \in Run :
              /\ todo'[q] \subseteq todo[q]
              /\ pc'[q] \in {"sweep", "assert"} =>
                    pc[q] \in {"sweep", "assert"} /\ listed'[q] = listed[q]
              /\ pc'[q] = "execute" =>
                    /\ pc[q] = "execute" /\ checkout'[q] = checkout[q]
                    /\ found'[q] = found[q] /\ ran'[q] = ran[q]
                    /\ \A a \in todo[q] : a.kind # "update" => a \in todo'[q],
           \A q \in Run : \A e \in listed[q] :
              e.fp \in Fingerprint \ disturbed' =>
                 Visible(e.number)' = Visible(e.number) /\ issue'[e.number].fp = issue[e.number].fp
    PROVE  OInv'
  <1>1. Standing'
    BY DEF OInv, Standing
  <1>2. Owed'
    <2> SUFFICES ASSUME NEW q \in Run, pc'[q] = "execute", NEW f \in Fingerprint \ disturbed',
                        LegOf[f] \in ran'[q], found'[q][f] # "unresolved"
                 PROVE  IF found'[q][f] = "drift" /\ f \in checkout'[q]
                        THEN OpenIssues(f)' = {} => \E a \in todo'[q] : a.kind = "open" /\ a.fp = f
                        ELSE \A n \in OpenIssues(f)' :
                                \E a \in todo'[q] : a.kind = "close" /\ a.fp = f /\ a.number = n
      BY DEF Owed
    <2>1. IF found[q][f] = "drift" /\ f \in checkout[q]
          THEN OpenIssues(f) = {} => \E a \in todo[q] : a.kind = "open" /\ a.fp = f
          ELSE \A n \in OpenIssues(f) :
                  \E a \in todo[q] : a.kind = "close" /\ a.fp = f /\ a.number = n
      BY DEF OInv, Owed
    <2> QED BY <2>1
  <1> QED BY <1>1, <1>2 DEF OInv

\* The listing is what is open.
LEMMA ListIssuesOwed ==
    ASSUME IInv, OInv, NEW r \in Run, ListIssues(r)
    PROVE  OInv'
  <1>1. /\ UNCHANGED <<issue, todo>> /\ pc[r] = "list"
        /\ \A q \in Run \ {r} : pc[q] = "idle" /\ todo[q] = {}
        /\ pc' = [pc EXCEPT ![r] = "sweep"]
        /\ todo[r] = {}
    BY DEF ListIssues, IInv, Exclusion, Resting
  <1>2. \A e \in listed'[r] : Visible(e.number)' /\ issue'[e.number].fp = e.fp
    <2>1. listed'[r] = {[number |-> n, fp |-> issue[n].fp, labels |-> issue[n].labels] :
                           n \in {m \in Number : Visible(m)}}
      BY DEF ListIssues, IInv, TypeOK
    <2> QED BY <1>1, <2>1 DEF Visible
  <1>3. \A q \in Run \ {r} : pc'[q] = "idle"
    BY <1>1 DEF IInv, TypeOK
  <1>4. pc'[r] = "sweep"
    BY <1>1 DEF IInv, TypeOK
  <1>5. Standing' /\ Owed'
    BY <1>2, <1>3, <1>4 DEF Standing, Owed
  <1> QED BY <1>5 DEF OInv

\* The reconciliation plans whatever is owed.
LEMMA AssertOwed ==
    ASSUME IInv, UInv, OInv, NEW r \in Run, Assert(r), TypeOK'
    PROVE  OInv'
  <1>1. /\ UNCHANGED <<issue, listed, checkout, disturbed>>
        /\ pc[r] = "assert"
        /\ pc' = [pc EXCEPT ![r] = "execute"]
        /\ todo' = [todo EXCEPT ![r] = Decide(ran'[r], found'[r], checkout[r], listed[r])]
    BY DEF Assert
  <1>2. \A q \in Run \ {r} : pc'[q] = "idle" /\ todo'[q] = {}
    BY <1>1 DEF IInv, TypeOK, Exclusion, Resting
  <1>3. pc'[r] = "execute" /\ todo'[r] = Decide(ran'[r], found'[r], checkout[r], listed[r])
    BY <1>1 DEF IInv, TypeOK
  <1>4. /\ Known'
        /\ listed[r] \subseteq ListedIssue(Number)
        /\ ran'[r] \in SUBSET Leg
        /\ \A e \in listed[r] : e.fp \in Fingerprint => e.labels = LabelsOf(LegOf[e.fp])
    BY AssertStep DEF IInv, TypeOK, Listed
  <1>5. \A f : OpenIssues(f)' = OpenIssues(f)
    BY <1>1 DEF OpenIssues, Visible
  <1>6. ASSUME NEW f \in Fingerprint, NEW n \in OpenIssues(f)
        PROVE  \E e \in listed[r] :
                  /\ e.number = n /\ e.fp = f
                  /\ \A d \in listed[r] : d.fp = f => d = e
    <2>1. n \in Number /\ Visible(n) /\ issue[n].fp = f
      BY DEF OpenIssues
    <2>2. PICK e \in listed[r] : e.number = n /\ e.fp = f
      BY <1>1, <2>1 DEF UInv, Covered
    <2>3. \A d \in listed[r] : d.fp = f => d = e
      BY <2>2 DEF UInv, Distinct
    <2> QED BY <2>2, <2>3
  <1>7. Standing'
    BY <1>2, <1>3 DEF Standing
  <1>8. Owed'
    <2> SUFFICES ASSUME NEW f \in Fingerprint \ disturbed,
                        LegOf[f] \in ran'[r], found'[r][f] # "unresolved"
                 PROVE  IF found'[r][f] = "drift" /\ f \in checkout[r]
                        THEN OpenIssues(f) = {} => \E a \in todo'[r] : a.kind = "open" /\ a.fp = f
                        ELSE \A n \in OpenIssues(f) :
                                \E a \in todo'[r] : a.kind = "close" /\ a.fp = f /\ a.number = n
      BY <1>1, <1>2, <1>3, <1>5 DEF Owed
    <2>1. ASSUME found'[r][f] = "drift", f \in checkout[r], OpenIssues(f) = {}
          PROVE  \E a \in todo'[r] : a.kind = "open" /\ a.fp = f
      <3>1. ASSUME NEW e \in listed[r], e.fp = f
            PROVE  FALSE
        <4>1. Visible(e.number) /\ issue[e.number].fp = f /\ e.number \in Number
          BY <1>1, <1>4, <3>1 DEF OInv, Standing, ListedIssue
        <4> QED BY <2>1, <4>1 DEF OpenIssues
      <3> QED BY <1>3, <1>4, <2>1, <3>1, DecideOpens
    <2>2. ASSUME ~ (found'[r][f] = "drift" /\ f \in checkout[r]), NEW n \in OpenIssues(f)
          PROVE  \E a \in todo'[r] : a.kind = "close" /\ a.fp = f /\ a.number = n
      <3>1. PICK e \in listed[r] : /\ e.number = n /\ e.fp = f
                                   /\ \A d \in listed[r] : d.fp = f => d = e
        BY <1>6
      <3>2. e.labels = LabelsOf(LegOf[e.fp]) /\ e.number \in Nat
        BY <1>4, <3>1 DEF OpenIssues, Number
      <3> QED BY <1>3, <1>4, <2>2, <3>1, <3>2, DecideCloses
    <2> QED BY <2>1, <2>2
  <1> QED BY <1>7, <1>8 DEF OInv

\* What a new issue, and the end of a closing, leave owed.
LEMMA CreateIssueOwed ==
    ASSUME IInv, UInv, OInv, NEW r \in Run, CreateIssue(r)
    PROVE  OInv'
  <1>1. PICK b \in Turn(r, "open"), n \in Number :
           /\ issue[n].state = "none"
           /\ issue' = [issue EXCEPT ![n] =
                 [state |-> "open", fp |-> b.fp, labels |-> LabelsOf(b.leg), told |-> FALSE]]
           /\ todo' = [todo EXCEPT ![r] = @ \ {b}]
           /\ UNCHANGED <<pc, listed, checkout, found, ran, disturbed>>
    BY DEF CreateIssue, NextNumber, reading
  <1>2. /\ b \in todo[r] /\ b.kind = "open" /\ pc[r] = "execute"
        /\ found[r][b.fp] = "drift" /\ b.fp \in checkout[r]
    BY <1>1, TurnFact DEF IInv, Planned
  <1>3. \A q \in Run \ {r} : pc[q] = "idle" /\ todo[q] = {}
    BY <1>2 DEF IInv, Exclusion, Resting
  <1>4. todo'[r] = todo[r] \ {b} /\ \A q \in Run \ {r} : todo'[q] = {}
    BY <1>1, <1>3 DEF IInv, TypeOK
  <1>5. /\ \A m \in Number \ {n} : issue'[m] = issue[m]
        /\ issue'[n].state = "open" /\ issue'[n].fp = b.fp /\ ~ Visible(n)
        /\ "drift" \in issue'[n].labels
    BY <1>1 DEF IInv, TypeOK, Visible, LabelsOf
  <1>6. /\ \A f : f # b.fp => OpenIssues(f)' = OpenIssues(f)
        /\ OpenIssues(b.fp)' # {}
    BY <1>5 DEF OpenIssues, Visible
  <1>7. Standing'
    BY <1>1, <1>2, <1>3 DEF Standing
  <1>8. Owed'
    <2> SUFFICES ASSUME NEW f \in Fingerprint \ disturbed,
                        LegOf[f] \in ran[r], found[r][f] # "unresolved"
                 PROVE  IF found[r][f] = "drift" /\ f \in checkout[r]
                        THEN OpenIssues(f)' = {} => \E a \in todo'[r] : a.kind = "open" /\ a.fp = f
                        ELSE \A m \in OpenIssues(f)' :
                                \E a \in todo'[r] : a.kind = "close" /\ a.fp = f /\ a.number = m
      BY <1>1, <1>3 DEF Owed
    <2>1. CASE f = b.fp
      BY <1>2, <1>6, <2>1
    <2>2. CASE f # b.fp
      <3>1. IF found[r][f] = "drift" /\ f \in checkout[r]
            THEN OpenIssues(f) = {} => \E a \in todo[r] : a.kind = "open" /\ a.fp = f
            ELSE \A m \in OpenIssues(f) :
                    \E a \in todo[r] : a.kind = "close" /\ a.fp = f /\ a.number = m
        BY <1>2 DEF OInv, Owed
      <3> QED BY <1>4, <1>6, <2>2, <3>1
    <2> QED BY <2>1, <2>2
  <1> QED BY <1>7, <1>8 DEF OInv

\* What the closing of an issue leaves open for its divergence: nothing.
LEMMA CloseIssueMeaning ==
    ASSUME IInv, UInv, NEW r \in Run, NEW b \in half[r], b.kind = "close",
           issue' = [issue EXCEPT ![b.number].state = "closed"]
    PROVE  /\ b \in todo[r] /\ b.fp \in Fingerprint
           /\ found[r][b.fp] # "drift" \/ b.fp \notin checkout[r]
           /\ found[r][b.fp] \notin {"unread", "unresolved"}
           /\ OpenIssues(b.fp)' = {}
           /\ \A f \in Fingerprint \ {b.fp} : OpenIssues(f)' = OpenIssues(f)
  <1>1. /\ b \in todo[r] /\ b.number \in Number
        /\ found[r][b.fp] # "drift" \/ b.fp \notin checkout[r]
        /\ found[r][b.fp] \notin {"unread", "unresolved"}
    BY DEF IInv, Planned
  <1>2. b.fp \in Fingerprint
    BY <1>1 DEF IInv, TypeOK, IssueAction
  <1>3. OpenIssues(b.fp) \subseteq {b.number} /\ issue[b.number].fp \in {b.fp, NoMarker}
    BY <1>1 DEF UInv, Sole, Faithful
  <1>4. issue \in [Number -> Issue]
    BY DEF IInv, TypeOK
  <1>5. /\ \A m \in Number \ {b.number} : issue'[m] = issue[m]
        /\ issue'[b.number].state = "closed"
    BY <1>1, <1>4 DEF Issue
  <1>6. /\ OpenIssues(b.fp)' = {}
        /\ \A f \in Fingerprint \ {b.fp} : OpenIssues(f)' = OpenIssues(f)
    BY <1>3, <1>5, FingerprintAssumption DEF OpenIssues, Visible
  <1> QED BY <1>1, <1>2, <1>6

LEMMA CloseIssueOwed ==
    ASSUME IInv, UInv, OInv, NEW r \in Run, CloseIssue(r)
    PROVE  OInv'
  <1>1. PICK b \in half[r] :
           /\ b.kind = "close"
           /\ issue' = [issue EXCEPT ![b.number].state = "closed"]
           /\ todo' = [todo EXCEPT ![r] = @ \ {b}]
           /\ UNCHANGED <<pc, listed, checkout, found, ran, disturbed>>
    BY DEF CloseIssue, reading
  <1>2. /\ b \in todo[r] /\ b.fp \in Fingerprint
        /\ found[r][b.fp] # "drift" \/ b.fp \notin checkout[r]
        /\ OpenIssues(b.fp)' = {}
        /\ \A f \in Fingerprint \ {b.fp} : OpenIssues(f)' = OpenIssues(f)
    BY <1>1, CloseIssueMeaning
  <1>3. pc[r] = "execute" /\ \A q \in Run \ {r} : pc[q] = "idle" /\ todo[q] = {}
    BY <1>2 DEF IInv, Exclusion, Resting
  <1>4. todo'[r] = todo[r] \ {b} /\ \A q \in Run \ {r} : todo'[q] = {}
    BY <1>1, <1>3 DEF IInv, TypeOK
  <1>5. Standing'
    BY <1>1, <1>3 DEF Standing
  <1>6. Owed'
    <2> SUFFICES ASSUME NEW f \in Fingerprint \ disturbed,
                        LegOf[f] \in ran[r], found[r][f] # "unresolved"
                 PROVE  IF found[r][f] = "drift" /\ f \in checkout[r]
                        THEN OpenIssues(f)' = {} => \E a \in todo'[r] : a.kind = "open" /\ a.fp = f
                        ELSE \A m \in OpenIssues(f)' :
                                \E a \in todo'[r] : a.kind = "close" /\ a.fp = f /\ a.number = m
      BY <1>1, <1>3 DEF Owed
    <2>1. CASE f = b.fp
      BY <1>2, <2>1
    <2>2. CASE f # b.fp
      <3>1. IF found[r][f] = "drift" /\ f \in checkout[r]
            THEN OpenIssues(f) = {} => \E a \in todo[r] : a.kind = "open" /\ a.fp = f
            ELSE \A m \in OpenIssues(f) :
                    \E a \in todo[r] : a.kind = "close" /\ a.fp = f /\ a.number = m
        BY <1>3 DEF OInv, Owed
      <3> QED BY <1>2, <1>4, <2>2, <3>1
    <2> QED BY <2>1, <2>2
  <1> QED BY <1>5, <1>6 DEF OInv

\* A marker that is written again opens no issue that is owed to be closed.
LEMMA RefreshIssueOwed ==
    ASSUME IInv, UInv, OInv, NEW r \in Run, RefreshIssue(r)
    PROVE  OInv'
  <1>1. UNCHANGED <<pc, listed, checkout, found, ran, todo, disturbed>>
    BY DEF RefreshIssue, reading
  <1>2. PICK b \in todo[r] :
           /\ pc[r] = "execute" /\ b.fp \in Fingerprint
           /\ found[r][b.fp] = "drift" /\ b.fp \in checkout[r]
           /\ \A f \in Fingerprint \ {b.fp} : OpenIssues(f)' = OpenIssues(f)
           /\ OpenIssues(b.fp) \subseteq OpenIssues(b.fp)'
    BY RefreshMeaning
  <1>3. \A q \in Run \ {r} : pc[q] = "idle"
    BY <1>2 DEF IInv, Exclusion
  <1>4. Standing'
    BY <1>1, <1>2, <1>3 DEF Standing
  <1>5. Owed'
    <2> SUFFICES ASSUME NEW f \in Fingerprint \ disturbed,
                        LegOf[f] \in ran[r], found[r][f] # "unresolved"
                 PROVE  IF found[r][f] = "drift" /\ f \in checkout[r]
                        THEN OpenIssues(f)' = {} => \E a \in todo[r] : a.kind = "open" /\ a.fp = f
                        ELSE \A m \in OpenIssues(f)' :
                                \E a \in todo[r] : a.kind = "close" /\ a.fp = f /\ a.number = m
      BY <1>1, <1>3 DEF Owed
    <2>1. IF found[r][f] = "drift" /\ f \in checkout[r]
          THEN OpenIssues(f) = {} => \E a \in todo[r] : a.kind = "open" /\ a.fp = f
          ELSE \A m \in OpenIssues(f) :
                  \E a \in todo[r] : a.kind = "close" /\ a.fp = f /\ a.number = m
      BY <1>2 DEF OInv, Owed
    <2>2. CASE f = b.fp
      BY <1>2, <2>1, <2>2
    <2>3. CASE f # b.fp
      BY <1>2, <2>1, <2>3
    <2> QED BY <2>2, <2>3
  <1> QED BY <1>4, <1>5 DEF OInv

\* A step that writes nothing but a comment leaves the open issues of every
\* divergence as they are.
LEMMA OpenIssuesStay ==
    ASSUME IInv, UNCHANGED issue \/ \E r \in Run : CommentResolution(r)
    PROVE  /\ \A f : OpenIssues(f)' = OpenIssues(f)
           /\ \A n \in Number : /\ Visible(n)' = Visible(n)
                                /\ issue'[n].fp = issue[n].fp
                                /\ issue'[n].state = issue[n].state
  <1>1. CASE UNCHANGED issue
    BY <1>1 DEF OpenIssues, Visible
  <1>2. ASSUME NEW r \in Run, CommentResolution(r)
        PROVE  \A n \in Number : /\ issue'[n].state = issue[n].state
                                 /\ issue'[n].labels = issue[n].labels
                                 /\ issue'[n].fp = issue[n].fp
    <2>1. issue \in [Number -> Issue]
      BY DEF IInv, TypeOK
    <2>2. PICK m : issue' = [issue EXCEPT ![m].told = TRUE]
      BY <1>2 DEF CommentResolution
    <2> QED BY <2>1, <2>2 DEF Issue
  <1> QED BY <1>1, <1>2 DEF OpenIssues, Visible

\* A person closes the one open issue of a divergence, or takes its marker away.
LEMMA HumanClears ==
    ASSUME IInv, UInv, "reopen" \notin HumanMoves, NEW n \in Number, HumanMove(n)
    PROVE  \E d \in Fingerprint :
              /\ issue[n].fp = d /\ issue[n].state = "open"
              /\ issue'[n].state # "none"
              /\ \A m \in Number \ {n} : issue'[m] = issue[m]
              /\ OpenIssues(d)' = {}
              /\ \A f \in Fingerprint \ {d} : OpenIssues(f)' = OpenIssues(f)
  <1>1. PICK d \in Fingerprint :
           /\ issue[n].fp = d /\ issue[n].state = "open"
           /\ issue \in [Number -> Issue]
           /\ \/ issue' = [issue EXCEPT ![n].state = "closed"]
              \/ issue' = [issue EXCEPT ![n].fp = NoMarker]
    BY DEF HumanMove, IInv, TypeOK
  <1>2. n \in OpenIssues(d)
    BY <1>1 DEF IInv, Labelled, LabelsOf, OpenIssues, Visible
  <1>3. OpenIssues(d) = {n}
    BY <1>1, <1>2 DEF UInv, OneOpenIssue
  <1>4. /\ \A m \in Number \ {n} : issue'[m] = issue[m]
        /\ \/ issue'[n].state = "closed" /\ issue'[n].fp = d
           \/ issue'[n].state = "open" /\ issue'[n].fp = NoMarker
    BY <1>1 DEF Issue
  <1>5. /\ OpenIssues(d)' = {}
        /\ \A f \in Fingerprint \ {d} : OpenIssues(f)' = OpenIssues(f)
    BY <1>1, <1>3, <1>4, FingerprintAssumption DEF OpenIssues, Visible
  <1> QED BY <1>1, <1>4, <1>5

\* The steps of a run that neither plan nor open nor close.
LEMMA RunOwed ==
    ASSUME IInv, OInv, NEW r \in Run,
           \/ Start(r) \/ (RunPlan(r) /\ ~ Leave(r)) \/ Sweep(r) \/ Leave(r)
           \/ CommentRecurrence(r) \/ CommentResolution(r)
    PROVE  OInv'
  <1>1. /\ \A f : OpenIssues(f)' = OpenIssues(f)
        /\ \A n \in Number : Visible(n)' = Visible(n) /\ issue'[n].fp = issue[n].fp
    BY OpenIssuesStay DEF Start, RunPlan, Sweep, Leave, CommentRecurrence
  <1>2. UNCHANGED disturbed
    BY DEF Start, RunPlan, Sweep, Leave, CommentRecurrence, CommentResolution
  <1>3. \A q \in Run \ {r} :
           /\ pc'[q] = pc[q] /\ checkout'[q] = checkout[q] /\ found'[q] = found[q]
           /\ ran'[q] = ran[q] /\ listed'[q] = listed[q] /\ todo'[q] = todo[q]
    BY DEF Start, RunPlan, Sweep, Leave, CommentRecurrence, CommentResolution,
           reading, IInv, TypeOK
  <1>4. /\ todo'[r] \subseteq todo[r]
        /\ pc'[r] \in {"sweep", "assert"} => pc[r] \in {"sweep", "assert"} /\ listed'[r] = listed[r]
        /\ pc'[r] = "execute" =>
              /\ pc[r] = "execute" /\ checkout'[r] = checkout[r]
              /\ found'[r] = found[r] /\ ran'[r] = ran[r]
              /\ \A a \in todo[r] : a.kind # "update" => a \in todo'[r]
    <2>1. CASE Start(r) \/ (RunPlan(r) /\ ~ Leave(r)) \/ Sweep(r)
      <3>1. UNCHANGED <<todo, listed>>
        BY <2>1 DEF Start, RunPlan, Sweep
      <3>2. pc'[r] \in {"plan", "list"} \/ (pc[r] = "sweep" /\ pc'[r] = "assert")
        BY <2>1 DEF Start, RunPlan, Sweep, IInv, TypeOK
      <3> QED BY <3>1, <3>2
    <2>2. CASE Leave(r)
      BY <2>2 DEF Leave, IInv, TypeOK
    <2>3. CASE CommentResolution(r)
      BY <2>3 DEF CommentResolution, reading
    <2>4. CASE CommentRecurrence(r)
      <3>1. PICK a \in half[r] : a.kind = "update" /\ todo' = [todo EXCEPT ![r] = @ \ {a}]
        BY <2>4 DEF CommentRecurrence
      <3> QED BY <2>4, <3>1 DEF CommentRecurrence, reading, IInv, TypeOK
    <2> QED BY <2>1, <2>2, <2>3, <2>4
  <1>5. \A q \in Run : \A e \in listed[q] :
           Visible(e.number)' = Visible(e.number) /\ issue'[e.number].fp = issue[e.number].fp
    BY <1>1 DEF IInv, TypeOK, ListedIssue
  <1> QED BY <1>1, <1>2, <1>3, <1>4, <1>5, OwedStays

LEMMA SurroundingsOwed ==
    ASSUME IInv, UInv, OInv, "reopen" \notin HumanMoves, Surroundings \/ UNCHANGED vars
    PROVE  OInv'
  <1>1. UNCHANGED <<pc, checkout, found, ran, listed, todo>>
    BY DEF Surroundings, LiveChange, GovernanceEdit, HumanMove, reading, vars
  <1>2. ASSUME NEW n \in Number, HumanMove(n)
        PROVE  OInv'
    <2>1. PICK d \in Fingerprint :
             /\ issue[n].fp = d
             /\ \A m \in Number \ {n} : issue'[m] = issue[m]
             /\ OpenIssues(d)' = {}
             /\ \A f \in Fingerprint \ {d} : OpenIssues(f)' = OpenIssues(f)
      BY <1>2, HumanClears
    <2>2. disturbed' = disturbed \cup {d}
      BY <1>2, <2>1 DEF HumanMove
    <2>3. Standing'
      <3>1. ASSUME NEW q \in Run, pc[q] \in {"sweep", "assert"},
                   NEW e \in listed[q], e.fp \in Fingerprint \ disturbed'
            PROVE  Visible(e.number)' /\ issue'[e.number].fp = e.fp
        <4>1. Visible(e.number) /\ issue[e.number].fp = e.fp /\ e.number \in Number
          BY <2>2, <3>1 DEF OInv, Standing, IInv, TypeOK, ListedIssue
        <4>2. e.number # n
          BY <2>1, <2>2, <3>1, <4>1
        <4> QED BY <2>1, <4>1, <4>2 DEF Visible
      <3> QED BY <1>1, <3>1 DEF Standing
    <2>4. Owed'
      <3>1. \A f \in Fingerprint \ disturbed' : f \notin disturbed /\ OpenIssues(f)' = OpenIssues(f)
        BY <2>1, <2>2
      <3> QED BY <1>1, <3>1 DEF OInv, Owed
    <2> QED BY <2>3, <2>4 DEF OInv
  <1>3. ASSUME UNCHANGED <<issue, disturbed>>
        PROVE  OInv'
    BY <1>1, <1>3 DEF OInv, Standing, Owed, OpenIssues, Visible
  <1> QED BY <1>2, <1>3 DEF Surroundings, LiveChange, GovernanceEdit, vars

LEMMA OwedStep ==
    ASSUME IInv, UInv, OInv, "reopen" \notin HumanMoves, [Next]_vars, TypeOK'
    PROVE  OInv'
  <1>1. ASSUME NEW r \in Run, Start(r) \/ Advance(r) \/ Abort(r)
        PROVE  OInv'
    <2>1. CASE Leave(r)
      BY <2>1, RunOwed
    <2>2. CASE Start(r) \/ (RunPlan(r) /\ ~ Leave(r)) \/ Sweep(r)
      BY <2>2, RunOwed
    <2>3. CASE ListIssues(r)
      BY <2>3, ListIssuesOwed
    <2>4. CASE Assert(r)
      BY <2>4, AssertOwed
    <2>5. CASE CreateIssue(r)
      BY <2>5, CreateIssueOwed
    <2>6. CASE CommentRecurrence(r) \/ CommentResolution(r)
      BY <2>6, RunOwed
    <2>7. CASE CloseIssue(r)
      BY <2>7, CloseIssueOwed
    <2>8. CASE RefreshIssue(r)
      BY <2>8, RefreshIssueOwed
    <2>9. CASE Finish(r) \/ Abort(r)
      BY <2>1, <2>9 DEF Finish, Abort
    <2> QED BY <1>1, <2>1, <2>2, <2>3, <2>4, <2>5, <2>6, <2>7, <2>8, <2>9
        DEF Advance, Execute
  <1>2. ASSUME Surroundings \/ UNCHANGED vars
        PROVE  OInv'
    BY <1>2, SurroundingsOwed
  <1> QED BY <1>1, <1>2 DEF Next

\* The invariants together, as long as nobody reopens an issue.
THEOREM IssueInvariant ==
    ASSUME "reopen" \notin HumanMoves
    PROVE  Spec => [](IInv /\ UInv /\ OInv)
  <1>1. Init => UInv /\ OInv
    BY DEF Init, UInv, OneOpenIssue, Covered, Distinct, Faithful, Fresh, OpenIssues, Visible,
           NoIssue, OInv, Standing, Sole, Owed
  <1>2. IInv /\ UInv /\ OInv /\ [Next]_vars /\ TypeOK' => UInv' /\ OInv'
    BY UniqueStep, OwedStep
  <1> QED BY <1>1, <1>2, Invariant, TypeCorrect, PTL DEF Spec

\* A run that executes everything reports what it read: for any number of
\* divergences, issues and runs, and whichever legs failed, the open issues of
\* each leg that was read are then exactly the watched divergences it found, but
\* for issues people closed, or took the marker of, after the run had listed them.
THEOREM RunReportsWhatItReadCorrect ==
    ASSUME "reopen" \notin HumanMoves
    PROVE  Spec => []RunReportsWhatItRead
  <1>1. IInv /\ UInv /\ OInv => RunReportsWhatItRead
    <2> SUFFICES ASSUME OInv, NEW r \in Run, pc[r] = "execute", todo[r] = {},
                        NEW f \in Fingerprint \ disturbed,
                        LegOf[f] \in ran[r], found[r][f] # "unresolved"
                 PROVE  OpenIssues(f) # {} <=> found[r][f] = "drift" /\ f \in checkout[r]
      BY DEF RunReportsWhatItRead
    <2> QED BY DEF OInv, Owed
  <1> QED BY <1>1, IssueInvariant, PTL

-----------------------------------------------------------------------------
\* The drift job implements the contract of ADR-0002, step by step.

Evidence == [f \in Fingerprint |-> EvidenceOf(f)]
Opened   == {n \in Number : issue[n].state # "none"}

\* Evidence is one of three words, whatever happens.
LEMMA EvidenceType == Evidence \in [Fingerprint -> {"none", "drift", "clean"}]
  BY DEF Evidence, EvidenceOf

\* A step that opens and closes nothing is an observation.
LEMMA ObserveStep ==
    ASSUME \A f \in Fingerprint : OpenIssues(f)' = OpenIssues(f),
           \A n \in Number : (issue'[n].state = "none") = (issue[n].state = "none"),
           spent'["human"] = spent["human"]
    PROVE  Contract!ContractNext
  <1>1. Evidence' \in [Fingerprint -> {"none", "drift", "clean"}]
    BY DEF Evidence, EvidenceOf
  <1>2. [f \in Fingerprint |-> OpenIssues(f)]' = [f \in Fingerprint |-> OpenIssues(f)]
    OBVIOUS
  <1>3. Opened' = Opened
    BY DEF Opened
  <1> QED BY <1>1, <1>2, <1>3
          DEF Evidence, Opened, Contract!ContractNext, Contract!Observe

\* The run that executes is the only one that has read anything.
LEMMA EvidenceMeaning ==
    ASSUME IInv, NEW r \in Run, pc[r] = "execute", NEW f \in Fingerprint
    PROVE  /\ found[r][f] = "drift" /\ f \in checkout[r] => EvidenceOf(f) = "drift"
           /\ /\ found[r][f] \notin {"unread", "unresolved"}
              /\ found[r][f] # "drift" \/ f \notin checkout[r]
              => EvidenceOf(f) = "clean"
  <1>1. \A q \in Run \ {r} : found[q][f] = "unread"
    BY DEF IInv, Exclusion, Resting, Unread
  <1> QED BY <1>1 DEF EvidenceOf

\* A new issue is a report.
LEMMA CreateIssueReports ==
    ASSUME IInv, UInv, NEW r \in Run, CreateIssue(r)
    PROVE  Contract!ContractNext
  <1>1. PICK b \in Turn(r, "open"), n \in Number :
           /\ issue[n].state = "none"
           /\ issue' = [issue EXCEPT ![n] =
                 [state |-> "open", fp |-> b.fp, labels |-> LabelsOf(b.leg), told |-> FALSE]]
           /\ UNCHANGED <<found, checkout, spent>>
    BY DEF CreateIssue, NextNumber, reading
  <1>2. /\ b \in todo[r] /\ b.kind = "open" /\ pc[r] = "execute" /\ b.fp \in Fingerprint
        /\ found[r][b.fp] = "drift" /\ b.fp \in checkout[r]
    BY <1>1, TurnFact DEF IInv, Planned, TypeOK, IssueAction
  <1>3. EvidenceOf(b.fp) = "drift" /\ OpenIssues(b.fp) = {}
    BY <1>2, EvidenceMeaning DEF UInv, Fresh
  <1>4. /\ \A m \in Number \ {n} : issue'[m] = issue[m]
        /\ issue'[n].state = "open" /\ issue'[n].fp = b.fp /\ ~ Visible(n)
        /\ "drift" \in issue'[n].labels
    BY <1>1 DEF IInv, TypeOK, Visible, LabelsOf
  <1>5. /\ \A f : f # b.fp => OpenIssues(f)' = OpenIssues(f)
        /\ OpenIssues(b.fp)' = {n}
    BY <1>3, <1>4 DEF OpenIssues, Visible
  <1>6. Evidence' = Evidence
    BY <1>1 DEF Evidence, EvidenceOf
  <1>7. n \notin Opened /\ Opened' = Opened \cup {n}
    BY <1>1, <1>4 DEF Opened
  <1>8. [f \in Fingerprint |-> OpenIssues(f)]'
           = [[f \in Fingerprint |-> OpenIssues(f)] EXCEPT ![b.fp] = {n}]
    BY <1>2, <1>5
  <1>9. Contract!Report(b.fp, n)
    BY <1>1, <1>2, <1>3, <1>6, <1>7, <1>8 DEF Contract!Report, Evidence, Opened
  <1> QED BY <1>2, <1>9 DEF Contract!ContractNext

\* The end of a closing is a resolution.
LEMMA CloseIssueResolves ==
    ASSUME IInv, UInv, NEW r \in Run, CloseIssue(r)
    PROVE  Contract!ContractNext
  <1>1. PICK b \in half[r] :
           /\ b.kind = "close"
           /\ issue' = [issue EXCEPT ![b.number].state = "closed"]
           /\ UNCHANGED <<found, checkout, spent>>
    BY DEF CloseIssue, reading
  <1>2. /\ b \in todo[r] /\ b.fp \in Fingerprint
        /\ found[r][b.fp] # "drift" \/ b.fp \notin checkout[r]
        /\ found[r][b.fp] \notin {"unread", "unresolved"}
        /\ OpenIssues(b.fp)' = {}
        /\ \A f \in Fingerprint \ {b.fp} : OpenIssues(f)' = OpenIssues(f)
    BY <1>1, CloseIssueMeaning
  <1>3. pc[r] = "execute" /\ b.number \in Number /\ issue[b.number].state # "none"
    BY <1>1, <1>2 DEF IInv, Resting, Planned
  <1>4. EvidenceOf(b.fp) = "clean"
    BY <1>2, <1>3, EvidenceMeaning
  <1>5. Evidence' = Evidence
    BY <1>1 DEF Evidence, EvidenceOf
  <1>6. Opened' = Opened
    BY <1>1, <1>3 DEF Opened, IInv, TypeOK, Issue
  <1>7. [f \in Fingerprint |-> OpenIssues(f)]'
           = [[f \in Fingerprint |-> OpenIssues(f)] EXCEPT ![b.fp] = {}]
    BY <1>2
  <1>8. Contract!Resolve(b.fp)
    BY <1>1, <1>2, <1>4, <1>5, <1>6, <1>7 DEF Contract!Resolve, Evidence, Opened
  <1> QED BY <1>2, <1>8 DEF Contract!ContractNext

\* A person's move is a dismissal.
LEMMA HumanDismisses ==
    ASSUME IInv, UInv, "reopen" \notin HumanMoves, NEW n \in Number, HumanMove(n)
    PROVE  Contract!ContractNext
  <1>1. PICK d \in Fingerprint :
           /\ issue[n].state = "open" /\ issue'[n].state # "none"
           /\ \A m \in Number \ {n} : issue'[m] = issue[m]
           /\ OpenIssues(d)' = {}
           /\ \A f \in Fingerprint \ {d} : OpenIssues(f)' = OpenIssues(f)
    BY HumanClears
  <1>2. UNCHANGED <<found, checkout>> /\ spent'["human"] = spent["human"] + 1
    BY DEF HumanMove, Spend, reading, IInv, TypeOK
  <1>3. Evidence' = Evidence
    BY <1>2 DEF Evidence, EvidenceOf
  <1>4. Opened' = Opened
    BY <1>1 DEF Opened
  <1>5. [f \in Fingerprint |-> OpenIssues(f)]'
           = [[f \in Fingerprint |-> OpenIssues(f)] EXCEPT ![d] = {}]
    BY <1>1
  <1>6. Contract!Dismiss(d)
    BY <1>2, <1>3, <1>4, <1>5 DEF Contract!Dismiss, Evidence, Opened
  <1> QED BY <1>6 DEF Contract!ContractNext

\* While people only close issues, a listed issue keeps its marker.
Marked == \A r \in Run : \A e \in listed[r] : issue[e.number].fp = e.fp

\* No step but a person's takes a marker away.
LEMMA MarkedStep ==
    ASSUME IInv, UInv, Marked, HumanMoves \subseteq {"close"}, [Next]_vars, UInv'
    PROVE  Marked'
  <1>1. issue \in [Number -> Issue]
    BY DEF IInv, TypeOK
  <1>2. ASSUME NEW r \in Run, ListIssues(r)
        PROVE  Marked'
    <2>1. /\ UNCHANGED issue
          /\ \A q \in Run \ {r} : listed'[q] = listed[q]
          /\ listed'[r] = {[number |-> n, fp |-> issue[n].fp, labels |-> issue[n].labels] :
                              n \in {m \in Number : Visible(m)}}
      BY <1>2 DEF ListIssues, IInv, TypeOK
    <2> QED BY <2>1 DEF Marked
  <1>3. ASSUME NEW n \in Number, issue[n].state # "none", issue[n].fp \in Fingerprint
        PROVE  issue'[n].fp # NoMarker
    <2>1. ASSUME NEW r \in Run, CreateIssue(r)
          PROVE  issue'[n] = issue[n]
      <3>1. PICK m \in Number :
               issue[m].state = "none" /\ \E i : issue' = [issue EXCEPT ![m] = i]
        BY <2>1 DEF CreateIssue, NextNumber
      <3>2. PICK i : issue' = [issue EXCEPT ![m] = i]
        BY <3>1
      <3> QED BY <1>1, <1>3, <3>1, <3>2
    <2>2. ASSUME NEW r \in Run, RefreshIssue(r)
          PROVE  issue'[n].fp \in Fingerprint
      BY <1>3, <2>2, RefreshMeaning
    <2>3. ASSUME NEW r \in Run, CommentResolution(r) \/ CloseIssue(r)
          PROVE  issue'[n].fp = issue[n].fp
      <3>1. PICK m : \/ issue' = [issue EXCEPT ![m].told = TRUE]
                     \/ issue' = [issue EXCEPT ![m].state = "closed"]
        BY <2>3 DEF CommentResolution, CloseIssue
      <3> QED BY <1>1, <3>1 DEF Issue
    <2>4. ASSUME NEW m \in Number, HumanMove(m)
          PROVE  issue'[n].fp = issue[n].fp
      <3>1. issue' = [issue EXCEPT ![m].state = "closed"]
        BY <2>4 DEF HumanMove
      <3> QED BY <1>1, <3>1 DEF Issue
    <2> QED BY <1>3, <2>1, <2>2, <2>3, <2>4, IssueWriters, FingerprintAssumption
  <1>4. ASSUME \A q \in Run : listed'[q] = listed[q] \/ listed'[q] = {}
        PROVE  Marked'
    <2>1. ASSUME NEW q \in Run, NEW e \in listed'[q]
          PROVE  issue'[e.number].fp = e.fp
      <3>1. e \in listed[q] /\ issue'[e.number].fp \in {e.fp, NoMarker}
        BY <1>4 DEF UInv, Faithful
      <3>2. /\ e.number \in Number /\ issue[e.number].state # "none"
            /\ issue[e.number].fp = e.fp /\ e.fp \in Fingerprint \cup {NoMarker}
        BY <3>1 DEF IInv, TypeOK, Listed, ListedIssue, Marked
      <3> QED BY <1>3, <3>1, <3>2
    <2> QED BY <2>1 DEF Marked
  <1>5. \/ \E r \in Run : ListIssues(r)
        \/ \A q \in Run : listed'[q] = listed[q] \/ listed'[q] = {}
    <2>1. ASSUME NEW r \in Run, Start(r) \/ Advance(r) \/ Abort(r), ~ ListIssues(r)
          PROVE  UNCHANGED listed \/ listed' = [listed EXCEPT ![r] = {}]
      BY <2>1 DEF Start, Advance, Abort, Execute, RunPlan, Sweep, Assert, CreateIssue, RefreshIssue,
                  CommentRecurrence, CommentResolution, CloseIssue, Finish, Leave, reading
    <2>2. ASSUME Surroundings \/ UNCHANGED vars
          PROVE  UNCHANGED listed
      BY <2>2 DEF Surroundings, LiveChange, GovernanceEdit, HumanMove, reading, vars
    <2> QED BY <2>1, <2>2 DEF Next, IInv, TypeOK
  <1> QED BY <1>2, <1>4, <1>5

\* An update then writes the marker that is there: an observation.
LEMMA RefreshObserves ==
    ASSUME IInv, UInv, Marked, NEW r \in Run, RefreshIssue(r)
    PROVE  /\ \A f \in Fingerprint : OpenIssues(f)' = OpenIssues(f)
           /\ \A n \in Number : issue'[n].state = issue[n].state
  <1>1. PICK a \in todo[r] :
           /\ a.number \in Number
           /\ \E d \in listed[r] : d.fp = a.fp /\ d.number = a.number
           /\ issue'[a.number].fp = a.fp
           /\ \A n \in Number \ {a.number} : issue'[n] = issue[n]
           /\ \A n \in Number : /\ issue'[n].state = issue[n].state
                                /\ issue'[n].labels = issue[n].labels
    BY RefreshMeaning
  <1>2. issue[a.number].fp = a.fp
    BY <1>1 DEF Marked
  <1> QED BY <1>1, <1>2 DEF OpenIssues, Visible

\* Each step is a step of the contract.
LEMMA ContractStep ==
    ASSUME IInv, UInv, Marked, HumanMoves \subseteq {"close"}, [Next]_vars
    PROVE  Contract!ContractNext
  <1>1. ASSUME NEW r \in Run, CreateIssue(r) \/ CloseIssue(r)
        PROVE  Contract!ContractNext
    BY <1>1, CreateIssueReports, CloseIssueResolves
  <1>2. ASSUME NEW n \in Number, HumanMove(n)
        PROVE  Contract!ContractNext
    BY <1>2, HumanDismisses
  <1>3. CASE /\ \A r \in Run : ~ (CreateIssue(r) \/ CloseIssue(r))
             /\ \A n \in Number : ~ HumanMove(n)
    <2>1. /\ \A f \in Fingerprint : OpenIssues(f)' = OpenIssues(f)
          /\ \A n \in Number : (issue'[n].state = "none") = (issue[n].state = "none")
      BY <1>3, IssueWriters, OpenIssuesStay, RefreshObserves
    <2>2. spent'["human"] = spent["human"]
      <3>1. ASSUME NEW r \in Run, Start(r) \/ Advance(r) \/ Abort(r)
            PROVE  UNCHANGED spent \/ Spend("fault", MaxFault)
        BY <3>1 DEF Advance, Execute, Start, Abort, RunPlan, ListIssues, Sweep, Assert, Free,
                    CreateIssue, RefreshIssue, CommentRecurrence, CommentResolution, CloseIssue,
                    Finish
      <3>2. ASSUME Surroundings \/ UNCHANGED vars
            PROVE  UNCHANGED spent \/ Spend("live", MaxLive) \/ Spend("edit", MaxEdit)
        BY <1>3, <3>2 DEF Surroundings, LiveChange, GovernanceEdit, vars
      <3> QED BY <3>1, <3>2 DEF Next, Spend, IInv, TypeOK
    <2> QED BY <2>1, <2>2, ObserveStep
  <1> QED BY <1>1, <1>2, <1>3

\* ADR-0002's contract holds of the whole drift job, for any number of
\* divergences, issues, runs and failures: reconciliation, partition by label and
\* the two-call execution together only ever open an issue on evidence, for a
\* divergence that has none, and only ever close one on evidence, or when a
\* person does.
THEOREM ImplementsContractCorrect ==
    ASSUME HumanMoves \subseteq {"close"}
    PROVE  Spec => ImplementsContract
  <1>1. Init => Contract!ContractInit
    <2> SUFFICES ASSUME Init PROVE Contract!ContractInit
      OBVIOUS
    <2>1. \A f \in Fingerprint : EvidenceOf(f) = "none" /\ OpenIssues(f) = {}
      BY DEF Init, EvidenceOf, OpenIssues, Visible, NoIssue, Unread
    <2>2. {n \in Number : issue[n].state # "none"} = {} /\ spent["human"] = 0
      BY DEF Init, NoIssue
    <2> QED BY <2>1, <2>2 DEF Contract!ContractInit
  <1>2. Init => Marked
    BY DEF Init, Marked
  <1>3. IInv /\ UInv /\ Marked /\ [Next]_vars /\ UInv' => Marked'
    BY MarkedStep
  <1>4. IInv /\ UInv /\ Marked /\ [Next]_vars => [Contract!ContractNext]_(Contract!contractVars)
    BY ContractStep
  <1>5. Spec => [](IInv /\ UInv /\ OInv)
    BY IssueInvariant
  <1> QED BY <1>1, <1>2, <1>3, <1>4, <1>5, PTL
          DEF Spec, ImplementsContract, Contract!ContractSpec
=============================================================================
