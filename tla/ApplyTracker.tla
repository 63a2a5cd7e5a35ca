---------------------------- MODULE ApplyTracker ----------------------------
(***************************************************************************)
(* The apply-dispatch tracker of an organization whose config repository   *)
(* cannot have reviewers on an environment: a config merge applies nothing *)
(* until somebody dispatches .github/workflows/apply.yml.  Each config     *)
(* merge starts apply-reminder.yml, which comments on a tracker issue and  *)
(* labels it pending-apply; an apply that succeeds comments "Applied" and  *)
(* clears the label.                                                       *)
(*                                                                         *)
(* Reminders and mutations are in two concurrency groups.  Each holds one  *)
(* run and keeps one more pending, which a newer arrival cancels.  A scan  *)
(* (drift.yml) matters here only for its place in the second group.        *)
(*                                                                         *)
(* A config declares some resources, each with a setting.  An apply brings *)
(* what is declared into place, and deletes nothing: a resource that left  *)
(* the config stays live, and the apply returns 0 all the same.            *)
(***************************************************************************)
EXTENDS Naturals, FiniteSets

CONSTANTS
    Resource,       \* what a config may declare
    Setting,        \* how
    Absent,         \* the setting of a resource that is not declared, or not live
    Tree,           \* the configs that may be committed
    MaxMerge,       \* bound: merges to trunk
    MaxDispatch,    \* bound: dispatches, re-runs and scans
    MaxFault        \* bound: calls, applies and runs that fail

Config == [Resource -> Setting \cup {Absent}]

ASSUME TrackerAssumption ==
    /\ Absent \notin Setting
    /\ Tree \subseteq Config
    /\ {MaxMerge, MaxDispatch, MaxFault} \subseteq Nat

VARIABLES
    head,       \* the number of the commit at the tip of trunk
    touched,    \* the commits that touched the config
    config,     \* the config of each commit
    live,       \* the resources of the organization
    reminder,   \* the group of the reminders
    mutation,   \* the group of the applies and scans
    launched,   \* commits an apply was ever dispatched for
    reminded,   \* commits with a "Config merged" line in the tracker's thread
    unsaid,     \* commits whose reminder run failed
    confirmed,  \* commits with an "Applied" line
    label,      \* the tracker is labelled pending-apply
    spent       \* how much of each bound is used

vars == <<head, touched, config, live, reminder, mutation, launched, reminded,
          unsaid, confirmed, label, spent>>

trunk  == <<head, touched, config>>
thread == <<reminded, unsaid, confirmed, label>>

Commit == 0 .. MaxMerge

RunRecord ==
    [kind : {"reminder", "apply", "scan"}, sha : Commit,
     stage : {"comment", "flag", "guard", "mutate", "confirm", "clear", "scan"}]

\* A group runs one run and keeps one more.
Group ==
    {[running |-> {}, pending |-> {}]}
    \cup [running : {{run} : run \in RunRecord},
          pending : {{}} \cup {{run} : run \in RunRecord}]

TypeOK ==
    /\ head \in Commit
    /\ touched \subseteq Commit
    /\ config \in [Commit -> Tree]
    /\ live \in Config
    /\ reminder \in Group
    /\ mutation \in Group
    /\ launched \subseteq Commit
    /\ reminded \subseteq Commit
    /\ unsaid \subseteq Commit
    /\ confirmed \subseteq Commit
    /\ label \in BOOLEAN
    /\ spent \in [{"dispatch", "fault"} -> Nat]

Idle == [running |-> {}, pending |-> {}]

\* All that the config of commit n declares is live, as declared.
InPlace(n) ==
    \A r \in Resource : config[n][r] # Absent => live[r] = config[n][r]

Init ==
    /\ head = 0
    /\ touched = {0}
    /\ config \in {[n \in Commit |-> tree] : tree \in Tree}
    /\ live = config[0]
    /\ reminder = Idle
    /\ mutation = Idle
    /\ launched = {}
    /\ reminded = {}
    /\ unsaid = {}
    /\ confirmed = {}
    /\ label = FALSE
    /\ spent = [b \in {"dispatch", "fault"} |-> 0]

Spend(budget, max) ==
    /\ spent[budget] < max
    /\ spent' = [spent EXCEPT ![budget] = @ + 1]

Free == UNCHANGED spent

\* No merge after commit n touched the config.
Newest(n) == \A m \in touched : m <= n

-----------------------------------------------------------------------------
\* A concurrency group.

\* Mutants of Arrive: the newcomer is cancelled; nothing waits.
ArriveLast(group, run) ==
    IF group.running = {} THEN [group EXCEPT !.running = {run}]
    ELSE IF group.pending = {} THEN [group EXCEPT !.pending = {run}]
    ELSE group

ArriveBeside(group, run) == [group EXCEPT !.running = @ \cup {run}]

Arrive(group, run) ==
    IF group.running = {} THEN [group EXCEPT !.running = {run}]
    ELSE [group EXCEPT !.pending = {run}]

Leave(group, run) ==
    [running |-> (group.running \ {run}) \cup group.pending, pending |-> {}]

Advance(group, run, stage) ==
    [group EXCEPT !.running = (@ \ {run}) \cup {[run EXCEPT !.stage = stage]}]

-----------------------------------------------------------------------------
\* Merges, and what people and the schedule start.

MergeConfig ==
    /\ head < MaxMerge
    /\ head' = head + 1
    /\ touched' = touched \cup {head + 1}
    /\ \E tree \in Tree : config' = [config EXCEPT ![head + 1] = tree]
    /\ reminder' = Arrive(reminder, [kind |-> "reminder", sha |-> head + 1, stage |-> "comment"])
    /\ UNCHANGED <<live, mutation, launched, thread, spent>>

MergeOther ==
    /\ head < MaxMerge
    /\ head' = head + 1
    /\ config' = [config EXCEPT ![head + 1] = config[head]]
    /\ UNCHANGED <<touched, live, reminder, mutation, launched, thread, spent>>

\* workflow_dispatch of the apply caller, at the tip of trunk.
Dispatch ==
    /\ Spend("dispatch", MaxDispatch)
    /\ mutation' = Arrive(mutation, [kind |-> "apply", sha |-> head, stage |-> "guard"])
    /\ launched' = launched \cup {head}
    /\ UNCHANGED <<trunk, live, reminder, thread>>

\* The re-run of an old apply, pinned to its commit.
Rerun ==
    /\ Spend("dispatch", MaxDispatch)
    /\ \E n \in launched :
          /\ \A run \in mutation.running \cup mutation.pending :
                run.kind = "apply" => run.sha # n
          /\ mutation' = Arrive(mutation, [kind |-> "apply", sha |-> n, stage |-> "guard"])
    /\ UNCHANGED <<trunk, live, reminder, launched, thread>>

Scan ==
    /\ Spend("dispatch", MaxDispatch)
    /\ mutation' = Arrive(mutation, [kind |-> "scan", sha |-> head, stage |-> "scan"])
    /\ UNCHANGED <<trunk, live, reminder, launched, thread>>

-----------------------------------------------------------------------------
\* The reminder.

\* A comment that fails fails the run, label and all; what failed may be its answer only.
Comment(run) ==
    /\ run.stage = "comment"
    /\ \/ /\ reminded' = reminded \cup {run.sha}
          /\ reminder' = Advance(reminder, run, "flag")
          /\ Free /\ UNCHANGED unsaid
       \/ /\ Spend("fault", MaxFault)
          /\ reminded' \in {reminded, reminded \cup {run.sha}}
          /\ unsaid' = unsaid \cup {run.sha}
          /\ reminder' = Leave(reminder, run)
    /\ UNCHANGED <<trunk, live, mutation, launched, confirmed, label>>

\* A label that cannot be added is only warned about.
Flag(run) ==
    /\ run.stage = "flag"
    /\ \/ label' = TRUE /\ Free
       \/ Spend("fault", MaxFault) /\ UNCHANGED label
    /\ reminder' = Leave(reminder, run)
    /\ UNCHANGED <<trunk, live, mutation, launched, reminded, unsaid, confirmed>>

-----------------------------------------------------------------------------
\* The apply.

\* Mutant of Guard: a superseded run is confirmed.
GuardConfirming(run) ==
    /\ run.stage = "guard"
    /\ mutation' = Advance(mutation, run, IF run.sha = head THEN "mutate" ELSE "confirm")
    /\ UNCHANGED <<trunk, live, reminder, launched, thread, spent>>

\* Mutant of Guard: what was dispatched is applied, whatever was merged since.
GuardTrusting(run) ==
    /\ run.stage = "guard"
    /\ mutation' = Advance(mutation, run, "mutate")
    /\ UNCHANGED <<trunk, live, reminder, launched, thread, spent>>

\* Skip if superseded.
Guard(run) ==
    /\ run.stage = "guard"
    /\ mutation' = IF run.sha = head THEN Advance(mutation, run, "mutate")
                   ELSE Leave(mutation, run)
    /\ UNCHANGED <<trunk, live, reminder, launched, thread, spent>>

\* The organization, once some of what a config declares was brought into place.
Applied(tree, part) ==
    [r \in Resource |-> IF r \in part /\ tree[r] # Absent THEN tree[r] ELSE live[r]]

\* Mutant of Mutate: the step's outcome is success whatever otterdog returned.
MutateOutcome(run) ==
    /\ run.stage = "mutate"
    /\ mutation' = Advance(mutation, run, "confirm")
    /\ \/ live' = Applied(config[run.sha], Resource) /\ Free
       \/ /\ Spend("fault", MaxFault)
          /\ \E part \in SUBSET Resource : live' = Applied(config[run.sha], part)
    /\ UNCHANGED <<trunk, reminder, launched, thread>>

\* otterdog apply, without --delete-resources.  A run whose apply returned nonzero, or
\* that ended in its middle, confirms nothing.
Mutate(run) ==
    /\ run.stage = "mutate"
    /\ \/ /\ live' = Applied(config[run.sha], Resource)
          /\ mutation' = Advance(mutation, run, "confirm")
          /\ Free
       \/ /\ Spend("fault", MaxFault)
          /\ \E part \in SUBSET Resource : live' = Applied(config[run.sha], part)
          /\ mutation' = Leave(mutation, run)
    /\ UNCHANGED <<trunk, reminder, launched, thread>>

\* The "Applied" line; when it cannot be posted, or its answer is lost, the label stays.
Confirm(run) ==
    /\ run.stage = "confirm"
    /\ \/ /\ confirmed' = confirmed \cup {run.sha}
          /\ mutation' = Advance(mutation, run, "clear")
          /\ Free
       \/ /\ Spend("fault", MaxFault)
          /\ confirmed' \in {confirmed, confirmed \cup {run.sha}}
          /\ mutation' = Leave(mutation, run)
    /\ UNCHANGED <<trunk, live, reminder, launched, reminded, unsaid, label>>

\* The label goes, whoever set it; that it could not be cleared is warned about.
Clear(run) ==
    /\ run.stage = "clear"
    /\ \/ label' = FALSE /\ Free
       \/ Spend("fault", MaxFault) /\ UNCHANGED label
    /\ mutation' = Leave(mutation, run)
    /\ UNCHANGED <<trunk, live, reminder, launched, reminded, unsaid, confirmed>>

ScanEnds(run) ==
    /\ run.stage = "scan"
    /\ mutation' = Leave(mutation, run)
    /\ UNCHANGED <<trunk, live, reminder, launched, thread, spent>>

-----------------------------------------------------------------------------

Next ==
    \/ MergeConfig \/ MergeOther \/ Dispatch \/ Rerun \/ Scan
    \/ \E run \in reminder.running : Comment(run) \/ Flag(run)
    \/ \E run \in mutation.running :
          Guard(run) \/ Mutate(run) \/ Confirm(run) \/ Clear(run) \/ ScanEnds(run)

Spec == Init /\ [][Next]_vars

-----------------------------------------------------------------------------
\* Properties.

\* Nothing is in flight, and nothing ever failed.
Settled == reminder = Idle /\ mutation = Idle /\ spent["fault"] = 0

\* Some of what trunk declares is not live, or is live otherwise.
Waiting == ~ InPlace(head)

\* "Applied" is posted only when all that its tree declares is live as declared: the
\* three terms of the step's guard, and the group that keeps others out.  What the
\* tree does not declare any more may be live beside it.
ConfirmedIsLive ==
    [][\A n \in confirmed' \ confirmed : InPlace(n)]_vars

\* However many merges pile up in the reminder group, and whatever fails after its
\* comment, the one that matters to the reader, the newest, has its line, or a
\* reminder run that failed.
NewestReminded ==
    reminder = Idle => \A n \in touched : Newest(n) => n \in {0} \cup reminded \cup unsaid

\* The thread can be trusted: at any time, once the newest config has an "Applied" line,
\* all it declares is live, whatever older run is approved, re-run, or stops halfway.
ThreadTells ==
    \A n \in confirmed : Newest(n) => InPlace(n)

\* The header of apply-reminder.yml: each merge earns its own line.
EveryMergeReminded ==
    Settled => touched \subseteq reminded \cup {0}

\* The comment in apply.yml: the label answers "is anything still waiting?".
LabelAnswers ==
    Settled /\ Waiting => label
=============================================================================
