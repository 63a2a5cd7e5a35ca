-------------------------- MODULE ApplyTrackerProofs --------------------------
(* Theorems about ApplyTracker, for any number of merges, dispatches and      *)
(* faults.                                                                    *)
EXTENDS ApplyTracker, TLAPS

-----------------------------------------------------------------------------
\* A concurrency group: one run, and one more behind it.

Stage == {"comment", "flag", "guard", "mutate", "confirm", "clear", "scan"}

LEMMA GroupIs ==
    ASSUME NEW group \in Group
    PROVE  /\ group = [running |-> group.running, pending |-> group.pending]
           /\ group.running = {} => group.pending = {}
           /\ group.running \in SUBSET RunRecord /\ group.pending \in SUBSET RunRecord
           /\ \A a, b \in group.running : a = b
           /\ \A a, b \in group.pending : a = b
  BY DEF Group

LEMMA ArriveIs ==
    ASSUME NEW group \in Group, NEW run \in RunRecord
    PROVE  /\ Arrive(group, run) \in Group
           /\ Arrive(group, run) = IF group.running = {} THEN [running |-> {run}, pending |-> {}]
                                   ELSE [running |-> group.running, pending |-> {run}]
  BY DEF Group, Arrive

LEMMA LeaveIs ==
    ASSUME NEW group \in Group, NEW run \in group.running
    PROVE  /\ Leave(group, run) \in Group
           /\ Leave(group, run) = [running |-> group.pending, pending |-> {}]
  <1>1. group.running = {run}
    BY DEF Group
  <1>2. Leave(group, run) = [running |-> group.pending, pending |-> {}]
    BY <1>1 DEF Leave
  <1>3. QED
    BY <1>2 DEF Group

LEMMA AdvanceIs ==
    ASSUME NEW group \in Group, NEW run \in group.running, NEW stage \in Stage
    PROVE  /\ Advance(group, run, stage) \in Group
           /\ Advance(group, run, stage) =
                 [running |-> {[kind |-> run.kind, sha |-> run.sha, stage |-> stage]},
                  pending |-> group.pending]
  <1> DEFINE next == [kind |-> run.kind, sha |-> run.sha, stage |-> stage]
  <1>1. group.running = {run} /\ run \in RunRecord
    BY DEF Group
  <1>2. [run EXCEPT !.stage = stage] = next /\ next \in RunRecord
    BY <1>1 DEF RunRecord, Stage
  <1> HIDE DEF next
  <1>3. Advance(group, run, stage) = [running |-> {next}, pending |-> group.pending]
    BY <1>1, <1>2, GroupIs DEF Advance
  <1>4. QED
    BY <1>2, <1>3 DEF Group, next

LEMMA RunsIn ==
    ASSUME NEW group \in Group, NEW run \in group.running \cup group.pending
    PROVE  /\ run \in RunRecord /\ run.sha \in Commit /\ run.stage \in Stage
           /\ run.kind \in {"reminder", "apply", "scan"}
  BY DEF Group, RunRecord, Stage

-----------------------------------------------------------------------------
\* The inductive invariant.

RunsOf(group) == group.running \cup group.pending

\* Everything is about commits of the past, and a commit after which no merge touched
\* the config has the config of trunk.
Past ==
    /\ touched \subseteq 0 .. head /\ 0 \in touched
    /\ launched \subseteq 0 .. head /\ confirmed \subseteq 0 .. head
    /\ \A n \in 0 .. head : Newest(n) => config[n] = config[head]
    /\ \A run \in RunsOf(reminder) \cup RunsOf(mutation) : run.sha <= head

\* What waits in a group is at its beginning.
Placed ==
    /\ \A run \in reminder.running : run.stage \in {"comment", "flag"}
    /\ \A run \in reminder.pending : run.stage = "comment"
    /\ \A run \in mutation.pending : run.stage \in {"guard", "scan"}

\* Nothing newer than what is being applied is confirmed, and a run that is going to
\* confirm has brought its config into place.
Upheld ==
    /\ ThreadTells
    /\ \A run \in mutation.running :
          /\ run.stage = "mutate" => \A n \in confirmed : n <= run.sha
          /\ run.stage = "confirm" => InPlace(run.sha)

\* The reminder of the newest config merge is the last one to have arrived.
Last(group) == IF group.pending = {} THEN group.running ELSE group.pending

Coming ==
    \A n \in touched : Newest(n) /\ n \notin {0} \cup reminded \cup unsaid =>
        \E run \in Last(reminder) : run.stage = "comment" /\ run.sha = n

-----------------------------------------------------------------------------
\* Types.

LEMMA NewRuns ==
    ASSUME NEW n \in Commit, NEW kind \in {"reminder", "apply", "scan"}, NEW stage \in Stage
    PROVE  [kind |-> kind, sha |-> n, stage |-> stage] \in RunRecord
  BY DEF RunRecord, Stage

LEMMA TypeStep == TypeOK /\ Past /\ [Next]_vars => TypeOK'
  <1> SUFFICES ASSUME TypeOK, Past, Next PROVE TypeOK'
    BY DEF vars, TypeOK
  <1> USE DEF trunk, thread, Free
  <1>1. /\ MaxMerge \in Nat /\ head \in Nat /\ head \in Commit /\ 0 .. head \subseteq Commit
        /\ reminder \in Group /\ mutation \in Group
        /\ spent \in [{"dispatch", "fault"} -> Nat]
    BY TrackerAssumption DEF TypeOK, Commit
  <1>2. /\ config \in [Commit -> Tree] /\ live \in Config
        /\ \A tree \in Tree, part \in SUBSET Resource : Applied(tree, part) \in Config
    BY TrackerAssumption DEF TypeOK, Applied, Config
  <1>3. ASSUME NEW budget \in {"dispatch", "fault"}, NEW max, Spend(budget, max)
        PROVE  spent' \in [{"dispatch", "fault"} -> Nat]
    BY <1>1, <1>3 DEF Spend
  <1>4. CASE MergeConfig
    <2>1. head + 1 \in Commit
      BY <1>1, <1>4 DEF MergeConfig, Commit
    <2>2. [kind |-> "reminder", sha |-> head + 1, stage |-> "comment"] \in RunRecord
      BY <2>1, NewRuns DEF Stage
    <2>3. reminder' \in Group
      BY <1>1, <1>4, <2>2, ArriveIs DEF MergeConfig
    <2>4. config' \in [Commit -> Tree]
      BY <1>2, <1>4 DEF MergeConfig
    <2>5. QED
      BY <1>4, <2>1, <2>3, <2>4 DEF MergeConfig, TypeOK
  <1>5. CASE MergeOther
    <2>1. head + 1 \in Commit
      BY <1>1, <1>5 DEF MergeOther, Commit
    <2>2. config' \in [Commit -> Tree]
      BY <1>1, <1>2, <1>5 DEF MergeOther
    <2>3. QED
      BY <1>5, <2>1, <2>2 DEF MergeOther, TypeOK
  <1>6. CASE Dispatch
    <2>1. [kind |-> "apply", sha |-> head, stage |-> "guard"] \in RunRecord
      BY <1>1, NewRuns DEF Stage
    <2>2. mutation' \in Group
      BY <1>1, <1>6, <2>1, ArriveIs DEF Dispatch
    <2>3. QED
      BY <1>1, <1>3, <1>6, <2>2 DEF Dispatch, TypeOK
  <1>7. CASE Rerun
    <2>1. PICK n \in launched :
            mutation' = Arrive(mutation, [kind |-> "apply", sha |-> n, stage |-> "guard"])
      BY <1>7 DEF Rerun
    <2>2. [kind |-> "apply", sha |-> n, stage |-> "guard"] \in RunRecord
      BY NewRuns DEF Stage, TypeOK
    <2>3. mutation' \in Group
      BY <1>1, <2>1, <2>2, ArriveIs
    <2>4. QED
      BY <1>3, <1>7, <2>3 DEF Rerun, TypeOK
  <1>8. CASE Scan
    <2>1. [kind |-> "scan", sha |-> head, stage |-> "scan"] \in RunRecord
      BY <1>1, NewRuns DEF Stage
    <2>2. mutation' \in Group
      BY <1>1, <1>8, <2>1, ArriveIs DEF Scan
    <2>3. QED
      BY <1>3, <1>8, <2>2 DEF Scan, TypeOK
  <1>9. ASSUME NEW run \in reminder.running, Comment(run) \/ Flag(run)
        PROVE  TypeOK'
    <2>1. run.sha \in Commit
      BY <1>1, RunsIn
    <2>2. reminder' \in Group
      BY <1>1, <1>9, LeaveIs, AdvanceIs DEF Comment, Flag, Stage
    <2>3. spent' \in [{"dispatch", "fault"} -> Nat]
      BY <1>1, <1>3, <1>9 DEF Comment, Flag
    <2>4. CASE Comment(run)
      BY <2>1, <2>2, <2>3, <2>4 DEF Comment, TypeOK
    <2>5. CASE Flag(run)
      BY <2>2, <2>3, <2>5 DEF Flag, TypeOK
    <2>6. QED
      BY <1>9, <2>4, <2>5
  <1>10. ASSUME NEW run \in mutation.running,
                Guard(run) \/ Mutate(run) \/ Confirm(run) \/ Clear(run) \/ ScanEnds(run)
         PROVE  TypeOK'
    <2>1. run.sha \in Commit /\ run.sha \in 0 .. head
      BY <1>1, RunsIn DEF Past, RunsOf, Commit
    <2>2. mutation' \in Group
      BY <1>1, <1>10, LeaveIs, AdvanceIs DEF Guard, Mutate, Confirm, Clear, ScanEnds, Stage
    <2>3. spent' \in [{"dispatch", "fault"} -> Nat]
      BY <1>1, <1>3, <1>10 DEF Guard, Mutate, Confirm, Clear, ScanEnds
    <2>4. CASE Guard(run) \/ ScanEnds(run)
      BY <2>2, <2>3, <2>4 DEF Guard, ScanEnds, TypeOK
    <2>5. CASE Mutate(run)
      <3>1. config[run.sha] \in Tree
        BY <1>2, <2>1
      <3>2. live' \in Config
        BY <1>2, <2>5, <3>1 DEF Mutate
      <3>3. QED
        BY <2>2, <2>3, <2>5, <3>2 DEF Mutate, TypeOK
    <2>6. CASE Confirm(run)
      BY <2>1, <2>2, <2>3, <2>6 DEF Confirm, TypeOK
    <2>7. CASE Clear(run)
      BY <2>2, <2>3, <2>7 DEF Clear, TypeOK
    <2>8. QED
      BY <1>10, <2>4, <2>5, <2>6, <2>7
  <1>11. QED
    BY <1>4, <1>5, <1>6, <1>7, <1>8, <1>9, <1>10 DEF Next

-----------------------------------------------------------------------------
\* The past.

LEMMA PastCommits ==
    ASSUME TypeOK, Past
    PROVE  /\ head \in Nat /\ 0 .. head \subseteq Nat /\ 0 .. head \subseteq Commit
           /\ \A run \in RunsOf(reminder) \cup RunsOf(mutation) : run.sha \in 0 .. head
  <1>1. head \in Nat /\ head \in Commit
    BY TrackerAssumption DEF TypeOK, Commit
  <1>2. \A run \in RunsOf(reminder) \cup RunsOf(mutation) : run.sha \in Commit
    BY RunsIn DEF TypeOK, RunsOf
  <1>3. \A run \in RunsOf(reminder) \cup RunsOf(mutation) : run.sha \in 0 .. head
    BY <1>1, <1>2 DEF Past, Commit
  <1>4. 0 .. head \subseteq Commit
    BY <1>1, TrackerAssumption DEF Commit
  <1>5. QED
    BY <1>1, <1>3, <1>4

\* A merge leaves the configs of the past as they are.
LEMMA Merges ==
    ASSUME TypeOK, Past, [Next]_vars
    PROVE  /\ \/ head' = head /\ touched' = touched /\ config' = config
              \/ /\ MergeOther /\ head' = head + 1 /\ touched' = touched
                 /\ config'[head + 1] = config[head]
              \/ MergeConfig /\ head' = head + 1 /\ touched' = touched \cup {head + 1}
           /\ \A n \in 0 .. head : config'[n] = config[n] /\ (Newest(n)' => Newest(n))
  <1>1. config \in [Commit -> Tree] /\ head \in Nat /\ 0 .. head \subseteq Commit
    BY PastCommits DEF TypeOK
  <1>2. CASE MergeOther
    <2>1. config' = [config EXCEPT ![head + 1] = config[head]] /\ head + 1 \in Commit
      BY <1>1, <1>2, TypeStep DEF MergeOther, TypeOK
    <2>2. \A n \in 0 .. head : n # head + 1 /\ n \in Commit
      BY <1>1
    <2>3. config'[head + 1] = config[head] /\ \A n \in 0 .. head : config'[n] = config[n]
      BY <1>1, <2>1, <2>2
    <2>4. QED
      BY <1>2, <2>3 DEF MergeOther, Newest
  <1>3. CASE MergeConfig
    <2>1. PICK tree \in Tree : config' = [config EXCEPT ![head + 1] = tree]
      BY <1>3 DEF MergeConfig
    <2>2. \A n \in 0 .. head : n # head + 1 /\ n \in Commit
      BY <1>1
    <2>3. \A n \in 0 .. head : config'[n] = config[n]
      BY <1>1, <2>1, <2>2
    <2>4. QED
      BY <1>3, <2>3 DEF MergeConfig, Newest
  <1>4. CASE head' = head /\ touched' = touched /\ config' = config
    BY <1>4 DEF Newest
  <1>5. QED
    BY <1>2, <1>3, <1>4 DEF Next, vars, Dispatch, Rerun, Scan, Comment, Flag, Guard, Mutate,
           Confirm, Clear, ScanEnds, trunk

LEMMA GroupsPast ==
    ASSUME TypeOK, Past, [Next]_vars,
           NEW run \in RunsOf(reminder)' \cup RunsOf(mutation)'
    PROVE  run.sha <= head'
  <1>1. head \in Nat /\ head <= head' /\ head' \in Nat
    BY Merges, PastCommits
  <1>2. reminder \in Group /\ mutation \in Group
    BY DEF TypeOK
  <1>3. \A old \in RunsOf(reminder) \cup RunsOf(mutation) : old.sha <= head'
    BY <1>1, PastCommits
  <1>4. ASSUME NEW group \in {reminder, mutation}, NEW new \in RunRecord, new.sha <= head',
               NEW r \in RunsOf(Arrive(group, new))
        PROVE  r.sha <= head'
    BY <1>2, <1>3, <1>4, ArriveIs DEF RunsOf
  <1>5. ASSUME NEW group \in {reminder, mutation}, NEW old \in group.running,
               NEW r \in RunsOf(Leave(group, old))
        PROVE  r.sha <= head'
    BY <1>2, <1>3, LeaveIs DEF RunsOf
  <1>6. ASSUME NEW group \in {reminder, mutation}, NEW old \in group.running, NEW stage \in Stage,
               NEW r \in RunsOf(Advance(group, old, stage))
        PROVE  r.sha <= head'
    BY <1>2, <1>3, AdvanceIs DEF RunsOf
  <1>7. head \in Commit /\ head' \in Commit /\ launched \subseteq Commit
    BY TypeStep DEF TypeOK
  <1>8. CASE MergeConfig
    <2>1. [kind |-> "reminder", sha |-> head + 1, stage |-> "comment"] \in RunRecord
      BY <1>7, <1>8, NewRuns DEF MergeConfig, Stage
    <2>2. QED
      BY <1>1, <1>3, <1>4, <1>8, <2>1 DEF MergeConfig, RunsOf
  <1>9. CASE Dispatch \/ Rerun \/ Scan
    <2>1. PICK new \in RunRecord : new.sha \in 0 .. head /\ mutation' = Arrive(mutation, new)
      <3>1. CASE Dispatch
        <4> DEFINE new == [kind |-> "apply", sha |-> head, stage |-> "guard"]
        <4>1. new \in RunRecord
          BY <1>7, NewRuns DEF Stage
        <4>2. new.sha \in 0 .. head /\ mutation' = Arrive(mutation, new)
          BY <1>1, <3>1 DEF Dispatch
        <4>3. QED
          BY <4>1, <4>2
      <3>2. CASE Rerun
        <4>1. PICK n \in launched :
                mutation' = Arrive(mutation, [kind |-> "apply", sha |-> n, stage |-> "guard"])
          BY <3>2 DEF Rerun
        <4>2. n \in 0 .. head
          BY DEF Past
        <4> DEFINE new == [kind |-> "apply", sha |-> n, stage |-> "guard"]
        <4>3. new \in RunRecord /\ new.sha \in 0 .. head /\ mutation' = Arrive(mutation, new)
          BY <1>7, <4>1, <4>2, NewRuns DEF Stage
        <4>4. QED
          BY <4>3
      <3>3. CASE Scan
        <4> DEFINE new == [kind |-> "scan", sha |-> head, stage |-> "scan"]
        <4>1. new \in RunRecord
          BY <1>7, NewRuns DEF Stage
        <4>2. new.sha \in 0 .. head /\ mutation' = Arrive(mutation, new)
          BY <1>1, <3>3 DEF Scan
        <4>3. QED
          BY <4>1, <4>2
      <3>4. QED
        BY <1>9, <3>1, <3>2, <3>3
    <2>2. reminder' = reminder
      BY <1>9 DEF Dispatch, Rerun, Scan
    <2>3. QED
      BY <1>1, <1>3, <1>4, <2>1, <2>2 DEF RunsOf
  <1>10. ASSUME NEW old \in reminder.running, Comment(old) \/ Flag(old)
         PROVE  run.sha <= head'
    BY <1>3, <1>5, <1>6, <1>10 DEF Comment, Flag, RunsOf, Stage
  <1>11. ASSUME NEW old \in mutation.running,
                Guard(old) \/ Mutate(old) \/ Confirm(old) \/ Clear(old) \/ ScanEnds(old)
         PROVE  run.sha <= head'
    BY <1>3, <1>5, <1>6, <1>11
       DEF Guard, Mutate, Confirm, Clear, ScanEnds, RunsOf, Stage
  <1>12. CASE MergeOther \/ UNCHANGED vars
    BY <1>3, <1>12 DEF MergeOther, vars, RunsOf
  <1>13. QED
    BY <1>8, <1>9, <1>10, <1>11, <1>12 DEF Next

LEMMA PastStep == TypeOK /\ Past /\ [Next]_vars => Past'
  <1> SUFFICES ASSUME TypeOK, Past, [Next]_vars PROVE Past'
    OBVIOUS
  <1>1. head \in 0 .. head /\ 0 .. head \subseteq 0 .. head' /\ head' \in 0 .. head'
    BY Merges, PastCommits
  <1>2. touched' \subseteq 0 .. head' /\ 0 \in touched' /\ touched \subseteq touched'
    BY <1>1, Merges DEF Past
  <1>3. launched' \subseteq 0 .. head'
    <2>1. launched' = launched \/ launched' = launched \cup {head}
      BY DEF Next, vars, MergeConfig, MergeOther, Dispatch, Rerun, Scan, Comment, Flag, Guard,
             Mutate, Confirm, Clear, ScanEnds
    <2>2. launched' \subseteq 0 .. head
      BY <1>1, <2>1 DEF Past
    <2>3. QED
      BY <1>1, <2>2, Zenon
  <1>4. confirmed' \subseteq 0 .. head'
    <2>1. \/ confirmed' = confirmed
          \/ \E run \in mutation.running : confirmed' = confirmed \cup {run.sha}
      BY DEF Next, vars, MergeConfig, MergeOther, Dispatch, Rerun, Scan, Comment, Flag, Guard,
             Mutate, Confirm, Clear, ScanEnds, thread
    <2>2. confirmed \subseteq 0 .. head /\ \A run \in mutation.running : run.sha \in 0 .. head
      BY PastCommits DEF Past, RunsOf
    <2>3. confirmed' \subseteq 0 .. head
      <3>1. \A n \in confirmed' : n \in confirmed \/ \E run \in mutation.running : n = run.sha
        BY <2>1
      <3>2. QED
        BY <2>2, <3>1
    <2>4. QED
      BY <1>1, <2>3, Zenon
  <1>5. ASSUME NEW n \in 0 .. head', Newest(n)'
        PROVE  config'[n] = config'[head']
    <2>1. head \in Nat /\ Newest(head)
      BY PastCommits DEF Past, Newest
    <2>2. CASE n \in 0 .. head
      <3>1. config'[n] = config[head]
        BY <1>5, <2>2, Merges DEF Past
      <3>2. ~ MergeConfig
        <4>1. MergeConfig => head + 1 \in touched' /\ head + 1 > n
          BY <2>1, <2>2 DEF MergeConfig
        <4>2. QED
          BY <1>5, <2>1, <2>2, <4>1 DEF Newest
      <3>3. QED
        BY <1>1, <3>1, <3>2, Merges
    <2>3. CASE n \notin 0 .. head
      <3>1. n = head'
        BY <2>1, <2>3, Merges
      <3>2. QED
        BY <3>1
    <2>4. QED
      BY <2>2, <2>3
  <1>6. \A run \in RunsOf(reminder)' \cup RunsOf(mutation)' : run.sha <= head'
    BY GroupsPast
  <1>7. QED
    BY <1>2, <1>3, <1>4, <1>5, <1>6 DEF Past

-----------------------------------------------------------------------------
\* The stages.

LEMMA PlacedStep == TypeOK /\ Past /\ Placed /\ [Next]_vars => Placed'
  <1> SUFFICES ASSUME TypeOK, Past, Placed, [Next]_vars PROVE Placed'
    OBVIOUS
  <1>1. /\ reminder \in Group /\ mutation \in Group
        /\ head \in Commit /\ launched \subseteq Commit
    BY DEF TypeOK
  <1>2. CASE MergeConfig
    <2> DEFINE new == [kind |-> "reminder", sha |-> head + 1, stage |-> "comment"]
    <2>1. head + 1 \in Commit
      BY <1>1, <1>2, TypeStep DEF MergeConfig, TypeOK
    <2>2. new \in RunRecord
      BY <2>1, NewRuns DEF Stage
    <2>3. reminder' = Arrive(reminder, new) /\ mutation' = mutation /\ new.stage = "comment"
      BY <1>2 DEF MergeConfig
    <2> HIDE DEF new
    <2>4. QED
      BY <1>1, <2>2, <2>3, ArriveIs DEF Placed
  <1>3. CASE Dispatch \/ Rerun \/ Scan
    <2>1. PICK n \in Commit, kind \in {"apply", "scan"}, stage \in {"guard", "scan"} :
            mutation' = Arrive(mutation, [kind |-> kind, sha |-> n, stage |-> stage])
      BY <1>1, <1>3 DEF Dispatch, Rerun, Scan
    <2> DEFINE new == [kind |-> kind, sha |-> n, stage |-> stage]
    <2>2. new \in RunRecord
      BY NewRuns DEF Stage
    <2>3. reminder' = reminder /\ mutation' = Arrive(mutation, new) /\ new.stage \in {"guard", "scan"}
      BY <1>3, <2>1 DEF Dispatch, Rerun, Scan
    <2> HIDE DEF new
    <2>4. QED
      BY <1>1, <2>2, <2>3, ArriveIs DEF Placed
  <1>4. ASSUME NEW run \in reminder.running, Comment(run) \/ Flag(run)
        PROVE  Placed'
    <2>1. mutation' = mutation /\ (reminder' = Leave(reminder, run) \/ reminder' = Advance(reminder, run, "flag"))
      BY <1>4 DEF Comment, Flag
    <2>2. CASE reminder' = Leave(reminder, run)
      BY <1>1, <2>1, <2>2, LeaveIs DEF Placed
    <2>3. CASE reminder' = Advance(reminder, run, "flag")
      BY <1>1, <2>1, <2>3, AdvanceIs DEF Placed, Stage
    <2>4. QED
      BY <2>1, <2>2, <2>3
  <1>5. ASSUME NEW run \in mutation.running,
               Guard(run) \/ Mutate(run) \/ Confirm(run) \/ Clear(run) \/ ScanEnds(run)
        PROVE  Placed'
    <2>1. /\ reminder' = reminder
          /\ mutation' = Leave(mutation, run) \/ \E stage \in Stage : mutation' = Advance(mutation, run, stage)
      BY <1>5 DEF Guard, Mutate, Confirm, Clear, ScanEnds, Stage
    <2>2. QED
      BY <1>1, <2>1, LeaveIs, AdvanceIs DEF Placed
  <1>6. CASE MergeOther \/ UNCHANGED vars
    BY <1>6 DEF MergeOther, vars, Placed
  <1>7. QED
    BY <1>2, <1>3, <1>4, <1>5, <1>6 DEF Next

\* What becomes of the run of the mutation group, seen from the step's end.
LEMMA Mutations ==
    ASSUME TypeOK, Past, Placed, [Next]_vars, NEW run \in mutation'.running
    PROVE  \/ run \in mutation.running /\ live' = live /\ confirmed' = confirmed
           \/ run.stage \in {"guard", "scan", "clear"}
           \/ run.stage = "mutate" /\ run.sha = head /\ confirmed' = confirmed
           \/ /\ run.stage = "confirm" /\ run.sha \in 0 .. head
              /\ live' = Applied(config[run.sha], Resource) /\ config' = config
  <1>1. mutation \in Group /\ head \in Commit /\ launched \subseteq Commit
    BY DEF TypeOK
  <1>2. CASE Dispatch \/ Rerun \/ Scan
    <2>1. PICK n \in Commit, kind \in {"apply", "scan"}, stage \in {"guard", "scan"} :
            mutation' = Arrive(mutation, [kind |-> kind, sha |-> n, stage |-> stage])
      BY <1>1, <1>2 DEF Dispatch, Rerun, Scan
    <2> DEFINE new == [kind |-> kind, sha |-> n, stage |-> stage]
    <2>2. new \in RunRecord
      BY NewRuns DEF Stage
    <2>3. /\ mutation' = Arrive(mutation, new) /\ new.stage \in {"guard", "scan"}
          /\ live' = live /\ confirmed' = confirmed
      BY <1>2, <2>1 DEF Dispatch, Rerun, Scan, thread
    <2> HIDE DEF new
    <2>4. QED
      BY <1>1, <2>2, <2>3, ArriveIs
  <1>3. ASSUME NEW old \in mutation.running, mutation' = Leave(mutation, old)
        PROVE  run.stage \in {"guard", "scan"}
    BY <1>1, <1>3, LeaveIs DEF Placed
  <1>4. ASSUME NEW old \in mutation.running, NEW stage \in Stage,
               mutation' = Advance(mutation, old, stage)
        PROVE  run.stage = stage /\ run.sha = old.sha /\ old.sha \in 0 .. head
    BY <1>1, <1>4, AdvanceIs, PastCommits DEF RunsOf
  <1>5. ASSUME NEW old \in mutation.running, Guard(old)
        PROVE  \/ run.stage \in {"guard", "scan"}
               \/ run.stage = "mutate" /\ run.sha = head /\ confirmed' = confirmed
    BY <1>3, <1>4, <1>5 DEF Guard, thread, Stage
  <1>6. ASSUME NEW old \in mutation.running, Mutate(old)
        PROVE  \/ run.stage \in {"guard", "scan"}
               \/ /\ run.stage = "confirm" /\ run.sha \in 0 .. head
                  /\ live' = Applied(config[run.sha], Resource) /\ config' = config
    BY <1>3, <1>4, <1>6 DEF Mutate, Stage, trunk
  <1>7. ASSUME NEW old \in mutation.running, Confirm(old) \/ Clear(old) \/ ScanEnds(old)
        PROVE  run.stage \in {"guard", "scan", "clear"}
    BY <1>3, <1>4, <1>7 DEF Confirm, Clear, ScanEnds, Stage
  <1>8. CASE MergeConfig \/ MergeOther \/ UNCHANGED vars
    BY <1>8 DEF MergeConfig, MergeOther, vars, thread
  <1>9. ASSUME NEW old \in reminder.running, Comment(old) \/ Flag(old)
        PROVE  run \in mutation.running /\ live' = live /\ confirmed' = confirmed
    BY <1>9 DEF Comment, Flag
  <1>10. QED
    BY <1>2, <1>5, <1>6, <1>7, <1>8, <1>9 DEF Next

\* An apply leaves in place what it does not declare otherwise.
LEMMA AppliedKeeps ==
    ASSUME NEW tree, NEW part \in SUBSET Resource, NEW r \in Resource
    PROVE  /\ Applied(tree, part)[r] \in {tree[r], live[r]}
           /\ r \in part /\ tree[r] # Absent => Applied(tree, part)[r] = tree[r]
  BY DEF Applied

\* A new "Applied" line is that of a run at its confirm stage.
LEMMA NewlyConfirmed ==
    ASSUME [Next]_vars, NEW n \in confirmed' \ confirmed
    PROVE  \E run \in mutation.running :
              run.stage = "confirm" /\ n = run.sha /\ live' = live /\ UNCHANGED trunk
  BY DEF Next, vars, MergeConfig, MergeOther, Dispatch, Rerun, Scan, Comment, Flag, Guard,
         Mutate, Confirm, Clear, ScanEnds, thread

\* What the newest confirmed config declares stays in place, also through an apply that
\* stops halfway: it is of the same config.
LEMMA TellsStep == TypeOK /\ Past /\ Upheld /\ [Next]_vars => ThreadTells'
  <1> SUFFICES ASSUME TypeOK, Past, Upheld, [Next]_vars, NEW n \in confirmed', Newest(n)',
                      NEW r \in Resource, config'[n][r] # Absent
               PROVE  live'[r] = config'[n][r]
    BY DEF ThreadTells, InPlace
  <1>1. CASE n \notin confirmed
    <2>1. PICK run \in mutation.running :
             run.stage = "confirm" /\ n = run.sha /\ live' = live /\ UNCHANGED trunk
      BY <1>1, NewlyConfirmed
    <2>2. InPlace(n)
      BY <2>1 DEF Upheld
    <2>3. QED
      BY <2>1, <2>2 DEF InPlace, trunk
  <1>2. CASE n \in confirmed
    <2>1. n \in 0 .. head /\ n \in Nat
      BY <1>2, PastCommits DEF Past
    <2>2. config'[n] = config[n] /\ Newest(n)
      BY <2>1, Merges
    <2>3. live[r] = config[n][r]
      BY <1>2, <2>2 DEF Upheld, ThreadTells, InPlace
    <2>4. ASSUME NEW run \in mutation.running, Mutate(run)
          PROVE  live'[r] = config[n][r]
      <3>1. run.sha \in 0 .. head /\ run.sha \in Nat /\ n <= run.sha
        BY <1>2, <2>4, PastCommits DEF RunsOf, Upheld, Mutate
      <3>2. Newest(run.sha)
        <4>1. \A m \in touched : m \in Nat /\ m <= n
          BY <2>2, PastCommits DEF Newest, Past
        <4>2. QED
          BY <2>1, <3>1, <4>1 DEF Newest
      <3>3. config[run.sha] = config[n]
        BY <2>1, <2>2, <3>1, <3>2 DEF Past
      <3>4. PICK part \in SUBSET Resource : live' = Applied(config[run.sha], part)
        BY <2>4 DEF Mutate
      <3>5. QED
        BY <2>3, <3>3, <3>4, AppliedKeeps
    <2>5. CASE live' = live
      BY <2>2, <2>3, <2>5
    <2>6. live' = live \/ \E run \in mutation.running : Mutate(run)
      BY DEF Next, vars, MergeConfig, MergeOther, Dispatch, Rerun, Scan, Comment, Flag, Guard,
             Confirm, Clear, ScanEnds
    <2>7. QED
      BY <2>2, <2>4, <2>5, <2>6
  <1>3. QED
    BY <1>1, <1>2

LEMMA UpheldStep == TypeOK /\ Past /\ Placed /\ Upheld /\ [Next]_vars => Upheld'
  <1> SUFFICES ASSUME TypeOK, Past, Placed, Upheld, [Next]_vars,
                      NEW run \in mutation'.running
               PROVE  /\ run.stage = "mutate" => \A n \in confirmed' : n <= run.sha
                      /\ run.stage = "confirm" => InPlace(run.sha)'
    BY TellsStep DEF Upheld
  <1>1. CASE run \in mutation.running /\ live' = live /\ confirmed' = confirmed
    <2>1. run.sha \in 0 .. head
      BY <1>1, PastCommits DEF RunsOf
    <2>2. config'[run.sha] = config[run.sha]
      BY <2>1, Merges
    <2>3. InPlace(run.sha) => InPlace(run.sha)'
      BY <1>1, <2>2 DEF InPlace
    <2>4. QED
      BY <1>1, <2>3 DEF Upheld
  <1>2. CASE run.stage = "mutate" /\ run.sha = head /\ confirmed' = confirmed
    BY <1>2, PastCommits DEF Past
  <1>3. CASE /\ run.stage = "confirm" /\ live' = Applied(config[run.sha], Resource)
             /\ config' = config
    <2>1. \A r \in Resource : config[run.sha][r] # Absent => live'[r] = config[run.sha][r]
      BY <1>3, AppliedKeeps
    <2>2. QED
      BY <1>3, <2>1 DEF InPlace
  <1>4. QED
    BY <1>1, <1>2, <1>3, Mutations

-----------------------------------------------------------------------------
\* The newest merge's reminder, and the live commit's confirmation.

LEMMA ComingStep == TypeOK /\ Past /\ Placed /\ Coming /\ [Next]_vars => Coming'
  <1> SUFFICES ASSUME TypeOK, Past, Placed, Coming, [Next]_vars, NEW n \in touched', Newest(n)',
                      n \notin {0} \cup reminded' \cup unsaid'
               PROVE  \E run \in Last(reminder') : run.stage = "comment" /\ run.sha = n
    BY DEF Coming, Last
  <1>1. reminder \in Group /\ head \in Commit /\ head \in Nat
    BY PastCommits DEF TypeOK
  <1>2. CASE MergeConfig
    <2> DEFINE new == [kind |-> "reminder", sha |-> head + 1, stage |-> "comment"]
    <2>1. head + 1 \in Commit
      BY <1>2, TypeStep DEF MergeConfig, TypeOK
    <2>2. new \in RunRecord
      BY <2>1, NewRuns DEF Stage
    <2>3. reminder' = Arrive(reminder, new) /\ new.stage = "comment" /\ new.sha = head + 1
      BY <1>2 DEF MergeConfig
    <2> HIDE DEF new
    <2>4. new \in Last(reminder')
      BY <1>1, <2>2, <2>3, ArriveIs DEF Last
    <2>5. n = head + 1
      <3>1. touched' = touched \cup {head + 1} /\ head + 1 <= n
        BY <1>2 DEF MergeConfig, Newest
      <3>2. \A m \in touched : m \in Nat /\ m <= head
        BY PastCommits DEF Past
      <3>3. n \notin touched
        BY <1>1, <3>1, <3>2
      <3>4. QED
        BY <3>1, <3>3
    <2>6. QED
      BY <2>3, <2>4, <2>5
  <1>3. CASE ~ MergeConfig
    <2>1. /\ reminded \subseteq reminded' /\ unsaid \subseteq unsaid'
          /\ touched' = touched
      BY <1>3 DEF Next, vars, MergeOther, Dispatch, Rerun, Scan, Comment, Flag, Guard,
             Mutate, Confirm, Clear, ScanEnds, trunk, thread
    <2>2. PICK old \in Last(reminder) : old.stage = "comment" /\ old.sha = n
      BY <2>1 DEF Coming, Newest
    <2>3. CASE reminder' = reminder
      BY <2>2, <2>3
    <2>4. ASSUME NEW run \in reminder.running, Comment(run) \/ Flag(run)
          PROVE  old \in Last(reminder')
      <3>1. old # run
        BY <2>2, <2>4 DEF Comment, Flag
      <3>2. reminder.pending # {} /\ old \in reminder.pending
        BY <1>1, <2>2, <3>1, GroupIs DEF Last
      <3>3. \/ reminder' = [running |-> reminder.pending, pending |-> {}]
            \/ reminder'.pending = reminder.pending
        BY <1>1, <2>4, LeaveIs, AdvanceIs DEF Comment, Flag, Stage
      <3>4. QED
        BY <3>2, <3>3 DEF Last
    <2>5. \/ reminder' = reminder
          \/ \E run \in reminder.running : Comment(run) \/ Flag(run)
      BY <1>3 DEF Next, vars, MergeOther, Dispatch, Rerun, Scan, Guard, Mutate, Confirm, Clear,
                  ScanEnds
    <2>6. QED
      BY <2>2, <2>3, <2>4, <2>5
  <1>4. QED
    BY <1>2, <1>3

-----------------------------------------------------------------------------
\* Theorems.

IInv == TypeOK /\ Past /\ Placed /\ Upheld /\ Coming

\* The inductive invariant holds in every run of the tracker's workflows.
THEOREM TrackerInvariant == Spec => []IInv
  <1>1. Init => IInv
    <2> SUFFICES ASSUME Init PROVE IInv
      OBVIOUS
    <2>1. TypeOK
      <3>1. Idle \in Group
        BY DEF Idle, Group
      <3>2. 0 \in Commit
        BY TrackerAssumption DEF Commit
      <3>3. config \in [Commit -> Tree] /\ live \in Config
        BY <3>2, TrackerAssumption DEF Init
      <3>4. QED
        BY <3>1, <3>2, <3>3 DEF Init, TypeOK
    <2>2. Past /\ Placed /\ Upheld
      BY DEF Init, Past, Placed, Upheld, ThreadTells, RunsOf, Idle
    <2>3. Coming
      BY DEF Init, Coming
    <2>4. QED
      BY <2>1, <2>2, <2>3 DEF IInv
  <1>2. IInv /\ [Next]_vars => IInv'
    BY TypeStep, PastStep, PlacedStep, UpheldStep, ComingStep DEF IInv
  <1>3. QED
    BY <1>1, <1>2, PTL DEF Spec

\* Types, for any bounds.
THEOREM TrackerTypeCorrect == Spec => []TypeOK
  <1>1. IInv => TypeOK
    BY DEF IInv
  <1>2. QED
    BY <1>1, TrackerInvariant, PTL

\* However many merges pile up behind a reminder, and whatever fails after its comment,
\* the newest config has its line once the group is idle, or a run that failed.
THEOREM NewestRemindedCorrect == Spec => []NewestReminded
  <1>1. IInv => NewestReminded
    BY DEF IInv, NewestReminded, Idle, Coming, Last
  <1>2. QED
    BY <1>1, TrackerInvariant, PTL

\* At any time, with failures and half-made applies of older and newer runs around it,
\* an "Applied" line for the newest config means that all it declares is live.
THEOREM ThreadTellsCorrect == Spec => []ThreadTells
  <1>1. IInv => ThreadTells
    BY DEF IInv, Upheld
  <1>2. QED
    BY <1>1, TrackerInvariant, PTL

\* "Applied" is posted only when all that its tree declares is live as declared, whatever
\* is merged, dispatched, re-run, cancelled or failing around it.
THEOREM ConfirmedIsLiveCorrect == Spec => ConfirmedIsLive
  <1>1. IInv /\ [Next]_vars => [\A n \in confirmed' \ confirmed : InPlace(n)]_vars
    BY NewlyConfirmed DEF IInv, Upheld
  <1>2. QED
    BY <1>1, TrackerInvariant, PTL DEF Spec, ConfirmedIsLive
=============================================================================
