--------------------------- MODULE AppActorsProofs ---------------------------
(* Theorems about AppActors, for every config, allow-list and spelling.       *)
EXTENDS AppActors, TLAPS

-----------------------------------------------------------------------------
\* The inductive invariant.

Typed ==
    /\ apps \in [{"now", "ever", "always"} -> SUBSET Fact]
    /\ apps.always \subseteq apps.now /\ apps.now \subseteq apps.ever
    /\ actors \in [stage : {"idle", "reading", "over"},
                   list : [state : {"unread", "whole", "partial", "refused"}, slugs : SUBSET {Fold[s] : s \in Slug}],
                   answer : [Slug -> {"unasked", "resolved", "unresolvable", "undetermined"}],
                   kind : {"none", "degraded", "report"},
                   rows : SUBSET (Section \X (Slug \cup {"*"})
                                  \X {"bypass", "check", "branch", "reviewer", "*"})]
    /\ actors.list.state = "unread" => actors.list = NoList
    /\ actors.stage = "reading" => actors.kind = "none"

\* An answer on a slug, and a whole list, say what was the case when they came.
Heard ==
    \A s \in Slug :
        /\ actors.answer[s] = "unresolvable" => Readable(s) \notin apps.always
        /\ actors.answer[s] = "resolved" => Readable(s) \in apps.ever

Listed ==
    actors.list.state = "whole" =>
        \A s \in Needing :
            /\ Fold[s] \in actors.list.slugs => Installed(s) \in apps.ever
            /\ Fold[s] \notin actors.list.slugs => Installed(s) \notin apps.always

\* What is printed is what was read, all of it.
Printed ==
    /\ actors.kind # "report" => actors.rows = {}
    /\ actors.kind = "report" =>
          /\ actors.rows = IF Rows = {} THEN {<<"clean", "*", "*">>} ELSE Rows
          /\ Unasked = {}
          /\ Needing # {} => actors.list # NoList

IInv == Typed /\ Heard /\ Listed /\ Printed

-----------------------------------------------------------------------------
\* Sites.

LEMMA SitesTyped ==
    ASSUME ActorsAssumption
    PROVE  /\ \A t \in Sites : t.slug \in Slug /\ t.site \in {"bypass", "check", "branch", "reviewer"}
           /\ \A t \in Sites : ReadNeedsInstallation(t.site) => t.slug \in Needing
           /\ Needing \subseteq Slug
  <1>1. \A t \in Sites : \E d \in Declared : t.site = d.site
    BY DEF Sites
  <1>2. QED
    BY <1>1 DEF ActorsAssumption, Slug, Needing

\* The tables, row by row.
LEMMA RowsAre ==
    ASSUME NEW r
    PROVE  r \in Rows <=>
              \/ \E t \in Sites :
                    \/ /\ r = <<"failing", t.slug, t.site>>
                       /\ ~ Accepted(t.slug) /\ Unresolvable(t.slug) /\ FailsApply(t.site)
                    \/ /\ r = <<"dropped", t.slug, t.site>>
                       /\ ~ Accepted(t.slug) /\ Unresolvable(t.slug) /\ ~ FailsApply(t.site)
                    \/ /\ r = <<"not installed", t.slug, t.site>>
                       /\ ~ Accepted(t.slug) /\ Missing(t.slug) /\ ReadNeedsInstallation(t.site)
                    \/ /\ r = <<"suppressed", t.slug, t.site>>
                       /\ Accepted(t.slug) /\ (Unresolvable(t.slug) \/ Missing(t.slug))
              \/ \E s \in Slug : r = <<"undetermined", s, "*">> /\ actors.answer[s] = "undetermined"
              \/ r = <<"installations unread", "*", "*">> /\ actors.list.state \in {"partial", "refused"}
  BY DEF Rows

\* What a row of them says of its slug.
LEMMA RowSays ==
    ASSUME NEW r \in Rows
    PROVE  /\ r[1] \in {"failing", "dropped"} => Unresolvable(r[2])
           /\ r[1] = "not installed" => Missing(r[2])
           /\ r[1] = "suppressed" => Unresolvable(r[2]) \/ Missing(r[2])
  <1>1. ASSUME NEW t \in Sites, r = <<"failing", t.slug, t.site>> \/ r = <<"dropped", t.slug, t.site>>,
               Unresolvable(t.slug)
        PROVE  r[1] \in {"failing", "dropped"} /\ Unresolvable(r[2])
    BY <1>1
  <1>2. ASSUME NEW t \in Sites, r = <<"not installed", t.slug, t.site>>, Missing(t.slug)
        PROVE  r[1] = "not installed" /\ Missing(r[2])
    BY <1>2
  <1>3. ASSUME NEW t \in Sites, r = <<"suppressed", t.slug, t.site>>,
               Unresolvable(t.slug) \/ Missing(t.slug)
        PROVE  r[1] = "suppressed" /\ (Unresolvable(r[2]) \/ Missing(r[2]))
    BY <1>3
  <1>4. ASSUME NEW s, r = <<"undetermined", s, "*">>
        PROVE  r[1] = "undetermined"
    BY <1>4
  <1>5. ASSUME r = <<"installations unread", "*", "*">>
        PROVE  r[1] = "installations unread"
    BY <1>5
  <1>6. QED
    BY <1>1, <1>2, <1>3, <1>4, <1>5, RowsAre

LEMMA RowsTyped ==
    ASSUME ActorsAssumption
    PROVE  Rows \subseteq Section \X (Slug \cup {"*"})
                          \X {"bypass", "check", "branch", "reviewer", "*"}
  <1>1. ASSUME NEW r \in Rows
        PROVE  r \in Section \X (Slug \cup {"*"}) \X {"bypass", "check", "branch", "reviewer", "*"}
    <2>1. PICK a, b, c : /\ r = <<a, b, c>>
                         /\ a \in Section
                         /\ b \in Slug \cup {"*"}
                         /\ c \in {"bypass", "check", "branch", "reviewer", "*"}
      BY RowsAre, SitesTyped DEF Section
    <2>2. QED
      BY <2>1
  <1>2. QED
    BY <1>1

-----------------------------------------------------------------------------
\* The steps.

LEMMA InitIInv ==
    ASSUME Init
    PROVE  IInv
  <1>1. actors = Idle /\ apps.always = apps.now /\ apps.now = apps.ever
    BY DEF Init
  <1>2. apps \in [{"now", "ever", "always"} -> SUBSET Fact]
    <2>1. PICK f \in SUBSET Fact : apps = [now |-> f, ever |-> f, always |-> f]
      BY DEF Init
    <2>2. QED
      BY <2>1
  <1>3. Typed
    BY <1>1, <1>2 DEF Typed, Idle, NoList
  <1>4. Heard /\ Listed /\ Printed
    BY <1>1 DEF Heard, Listed, Printed, Idle, NoList
  <1>5. QED
    BY <1>3, <1>4 DEF IInv

\* Whatever breaks the check off, nothing is known and nothing printed.
LEMMA DegradeStep ==
    ASSUME IInv, Degrade, UNCHANGED apps
    PROVE  IInv'
  <1>1. actors' = [stage |-> "over", list |-> NoList, answer |-> [s \in Slug |-> "unasked"],
                   kind |-> "degraded", rows |-> {}]
    BY DEF Degrade, Idle
  <1>2. Typed'
    BY <1>1 DEF IInv, Typed, NoList
  <1>3. Heard' /\ Listed' /\ Printed'
    BY <1>1 DEF Heard, Listed, Printed, NoList
  <1>4. QED
    BY <1>2, <1>3 DEF IInv

LEMMA BeginStep ==
    ASSUME IInv, Begin
    PROVE  IInv'
  <1>1. apps' = [now |-> apps.now, ever |-> apps.now, always |-> apps.now]
    BY DEF Begin, IInv, Typed
  <1>2. PICK stage \in {"reading", "over"}, kind \in {"none", "degraded"} :
           /\ stage = "reading" => kind = "none"
           /\ actors' = [stage |-> stage, list |-> NoList, answer |-> [s \in Slug |-> "unasked"],
                         kind |-> kind, rows |-> {}]
    BY DEF Begin, Degrade, Idle
  <1>3. Typed'
    BY <1>1, <1>2 DEF IInv, Typed, NoList
  <1>4. Heard' /\ Listed' /\ Printed'
    BY <1>2 DEF Heard, Listed, Printed, NoList
  <1>5. QED
    BY <1>3, <1>4 DEF IInv

\* Of the facts that hold, those on installations.
LEMMA ListedNow ==
    ASSUME Typed, NEW s \in Needing
    PROVE  LET listed == {f[2] : f \in {g \in apps.now : g[1] = "installed"}}
           IN  /\ listed \subseteq {Fold[t] : t \in Slug}
               /\ Fold[s] \in listed <=> Installed(s) \in apps.now
  <1> DEFINE listed == {f[2] : f \in {g \in apps.now : g[1] = "installed"}}
  <1>1. apps.now \subseteq Fact
    BY DEF Typed
  <1>2. ASSUME NEW g \in apps.now, g[1] = "installed"
        PROVE  g = <<"installed", g[2]>> /\ g[2] \in {Fold[t] : t \in Slug}
    <2>1. g \in {"installed"} \X {Fold[t] : t \in Needing}
      BY <1>1, <1>2 DEF Fact
    <2>2. Needing \subseteq Slug
      BY DEF Needing, Slug
    <2>3. QED
      BY <2>1, <2>2
  <1>3. listed \subseteq {Fold[t] : t \in Slug}
    BY <1>2
  <1>4. ASSUME Fold[s] \in listed PROVE Installed(s) \in apps.now
    BY <1>2, <1>4 DEF Installed
  <1>5. ASSUME Installed(s) \in apps.now PROVE Fold[s] \in listed
    BY <1>5 DEF Installed
  <1>6. QED
    BY <1>3, <1>4, <1>5

LEMMA ReadInstallationsStep ==
    ASSUME IInv, ReadInstallations
    PROVE  IInv'
  <1> DEFINE listed == {f[2] : f \in {g \in apps.now : g[1] = "installed"}}
  <1>1. PICK list \in [state : {"whole", "partial", "refused"}, slugs : SUBSET listed] :
           /\ actors' = [actors EXCEPT !.list = list]
           /\ list.state = "whole" => list.slugs = listed
    <2>1. PICK state \in {"whole", "partial", "refused"}, slugs \in SUBSET listed :
             /\ actors' = [actors EXCEPT !.list = [state |-> state, slugs |-> slugs]]
             /\ state = "whole" => slugs = listed
      <3>1. CASE actors' = [actors EXCEPT !.list = [state |-> "whole", slugs |-> listed]]
        BY <3>1
      <3>2. CASE \E part \in SUBSET listed :
                    actors' = [actors EXCEPT !.list = [state |-> "partial", slugs |-> part]]
        BY <3>2
      <3>3. CASE actors' = [actors EXCEPT !.list = [state |-> "refused", slugs |-> {}]]
        <4>1. {} \in SUBSET listed /\ "refused" \in {"whole", "partial", "refused"}
          OBVIOUS
        <4>2. "refused" # "whole"
          OBVIOUS
        <4>3. QED
          BY <3>3, <4>1, <4>2, Zenon
      <3>4. QED
        BY <3>1, <3>2, <3>3 DEF ReadInstallations
    <2> DEFINE list == [state |-> state, slugs |-> slugs]
    <2>2. list \in [state : {"whole", "partial", "refused"}, slugs : SUBSET listed]
      OBVIOUS
    <2>3. list.state = state /\ list.slugs = slugs
      OBVIOUS
    <2>4. actors' = [actors EXCEPT !.list = list]
      BY <2>1
    <2> HIDE DEF list
    <2>5. QED
      BY <2>1, <2>2, <2>3, <2>4, Zenon
  <1>2. apps' = apps /\ Typed /\ Heard /\ Printed /\ actors.stage = "reading" /\ actors.list = NoList
    BY DEF ReadInstallations, IInv
  <1>3. \A s \in Needing : Fold[s] \in listed <=> Installed(s) \in apps.now
    BY <1>2, ListedNow
  <1>4. PICK s0 \in Needing : TRUE
    BY DEF ReadInstallations
  <1>5. listed \subseteq {Fold[t] : t \in Slug}
    BY <1>2, <1>4, ListedNow
  <1>6. /\ actors'.stage = actors.stage /\ actors'.list = list
        /\ actors'.answer = actors.answer /\ actors'.kind = actors.kind
        /\ actors'.rows = actors.rows
    BY <1>1, <1>2 DEF Typed
  <1>7. Typed'
    BY <1>1, <1>2, <1>5, <1>6 DEF Typed
  <1>8. Heard'
    BY <1>2, <1>6 DEF Heard, Readable
  <1>9. Listed'
    BY <1>1, <1>2, <1>3, <1>6 DEF Listed, Typed, Installed
  <1>10. Printed'
    BY <1>2, <1>6 DEF Printed
  <1>11. QED
    BY <1>7, <1>8, <1>9, <1>10 DEF IInv


\* What an answer is taken for is the case when it comes.
LEMMA ResolveStep ==
    ASSUME IInv, Resolve
    PROVE  IInv'
  <1>1. PICK reply \in Answers(Turn) \cup BadAnswers :
           actors' = [actors EXCEPT !.answer[Turn] = Classify(reply)]
    BY DEF Resolve
  <1>2. /\ apps' = apps /\ Typed /\ Heard /\ Listed /\ Printed /\ actors.stage = "reading"
        /\ Turn \in Slug
    BY DEF Resolve, IInv, Turn, Unasked
  <1>3. /\ Classify(reply) \in {"resolved", "unresolvable", "undetermined"}
        /\ Classify(reply) = "resolved" => Readable(Turn) \in apps.now
        /\ Classify(reply) = "unresolvable" => Readable(Turn) \notin apps.now
    <2>1. CASE reply \in BadAnswers
      BY <2>1 DEF BadAnswers, Reply, Classify
    <2>2. CASE reply \in Answers(Turn) /\ Readable(Turn) \in apps.now
      BY <2>2 DEF Answers, Reply, Classify
    <2>3. CASE reply \in Answers(Turn) /\ Readable(Turn) \notin apps.now
      BY <2>3 DEF Answers, Reply, Classify
    <2>4. QED
      BY <2>1, <2>2, <2>3
  <1>4. /\ actors'.stage = actors.stage /\ actors'.list = actors.list
        /\ actors'.answer = [actors.answer EXCEPT ![Turn] = Classify(reply)]
        /\ actors'.kind = actors.kind /\ actors'.rows = actors.rows
    BY <1>1, <1>2 DEF Typed
  <1> DEFINE turn == Turn
             verdict == Classify(reply)
  <1>5. /\ turn \in Slug /\ actors'.answer = [actors.answer EXCEPT ![turn] = verdict]
        /\ actors' = [actors EXCEPT !.answer[turn] = verdict]
        /\ verdict \in {"resolved", "unresolvable", "undetermined"}
        /\ verdict = "resolved" => Readable(turn) \in apps.now
        /\ verdict = "unresolvable" => Readable(turn) \notin apps.now
    BY <1>1, <1>2, <1>3, <1>4
  <1> HIDE DEF turn, verdict
  <1>6. Typed'
    BY <1>2, <1>4, <1>5 DEF Typed, NoList
  <1>7. Heard'
    <2>1. ASSUME NEW s \in Slug
          PROVE  /\ actors'.answer[s] = "unresolvable" => Readable(s) \notin apps.always
                 /\ actors'.answer[s] = "resolved" => Readable(s) \in apps.ever
      <3>1. CASE s = turn
        BY <1>2, <1>5, <3>1 DEF Typed
      <3>2. CASE s # turn
        BY <1>2, <1>5, <3>2 DEF Typed, Heard
      <3>3. QED
        BY <3>1, <3>2
    <2>2. QED
      BY <1>2, <2>1 DEF Heard, Readable
  <1>8. Listed'
    BY <1>2, <1>4 DEF Listed, Installed
  <1>9. Printed'
    BY <1>2, <1>4 DEF Printed, Typed
  <1>10. QED
    BY <1>6, <1>7, <1>8, <1>9 DEF IInv

LEMMA ReportStep ==
    ASSUME ActorsAssumption, IInv, Report
    PROVE  IInv'
  <1>1. /\ apps' = apps /\ Typed /\ Heard /\ Listed
        /\ Needing # {} => actors.list # NoList
        /\ Unasked = {}
    BY DEF Report, IInv
  <1> DEFINE rows == IF Rows = {} THEN {<<"clean", "*", "*">>} ELSE Rows
  <1>2. actors' = [actors EXCEPT !.stage = "over", !.kind = "report", !.rows = rows]
    BY DEF Report
  <1>3. rows \subseteq Section \X (Slug \cup {"*"})
                       \X {"bypass", "check", "branch", "reviewer", "*"}
    <2>1. <<"clean", "*", "*">> \in Section \X (Slug \cup {"*"})
                                    \X {"bypass", "check", "branch", "reviewer", "*"}
      BY DEF Section
    <2>2. QED
      BY <2>1, RowsTyped
  <1>4. /\ actors'.stage = "over" /\ actors'.list = actors.list
        /\ actors'.answer = actors.answer /\ actors'.kind = "report" /\ actors'.rows = rows
    <2> HIDE DEF rows
    <2>1. QED
      BY <1>1, <1>2 DEF Typed
  <1>5. Typed'
    <2> HIDE DEF rows
    <2>1. QED
      BY <1>1, <1>2, <1>3, <1>4 DEF Typed, NoList
  <1>6. Heard' /\ Listed'
    BY <1>1, <1>4 DEF Heard, Listed, Readable, Installed
  <1>7. Rows' = Rows /\ Unasked' = Unasked
    BY <1>4 DEF Rows, Unasked, Unresolvable, Missing
  <1>8. Printed'
    BY <1>1, <1>4, <1>7 DEF Printed
  <1>9. QED
    BY <1>5, <1>6, <1>8 DEF IInv

\* What was the case stays so in ever, and what was not stays so in always.
LEMMA LiveChangeStep ==
    ASSUME IInv, LiveChange
    PROVE  IInv'
  <1>1. PICK f \in Fact :
           apps' = [now |-> (apps.now \ {f}) \cup ({f} \ apps.now),
                    ever |-> apps.ever \cup ((apps.now \ {f}) \cup ({f} \ apps.now)),
                    always |-> apps.always \cap ((apps.now \ {f}) \cup ({f} \ apps.now))]
    BY DEF LiveChange
  <1>2. actors' = actors /\ Typed /\ Heard /\ Listed /\ Printed
    BY DEF LiveChange, IInv
  <1>3. /\ apps' \in [{"now", "ever", "always"} -> SUBSET Fact]
        /\ apps'.always \subseteq apps'.now /\ apps'.now \subseteq apps'.ever
        /\ apps'.always \subseteq apps.always /\ apps.ever \subseteq apps'.ever
    BY <1>1, <1>2 DEF Typed
  <1>4. Typed'
    BY <1>2, <1>3 DEF Typed, NoList
  <1>5. Heard' /\ Listed'
    BY <1>2, <1>3 DEF Heard, Listed, Readable, Installed
  <1>6. Printed'
    BY <1>2 DEF Printed, Rows, Unasked, Unresolvable, Missing
  <1>7. QED
    BY <1>4, <1>5, <1>6 DEF IInv

\* A step of something else.
LEMMA StillStep ==
    ASSUME IInv, UNCHANGED <<apps, actors>>
    PROVE  IInv'
  <1>1. Typed' /\ Heard' /\ Listed'
    BY DEF IInv, Typed, Heard, Listed, NoList, Readable, Installed
  <1>2. Printed'
    BY DEF IInv, Printed, Rows, Unasked, Unresolvable, Missing, NoList
  <1>3. QED
    BY <1>1, <1>2 DEF IInv

\* The check is forgotten, and another may begin.
LEMMA ForgetStep ==
    ASSUME IInv, actors' = Idle, apps' = [apps EXCEPT !.ever = apps.now, !.always = apps.now]
    PROVE  IInv'
  <1>1. apps' = [now |-> apps.now, ever |-> apps.now, always |-> apps.now]
    BY DEF IInv, Typed
  <1>2. actors' = [stage |-> "idle", list |-> NoList, answer |-> [s \in Slug |-> "unasked"],
                   kind |-> "none", rows |-> {}]
    BY DEF Idle
  <1>3. Typed'
    BY <1>1, <1>2 DEF IInv, Typed, NoList
  <1>4. Heard' /\ Listed' /\ Printed'
    BY <1>2 DEF Heard, Listed, Printed, NoList
  <1>5. QED
    BY <1>3, <1>4 DEF IInv

LEMMA NextStep ==
    ASSUME ActorsAssumption, IInv, Next
    PROVE  IInv'
  <1>1. CASE Break
    BY <1>1, DegradeStep DEF Break
  <1>2. QED
    BY <1>1, BeginStep, ReadInstallationsStep, ResolveStep, ReportStep, LiveChangeStep DEF Next

-----------------------------------------------------------------------------
\* What the invariant says of the tables.

LEMMA NothingFalse == IInv => NoFalseActor
  <1>1. SUFFICES ASSUME IInv, NEW s \in Slug
                 PROVE  /\ s \in Named("failing") \cup Named("dropped") => Readable(s) \notin apps.always
                        /\ s \in Named("not installed") => Installed(s) \notin apps.always
                        /\ s \in Named("suppressed") =>
                              ~ ({Readable(s), Installed(s)} \subseteq apps.always)
    BY DEF NoFalseActor
  <1>2. \A r \in actors.rows : r \in Rows \/ r[1] = "clean"
    BY <1>1 DEF IInv, Printed
  <1>3. Unresolvable(s) => Readable(s) \notin apps.always
    BY <1>1 DEF IInv, Heard, Unresolvable
  <1>4. Missing(s) => Installed(s) \notin apps.always
    BY <1>1 DEF IInv, Listed, Missing
  <1>5. ASSUME s \in Named("failing") \cup Named("dropped")
        PROVE  Unresolvable(s)
    <2>1. PICK r \in actors.rows : r[1] \in {"failing", "dropped"} /\ r[2] = s
      BY <1>5 DEF Named
    <2>2. r \in Rows
      BY <1>2, <2>1
    <2>3. QED
      BY <2>1, <2>2, RowSays
  <1>6. ASSUME s \in Named("not installed")
        PROVE  Missing(s)
    <2>1. PICK r \in actors.rows : r[1] = "not installed" /\ r[2] = s
      BY <1>6 DEF Named
    <2>2. r \in Rows
      BY <1>2, <2>1
    <2>3. QED
      BY <2>1, <2>2, RowSays
  <1>7. ASSUME s \in Named("suppressed")
        PROVE  Unresolvable(s) \/ Missing(s)
    <2>1. PICK r \in actors.rows : r[1] = "suppressed" /\ r[2] = s
      BY <1>7 DEF Named
    <2>2. r \in Rows
      BY <1>2, <2>1
    <2>3. QED
      BY <2>1, <2>2, RowSays
  <1>8. QED
    BY <1>3, <1>4, <1>5, <1>6, <1>7

LEMMA NothingSilent ==
    ASSUME ActorsAssumption
    PROVE  IInv => NoSilentActor
  <1>1. SUFFICES ASSUME IInv, actors.kind = "report", NEW t \in Sites
        PROVE
          /\ Readable(t.slug) \notin apps.ever =>
                \/ {"undetermined", "suppressed"} \cap {r[1] : r \in {q \in actors.rows : q[2] = t.slug}} # {}
                \/ <<IF FailsApply(t.site) THEN "failing" ELSE "dropped", t.slug, t.site>> \in actors.rows
          /\ ReadNeedsInstallation(t.site) /\ Installed(t.slug) \notin apps.ever =>
                \/ <<"installations unread", "*", "*">> \in actors.rows
                \/ t.slug \in Named("suppressed")
                \/ <<"not installed", t.slug, t.site>> \in actors.rows
    BY DEF NoSilentActor
  <1>2. /\ Rows \subseteq actors.rows
        /\ Unasked = {}
        /\ Needing # {} => actors.list # NoList
    BY <1>1 DEF IInv, Printed
  <1>3. t.slug \in Slug /\ (ReadNeedsInstallation(t.site) => t.slug \in Needing)
    BY SitesTyped
  <1>4. ASSUME Readable(t.slug) \notin apps.ever
        PROVE  \/ {"undetermined", "suppressed"} \cap {r[1] : r \in {q \in actors.rows : q[2] = t.slug}} # {}
               \/ <<IF FailsApply(t.site) THEN "failing" ELSE "dropped", t.slug, t.site>> \in actors.rows
    <2>1. actors.answer[t.slug] \in {"unresolvable", "undetermined"}
      BY <1>1, <1>2, <1>3, <1>4 DEF IInv, Typed, Heard, Unasked
    <2>2. ASSUME NEW section \in {"undetermined", "suppressed"}, NEW site,
                 <<section, t.slug, site>> \in actors.rows
          PROVE  section \in {r[1] : r \in {q \in actors.rows : q[2] = t.slug}}
      BY <2>2
    <2>3. CASE actors.answer[t.slug] = "undetermined"
      <3>1. <<"undetermined", t.slug, "*">> \in actors.rows
        BY <1>2, <1>3, <2>3, RowsAre
      <3>2. QED
        BY <2>2, <3>1
    <2>4. CASE Unresolvable(t.slug) /\ Accepted(t.slug)
      <3>1. <<"suppressed", t.slug, t.site>> \in actors.rows
        BY <1>2, <2>4, RowsAre
      <3>2. QED
        BY <2>2, <3>1
    <2>5. CASE Unresolvable(t.slug) /\ ~ Accepted(t.slug)
      BY <1>2, <2>5, RowsAre
    <2>6. QED
      BY <2>1, <2>3, <2>4, <2>5 DEF Unresolvable
  <1>5. ASSUME ReadNeedsInstallation(t.site), Installed(t.slug) \notin apps.ever
        PROVE  \/ <<"installations unread", "*", "*">> \in actors.rows
               \/ t.slug \in Named("suppressed")
               \/ <<"not installed", t.slug, t.site>> \in actors.rows
    <2>1. actors.list.state \in {"whole", "partial", "refused"}
      BY <1>1, <1>2, <1>3, <1>5 DEF IInv, Typed
    <2>2. CASE actors.list.state \in {"partial", "refused"}
      BY <1>2, <2>2, RowsAre
    <2>3. CASE actors.list.state = "whole"
      <3>1. Missing(t.slug)
        BY <1>1, <1>3, <1>5, <2>3 DEF IInv, Listed, Missing
      <3>2. CASE Accepted(t.slug)
        <4>1. <<"suppressed", t.slug, t.site>> \in actors.rows
          BY <1>2, <3>1, <3>2, RowsAre
        <4>2. QED
          <5>1. <<"suppressed", t.slug, t.site>>[1] = "suppressed"
                /\ <<"suppressed", t.slug, t.site>>[2] = t.slug
            OBVIOUS
          <5>2. QED
            BY <4>1, <5>1, Zenon DEF Named
      <3>3. CASE ~ Accepted(t.slug)
        BY <1>2, <1>5, <3>1, <3>3, RowsAre
      <3>4. QED
        BY <3>2, <3>3
    <2>4. QED
      BY <2>1, <2>2, <2>3
  <1>6. QED
    BY <1>4, <1>5

LEMMA Types == IInv => TypeOK
  BY DEF IInv, Typed, TypeOK

-----------------------------------------------------------------------------
\* The theorems.

\* The check keeps the invariant: of each slug it knows what held when the answer
\* came, through changes before and after it, and it prints all that it knows.
THEOREM ActorsInvariant ==
    ASSUME ActorsAssumption
    PROVE  Spec => []IInv
  <1>1. Init => IInv
    BY InitIInv
  <1>2. IInv /\ [Next]_vars => IInv'
    BY NextStep, StillStep DEF vars
  <1>3. QED
    BY <1>1, <1>2, PTL DEF Spec

\* For every config, allow-list and spelling of slugs: what a table says of a slug was
\* the case at some time of the check, however reads fail and Apps change in between.
THEOREM NoFalseActorCorrect ==
    ASSUME ActorsAssumption
    PROVE  Spec => []NoFalseActor
  BY NothingFalse, ActorsInvariant, PTL

\* And nothing is passed over: of a slug that could never be written, or was never
\* installed where that is needed, every site is in a table, or the fragment says that
\* it could not be checked.
THEOREM NoSilentActorCorrect ==
    ASSUME ActorsAssumption
    PROVE  Spec => []NoSilentActor
  <1>1. IInv => NoSilentActor
    BY NothingSilent
  <1>2. QED
    BY <1>1, ActorsInvariant, PTL
=============================================================================
