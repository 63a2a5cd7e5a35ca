------------------------------ MODULE AppActors ------------------------------
(***************************************************************************)
(* One run of drift-layer --app-actors-report: the App slugs the evaluated *)
(* config declares, asked one by one of GET /apps/{slug}, and the list of  *)
(* the organization's installations.  Apps become readable, are installed  *)
(* and removed while the check runs, and any read may go wrong.            *)
(***************************************************************************)
EXTENDS Naturals, FiniteSets

CONSTANTS
    Declared,       \* the App-shaped fields of the config: [site, actor]
    Hash, At,       \* texts of actors that start with # and with @
    Spaced, Digits, \* prefixes that contain a space, or are all digits
    Fold,           \* casefold
    Allowed,        \* folded slugs of the [[app_actor]] entries
    MaxLive,        \* bound: changes of the live organization
    MaxFault        \* bound: reads and steps that go wrong

\* An actor is its text, whether it has a colon, and its text up to there.
ActorsAssumption ==
    /\ \A d \in Declared : d.site \in {"bypass", "check", "branch", "reviewer"}
    /\ \A d \in Declared : d.actor.colon \/ d.actor.head = d.actor.text
    /\ {MaxLive, MaxFault} \subseteq Nat

VARIABLES
    apps,           \* what holds of the Apps: now, ever and always in this run
    actors,         \* the run: its stage, the reads made, the fragment printed
    spent           \* how much of each bound is used

vars == <<apps, actors, spent>>

-----------------------------------------------------------------------------
\* Extraction.  The slugs, none or one, that a field of each site is looked up by.

BypassSlug(actor) == IF actor.head \in Hash \cup At THEN {} ELSE {actor.head} \ {""}

CheckSlug(actor) ==
    IF actor.colon THEN {actor.head} \ (Spaced \cup Digits \cup {"any", ""}) ELSE {}

BranchSlug(actor) == IF actor.colon THEN {actor.head} \ {"any", ""} ELSE {"github-actions"}

ReviewerSlug(actor) == IF actor.head \in At THEN {} ELSE {actor.text} \ {""}

SlugOf(d) ==
    CASE d.site = "bypass"   -> BypassSlug(d.actor)
      [] d.site = "check"    -> CheckSlug(d.actor)
      [] d.site = "branch"   -> BranchSlug(d.actor)
      [] d.site = "reviewer" -> ReviewerSlug(d.actor)

\* extract_app_actor_sites.
Sites == UNION {{[slug |-> s, site |-> d.site] : s \in SlugOf(d)} : d \in Declared}

Slug == {s.slug : s \in Sites}

FailsApply(site) == site # "reviewer"

ReadNeedsInstallation(site) == site \in {"bypass", "check"}

\* Slugs one of whose sites needs the App to be installed.
Needing == {s.slug : s \in {t \in Sites : ReadNeedsInstallation(t.site)}}

-----------------------------------------------------------------------------

Fact == ({"readable"} \X {Fold[s] : s \in Slug}) \cup ({"installed"} \X {Fold[s] : s \in Needing})

Readable(s) == <<"readable", Fold[s]>>

Installed(s) == <<"installed", Fold[s]>>

\* The list before the read, and what the read made of it.
NoList == [state |-> "unread", slugs |-> {}]

Idle == [stage |-> "idle", list |-> NoList, answer |-> [s \in Slug |-> "unasked"],
         kind |-> "none", rows |-> {}]

Section == {"failing", "dropped", "not installed", "suppressed", "undetermined",
            "installations unread", "clean"}

TypeOK ==
    /\ apps \in [{"now", "ever", "always"} -> SUBSET Fact]
    /\ apps.always \subseteq apps.now /\ apps.now \subseteq apps.ever
    /\ actors.stage \in {"idle", "reading", "over"}
    /\ actors.list \in [state : {"unread", "whole", "partial", "refused"},
                        slugs : SUBSET {Fold[s] : s \in Slug}]
    /\ actors.answer \in [Slug -> {"unasked", "resolved", "unresolvable", "undetermined"}]
    /\ actors.kind \in {"none", "degraded", "report"}
    /\ actors.rows \subseteq Section \X (Slug \cup {"*"}) \X {"bypass", "check", "branch", "reviewer", "*"}

Init ==
    /\ apps \in {[now |-> f, ever |-> f, always |-> f] : f \in SUBSET Fact}
    /\ actors = Idle
    /\ spent = [b \in {"live", "fault"} |-> 0]

Spend(budget, max) ==
    /\ spent[budget] < max
    /\ spent' = [spent EXCEPT ![budget] = @ + 1]

\* render_degraded_markdown.
Degrade == actors' = [Idle EXCEPT !.stage = "over", !.kind = "degraded"]

\* The precondition of the mode holds, or the fragment says why it does not: no
\* token, or no evaluated config.
Begin ==
    /\ actors.stage = "idle"
    /\ apps' = [apps EXCEPT !.ever = apps.now, !.always = apps.now]
    /\ \/ actors' = [Idle EXCEPT !.stage = "reading"] /\ UNCHANGED spent
       \/ Spend("fault", MaxFault) /\ Degrade

\* Mutant of ReadInstallations: total_count is not compared.
ReadInstallationsLenient ==
    /\ actors.stage = "reading"
    /\ Needing # {}
    /\ actors.list = NoList
    /\ LET listed == {f[2] : f \in {g \in apps.now : g[1] = "installed"}} IN
       \/ actors' = [actors EXCEPT !.list = [state |-> "whole", slugs |-> listed]] /\ UNCHANGED spent
       \/ /\ Spend("fault", MaxFault)
          /\ \E part \in SUBSET listed :
                actors' = [actors EXCEPT !.list = [state |-> "whole", slugs |-> part]]
    /\ UNCHANGED apps

\* read_installations, before any slug: whole; or fewer than total_count; or
\* refused, malformed, or a first page of several.
ReadInstallations ==
    /\ actors.stage = "reading"
    /\ Needing # {}
    /\ actors.list = NoList
    /\ LET listed == {f[2] : f \in {g \in apps.now : g[1] = "installed"}} IN
       \/ actors' = [actors EXCEPT !.list = [state |-> "whole", slugs |-> listed]] /\ UNCHANGED spent
       \/ /\ Spend("fault", MaxFault)
          /\ \/ \E part \in SUBSET listed \ {listed} :
                   actors' = [actors EXCEPT !.list = [state |-> "partial", slugs |-> part]]
             \/ actors' = [actors EXCEPT !.list = [state |-> "refused", slugs |-> {}]]
    /\ UNCHANGED apps

\* Mutant of Classify: the headers of a 403 are not looked at.
ClassifyByStatus(reply) ==
    CASE reply.truncated -> "undetermined"
      [] reply.status = 200 /\ ~ reply.truncated -> "resolved"
      [] reply.status \in {403, 404} -> "unresolvable"
      [] OTHER -> "undetermined"

\* _resolve: a refusal is a verdict on the slug only if it is not the limiter's.
Classify(reply) ==
    CASE reply.truncated \/ reply.limited -> "undetermined"
      [] reply.status = 200 /\ ~ reply.truncated -> "resolved"
      [] reply.status \in {403, 404} /\ ~ reply.limited -> "unresolvable"
      [] OTHER -> "undetermined"

Reply(status, limited, truncated) ==
    [status |-> status, limited |-> limited, truncated |-> truncated]

\* What GitHub says of a slug, and what it says when something else is wrong:
\* a limit, the credential, an error, no answer, a page of a collection.
Answers(s) == IF Readable(s) \in apps.now THEN {Reply(200, FALSE, FALSE)}
              ELSE {Reply(403, FALSE, FALSE), Reply(404, FALSE, FALSE)}

BadAnswers == {Reply(403, TRUE, FALSE), Reply(429, TRUE, FALSE), Reply(401, FALSE, FALSE),
               Reply(502, FALSE, FALSE), Reply(0, FALSE, FALSE), Reply(200, FALSE, TRUE)}

Unasked == {s \in Slug : actors.answer[s] = "unasked"}

\* One request per unique slug, in the order of their names: which order that is
\* plays no part, so it is any fixed one.
Turn == CHOOSE s \in Unasked : TRUE

Resolve ==
    /\ actors.stage = "reading"
    /\ Needing # {} => actors.list # NoList
    /\ Unasked # {}
    /\ \E reply \in Answers(Turn) \cup BadAnswers :
          /\ actors' = [actors EXCEPT !.answer[Turn] = Classify(reply)]
          /\ \/ reply \in Answers(Turn) /\ UNCHANGED spent
             \/ reply \in BadAnswers /\ Spend("fault", MaxFault)
    /\ UNCHANGED apps

\* An exception that is no ApiError: the mode catches it and degrades.
Break ==
    /\ actors.stage = "reading"
    /\ Spend("fault", MaxFault)
    /\ Degrade
    /\ UNCHANGED apps

Unresolvable(s) == actors.answer[s] = "unresolvable"

\* The installed field of an outcome is False: checked, and not in a whole list.
Missing(s) ==
    /\ s \in Needing
    /\ actors.list.state = "whole"
    /\ Fold[s] \notin actors.list.slugs

Accepted(s) == Fold[s] \in Allowed

\* Mutant of Rows: an unread list of installations has no section.
RowsSilent ==
    LET of(section, sites) == {<<section, t.slug, t.site>> : t \in sites}
        open == {t \in Sites : ~ Accepted(t.slug)}
    IN  of("failing", {t \in open : Unresolvable(t.slug) /\ FailsApply(t.site)})
        \cup of("dropped", {t \in open : Unresolvable(t.slug) /\ ~ FailsApply(t.site)})
        \cup of("not installed", {t \in open : Missing(t.slug) /\ ReadNeedsInstallation(t.site)})
        \cup of("suppressed", {t \in Sites \ open : Unresolvable(t.slug) \/ Missing(t.slug)})
        \cup {<<"undetermined", s, "*">> : s \in {t \in Slug : actors.answer[t] = "undetermined"}}

\* The tables of render_markdown.  A slug can be in several: the two checks are
\* independent, and a site is in the table of the way it fails.
Rows ==
    LET of(section, sites) == {<<section, t.slug, t.site>> : t \in sites}
        open == {t \in Sites : ~ Accepted(t.slug)}
    IN  of("failing", {t \in open : Unresolvable(t.slug) /\ FailsApply(t.site)})
        \cup of("dropped", {t \in open : Unresolvable(t.slug) /\ ~ FailsApply(t.site)})
        \cup of("not installed", {t \in open : Missing(t.slug) /\ ReadNeedsInstallation(t.site)})
        \cup of("suppressed", {t \in Sites \ open : Unresolvable(t.slug) \/ Missing(t.slug)})
        \cup {<<"undetermined", s, "*">> : s \in {t \in Slug : actors.answer[t] = "undetermined"}}
        \cup {<<"installations unread", "*", "*">> : l \in {actors.list.state} \cap {"partial", "refused"}}

\* With no table to show, the fragment says that all is well.
Report ==
    /\ actors.stage = "reading"
    /\ Needing # {} => actors.list # NoList
    /\ Unasked = {}
    /\ actors' = [actors EXCEPT !.stage = "over", !.kind = "report",
                                !.rows = IF Rows = {} THEN {<<"clean", "*", "*">>} ELSE Rows]
    /\ UNCHANGED <<apps, spent>>

\* People and other programs, while the check runs; what was the case before it
\* is in the initial states.
LiveChange ==
    /\ actors.stage = "reading"
    /\ Spend("live", MaxLive)
    /\ \E f \in Fact :
          LET now == (apps.now \ {f}) \cup ({f} \ apps.now)
          IN  apps' = [now |-> now, ever |-> apps.ever \cup now, always |-> apps.always \cap now]
    /\ UNCHANGED actors

Next ==
    \/ Begin \/ ReadInstallations \/ Resolve \/ Break \/ Report \/ LiveChange

Spec == Init /\ [][Next]_vars

-----------------------------------------------------------------------------
\* Properties.

Named(section) == {r[2] : r \in {q \in actors.rows : q[1] = section}}

\* A finding is never false: what it says was the case while the check ran, and not
\* a limit, a bad credential or a partial list.
NoFalseActor ==
    \A s \in Slug :
        /\ s \in Named("failing") \cup Named("dropped") => Readable(s) \notin apps.always
        /\ s \in Named("not installed") => Installed(s) \notin apps.always
        /\ s \in Named("suppressed") => ~ ({Readable(s), Installed(s)} \subseteq apps.always)

\* Nothing is passed over: a slug that apply could not write all the while, at any of
\* its sites, is in a table, or in the section of what could not be checked; likewise
\* one that was never installed.  A fragment that says all is well says so of both.
NoSilentActor ==
    actors.kind = "report" =>
        \A t \in Sites :
            /\ Readable(t.slug) \notin apps.ever =>
                  \/ {"undetermined", "suppressed"} \cap {r[1] : r \in {q \in actors.rows : q[2] = t.slug}} # {}
                  \/ <<IF FailsApply(t.site) THEN "failing" ELSE "dropped", t.slug, t.site>> \in actors.rows
            /\ ReadNeedsInstallation(t.site) /\ Installed(t.slug) \notin apps.ever =>
                  \/ <<"installations unread", "*", "*">> \in actors.rows
                  \/ t.slug \in Named("suppressed")
                  \/ <<"not installed", t.slug, t.site>> \in actors.rows
=============================================================================
