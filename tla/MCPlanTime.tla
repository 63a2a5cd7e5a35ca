----------------------------- MODULE MCPlanTime -----------------------------
(* What is looked at before a merge: the plan workflow of a pull request, a    *)
(* preview (drift-layer --dry-run) of a plan, and the secrets of the config.   *)
(* They share nothing, so an initial state has something left to do in one of  *)
(* them only, and in the workflow either all of a short history of pushes or   *)
(* one of its two checks.                                                      *)
EXTENDS PlanWorkflow, MCPreview

-----------------------------------------------------------------------------
\* The declared actors: each way a site reads its field, two spellings of one
\* slug, one that the allow-list names.
MCField(site, txt, head, colon) ==
    [site |-> site, actor |-> [text |-> txt, head |-> head, colon |-> colon]]

MCDeclared ==
    {MCField("bypass", "bot:always", "bot", TRUE), MCField("bypass", "#maintain", "#maintain", FALSE),
     MCField("bypass", "peer", "peer", FALSE), MCField("check", "BOT:ci", "BOT", TRUE),
     MCField("check", "15368:ci", "15368", TRUE), MCField("check", "ci / a:b", "ci / a", TRUE),
     MCField("branch", "test", "test", FALSE), MCField("branch", "bot:ci", "bot", TRUE),
     MCField("reviewer", "@org/team", "@org/team", FALSE), MCField("reviewer", "bot", "bot", FALSE)}

MCFold ==
    [s \in {"bot", "BOT", "peer", "github-actions"} |-> IF s = "BOT" THEN "bot" ELSE s]

-----------------------------------------------------------------------------
MCSecrets == MCSecretsOf(MCOne)

-----------------------------------------------------------------------------
\* Initial states.

MCFacts(f) == [now |-> f, ever |-> f, always |-> f]

MCCut == [NewRun EXCEPT !.step = "over", !.cut = TRUE, !.result = "cancelled"]

\* The run of the last commit at a step, those before it cancelled.
MCAt(step) ==
    /\ downstream = FALSE
    /\ pushed = MaxPush /\ due = MaxPush /\ queued = 0 /\ thread = {}
    /\ runs = [c \in Commit |-> IF c < MaxPush THEN MCCut
                               ELSE [NewRun EXCEPT !.step = step, !.rc = "ok", !.tree = TRUE,
                                       !.actors = IF step = "readers" THEN "report" ELSE "absent"]]
    /\ actors = Actors!Idle
    /\ readers = Readers!Idle
    /\ spent = [b \in {"live", "fault"} |-> 0]

MCAllOfActors == apps = MCFacts(Actors!Fact)

MCAllOfReaders ==
    secrets = MCFacts({<<"live", "S">>, <<"selected", "S">>, <<"reads", "S", "r1">>, <<"live", "P">>})

MCWorkflow ==
    \/ MCAt("actors") /\ apps \in {MCFacts(f) : f \in SUBSET Actors!Fact} /\ MCAllOfReaders
    \/ /\ MCAt("readers")
       /\ secrets \in {MCFacts(f) : f \in {g \in SUBSET Readers!Fact : Readers!Possible(g)}}
       /\ MCAllOfActors
    \/ /\ \/ downstream = FALSE /\ pushed = 1 /\ due \in {0, 1}
          \/ downstream = TRUE /\ pushed = 2 /\ due = 2
       /\ queued = due /\ thread = {}
       /\ runs = [c \in Commit |-> IF c < due THEN MCCut ELSE NewRun]
       /\ actors = Actors!Idle /\ readers = Readers!Idle
       /\ MCAllOfActors /\ MCAllOfReaders
       /\ spent = [b \in {"live", "fault"} |-> IF b = "live" THEN MaxLive ELSE 0]

\* The plan of the last commit was told.
MCTold ==
    /\ downstream = FALSE
    /\ pushed = MaxPush /\ due = MaxPush /\ queued = 0
    /\ runs = [c \in Commit |-> IF c < MaxPush THEN MCCut
                               ELSE [NewRun EXCEPT !.step = "over", !.rc = "ok", !.result = "success"]]
    /\ thread = {[id |-> MaxPush, commit |-> MaxPush, rc |-> "ok", actors |-> "report", readers |-> "report"]}
    /\ MCAllOfActors /\ MCAllOfReaders
    /\ actors = Actors!Idle /\ readers = Readers!Idle
    /\ spent = [b \in {"live", "fault"} |-> 0]

MCInit ==
    \/ MCWorkflow /\ MCNoPreview
    \/ MCTold /\ (MCPreview \/ MCOnlyConfig(MCConfigs))

MCNext ==
    \/ Next /\ UNCHANGED <<previewVars, MCScanVars>>
    \/ MCReadNext /\ UNCHANGED vars

MCSpec == MCInit /\ [][MCNext]_<<vars, previewVars, MCScanVars>> /\ Fairness
=============================================================================
