# A formal model of org-config

org-config keeps a GitHub organization equal to a committed otterdog config.
Merges to trunk are applied behind a human approval; a daily scan compares the
live organization with trunk, and keeps one GitHub issue open per divergence.
A pull request gets a plan, and two checks of what the plan cannot show. These
TLA+ modules model all that, as it is in `src/` (the drift layer's Python) and
`.github/workflows/` (where the concurrency is). TLC
checks them on small instances; TLAPS proves the main invariants for all sizes.

## Inventory

| Component | State | Operations | Correct when |
|---|---|---|---|
| Drift reconciler (`reconcile.py`, `models.py`) | none: a function of records and open issues | `reconcile`, `extract_fingerprint` | one issue per divergence; each population touches its own issues |
| CLI (`cli.py`) | what a run has read: plan records, one listing, two live legs | `run`, `reconcile_populations`, report modes | a leg that could not be read leaves its issues alone |
| GitHub client (`github_client.py`) | the page walk; the issues on GitHub | `_paginate`, `get_json`, `execute`, create/update/comment/close | a list is complete or refused; a run cut anywhere can be resumed by the next |
| Control assertions (`controls.py`) | endpoint cache, three buckets of verdicts | `load_controls`, `evaluate_controls`, secret families | one verdict per row; unread is neither clean nor drift |
| Secret reader lists (`secret_repositories.py`) | none | `comparable_secrets`, `diff_secret_repositories`, plan-time report | a list not read is not reported as equal |
| Allow-list (`allowlist.py`) | committed file | flags records as expected, exempts repositories from the sweep, accepts App slugs | an expected record raises no alarm; nothing is suppressed silently |
| Plan parser (`parser.py`) | scan position | `parse_plan` | every resource of the plan yields its record |
| Inventory sweep (`inventory.py`) | constructor, depth, list and fields of the extraction under way | declared vs. live repositories, declared secrets | no false absent or undeclared record |
| App actors (`app_actors.py`) | the list of installations, outcomes per slug | `extract_app_actor_sites`, `read_installations`, `check_app_slugs`, report | undetermined is told from unresolvable, for every site of a slug |
| Drift workflow (`drift.yml`) | a job in group `otterdog-mutate` | plan, gate on its exit code, reconcile | serialized with mutations |
| Apply engine (`apply-engine.yml`, `apply.yml`) | runs, one running and one pending; the live organization | approval, supersession guard, apply (which deletes nothing), closing the tracker loop | never goes back to an older config; nothing is lost unreported; "Applied" only once all that is declared is live |
| Apply reminder (`apply-reminder.yml`) | tracker thread and label; a group of its own | comment, label | the tracker tells what waits |
| Testbed harness (`testbed-e2e.yml`) | the description of a sacrificial repository | induce, three drift legs, revert, cleanup | leaves no trace, alarms nobody else |
| Plan workflow (`plan.yml`) | one job per push that passes its path filter, one comment per pull request | plan, engine checkout, two checks, report, comment, verdict | green exactly if the plan exited with 0; the comment is one, of the newest commit that was planned, and says what was not checked |
| Release train, devkit upgrade, CI, config and template | branches, tags, data | | not modelled, below |

How they interact. The drift workflow, the apply engine and the harness share
one concurrency group of GitHub Actions: one run holds it, one more is kept
pending, and a newer arrival cancels the pending one, whatever kind it is. The
reminder has a group of its own. The drift layer is started by the workflow
after a plan; it lists the issues once, reads the live organization through two
more legs, computes actions as a pure function, and executes them as separate
HTTP calls. Between any two steps the organization, trunk, the issues and the
committed governance files may change, and any call may fail; nothing is
retried, the next scheduled run is the recovery.

The plan workflow stands apart: per pull request it has a group that cancels
what runs. It runs otterdog, then the drift layer in two report modes, each
reading the live organization on its own, and folds what they print into one
comment. The parser, the allow-list, the sweep and the reconciler also run
offline together, as `--dry-run`.

Hard behaviours: stale snapshots (issues, tip of trunk, checkout), partial
failure between two calls of one action, degradation per leg and per row,
cancelled pending runs, cancelled runs that go on, a reminder racing an apply,
pagination over a changing collection, refusals that mean something else, text
that is cut off, and repair that must come about through later runs. `PROJECT.json`
lists them as hazards, at the lines where they bite.

## Modules

| Module | Models |
|---|---|
| `Reconcile` | `reconcile()`, the partition by label, and the order of actions, as pure operators |
| `DriftLifecycle` | a drift run from checkout to its last call, with people, live changes and failures around it |
| `DriftIssueContract` | the abstract promise of ADR-0002 on issues |
| `DriftLifecycleRefinement` | the mapping under which the lifecycle implements that contract |
| `MCDriftLifecycle` | instances of it for TLC |
| `DriftLifecycleProofs` | theorems about it |
| `MutationPipeline`, `MutationPipelineProofs` | the shared group: merges, applies, scans, harness; theorems about it |
| `ApplyTracker`, `ApplyTrackerProofs` | reminders and applies around the tracker issue of an organization where apply is dispatched; theorems about it |
| `Pagination`, `PaginationProofs` | the page walk over a collection that changes; theorems about it |
| `Controls`, `ControlsProofs` | the control leg: parsing, memoized reads, verdicts, secret families; it uses `Reconcile`; theorems about it |
| `MCApplyTracker`, `MCControls` | instances of `ApplyTracker` and `Controls` for TLC |
| `AppActors`, `AppActorsProofs` | a run of `--app-actors-report` against Apps that change; theorems about it |
| `ReaderLists` | a run of `--org-secrets-report` against secrets and grants that change |
| `PlanWorkflow`, `PlanWorkflowProofs` | the runs of `plan.yml` on a pull request; it composes `AppActors` and `ReaderLists` as steps of the job; theorems about it, about `ReaderLists` and about the composition |
| `PlanParser` | `parse_plan` on the lines of a plan, and what the blocks of a text are, without scanning it |
| `Inventory` | what the patterns find on a line of the config, the declared repositories and the sweep, as pure operators; and what a text has, without reading it line by line |
| `SecretScan` | `extract_declared_org_secrets`, a step per line; and what a constructor declares, without scanning it |
| `DryRun`, `DryRunProofs` | `--dry-run`: it composes `PlanParser`, `Inventory` and `Reconcile`; theorems about it, about `PlanParser` and about `SecretScan` |
| `MCPlanTime` | instances of `PlanWorkflow` and of previews, composed, for TLC |
| `MCPreview`, `MCConfig` | instances of `DryRun` and `SecretScan` for TLC; texts of a config |

### State and actions against the code

`DriftLifecycle`. `issue` is the repository's issues by number, with marker
(`fp`), labels and whether the resolution comment was posted (`told`).
`diverged` is the difference between live and config; `watched` is what the
governance files at trunk ask to report (no allow-list entry; an asserted
row). A run has a program counter and its local variables: `checkout`
(`watched` at its commit), `found` (verdicts of the legs), `ran`, `listed`,
`todo`, `half` (an action after its first call). `RunPlan` is the plan and the
gate on its exit code, `ListIssues` the one listing, `Sweep` and `Assert` the
live legs with their degradations (`Assert` ends in `reconcile_populations`,
which is pure), and the actions of `Execute` are single HTTP calls in the order
of `execute()`. `Abort` is an error no leg absorbs, a timeout, or a lost runner.
The harness is a run without the token of the live legs (`PlanOnly`). History
variables `settled`, `drifting` and `disturbed` serve the properties only.

`MutationPipeline`. Commits are numbered; `config[n]` is the last commit up to
`n` that touched the paths of `apply-engine.yml`, so two commits with one config
are told apart by the guard only. `running` and `pending` are the group.
`MergeOther` is a merge outside the paths, which queues no apply and yet moves
the tip the guard compares with. `torn` stands for a live organization that is a
config only partly, or with more than it declares: an apply that was cut off, an
edit by hand, or, since `apply.yml` omits `--delete-resources` and otterdog returns 0
all the same, what an earlier config declared and this one does not (`Mutate` leaves
open whether there was any). `churned` stands for the state the harness induced, an
attribute that is declared, which an apply does set right.

`ApplyTracker`. Two groups; `reminded` and `confirmed` are the lines of the
thread, `label` the `pending-apply` label, `unsaid` the commits whose reminder run
failed. The steps of the two jobs are actions of their own, because jobs of different
groups interleave. A config gives each resource it declares a setting (`config`, per
commit; `Absent` where it declares none), and `live` is what the organization has. An
apply brings what is declared into place, or only a part of it when it fails, and
deletes nothing: a resource that left the config stays in `live`. `InPlace(n)` is what
an "Applied" line can mean then: all that the config of `n` declares is live so.
Edits by hand are `MutationPipeline`'s.

`Pagination`. An element is its rank of creation, a URL a page number or a
cursor. `Fetch` is a request with its reply and what `_paginate` does with it:
yield, follow `next` verbatim, refuse a `next` without a target or one that was
fetched already. `get_json` is the same with a single request.

`Controls`. `pos` walks through the rows kept by `_parse_control`, then the
families. A row's field is reduced to what the row can tell of it: expected,
tolerated, other, absent, or no set of primitives. That is the abstraction of
`select_path` and of the set comparison. Names of secrets are not ordered. `Identified` says that no
two rows of one scope, and no row at org scope and a family, have one key:
`load_controls` does not compare its rows, so it is the committed table that
sees to it.

`AppActors`. A field of the config is its site and its text, of which only what
the four rules look at is kept (the text up to a colon, a leading `#` or `@`, a
space, digits). `ReadInstallations` is `read_installations`, `Resolve` one `GET
/apps/{slug}` with its classification, `Rows` the tables of `render_markdown`,
`Degrade` the fragment of a run that could not check. `apps` keeps, besides what
is the case now, what ever was and what always was in this run: the measure of
a report whose reads are at different times. `ReaderLists` is built alike: one
listing, then a request per list. That request is one step here, its pages being
`Pagination`'s; a list that is asked for when the secret has none any more is
taken to be refused.

`PlanWorkflow`. One run per commit that got one, its `step` the next step of the job.
The trigger filters by the paths of the pull request's diff, here and in the caller of
the template: `Push` is a commit that passes, `PushOther` one with which no such path
is left, which starts no run and cancels none. `due` is the newest commit that passed. `failed`
are the steps that failed; those in `Soft` bear `continue-on-error`. `tree` says
whether there is an engine to run, `actors` and `readers` what became of the two
fragments, `target` the comment that was found. `Cut`, `Terminate` and `Over`
are GitHub's: a cancelled job goes on with the steps whose condition is
`always()`, and is terminated after some minutes. The header of `plan.yml`
relies on the same.

`PlanParser`. A line is its kind, its indentation and what it says. `pos` and
`block` are `i` and `start` of the code; the inner loop of `_consume_block` is
`Consume`, `Close` and `CutOff`. `Inventory`. A line is its tokens, those the
patterns look for. `SecretScan`. The variables are the local variables of
`extract_declared_org_secrets` (`extracted` is `secrets`), `line` the position of
its loop; `Pass` is the `continue` of a line outside of a constructor, `Enter` the
line of a constructor, `ContinueList`, `StartList` and `ReadFields` the branches for
a line of the body, all three of which end in `EndOfLine`. `Dummy` stands for the
values that `_is_dummy` accepts. `DryRun`. `existing` is the file of repositories, `printed` what
is shown. `DryRunAssumption` has the resources a plan can name apart from the
sweep's, which `inventory.py` prefixes. `parse_plan`'s summary is not compared with the records, nor is it in
the code.

## What the runs check

| Run | Question | Bounds |
|---|---|---|
| `lifecycle` | deduplication, evidence for every action, degradation, the outcome of a completed run, comment before close; the refinement of the contract; repair under the schedule | 3 divergences (one per leg), 2 workflows, 4 issues, 3 live changes, 1 failure, 1 closed by hand, 1 governance edit |
| `lifecycle_tamper` | the same alarms and repair when people also reopen issues and edit markers away | 2 divergences, 5 issues, 2 moves by people |
| `lifecycle_comment` | is the resolution comment true? (it is not) | 1 live change, 1 edit |
| `pipeline` | no rollback, no phantom drift, nothing lost goes unreported, alarms stop | 3 merges, 1 manual run, 1 edit by hand, 1 failure |
| `pipeline_superseded` | does a newer apply carry what a skipped one left? (not always) | 2 merges |
| `tracker_safety` | "Applied" only once all that is declared is live, and true of the newest config from then on; the newest config has its reminder, or a run that failed | 2 configs of 2 resources, one of which is dropped and declared again; 3 merges, 3 dispatches, re-runs or scans, 1 failure |
| `tracker_dropped` | does each merge get its line? (no) | 3 merges |
| `tracker_label` | does the label answer what waits? (not always) | 2 merges, 1 dispatch |
| `pagination_issues` | is a list by cursor complete or refused, and does the walk end? | 6 elements, pages of 2, every fault |
| `pagination_repos` | the same by page number (it is not complete) | 4 elements, pages of 2 |
| `controls` | one verdict per row, one answer per endpoint, issues follow verdicts, families are whole | 5 rows, 3 families, 2 secrets, 2 live changes, 1 failing read |
| `plan_time` | the verdict of a plan's job; one comment, never older, nothing omitted in silence, the newest planned commit told of; the two reports are true and whole; every block of a plan is a record; the config is read as declared; a preview shows all | 3 pushes, 1 fault, 1 live change in a check, 10 App fields, 2 secrets; plans of up to 4 lines of 8 kinds, 2 resources, 3 repositories; configs of up to 4 lines of 7 kinds, and 1 secret in every layout |

Why the bounds are enough. One failure is what separates a run from the next,
and the code keeps nothing across runs but the issues, so several failures are
several runs each with one. Two live changes make a divergence come and go
during a run, a third makes it come back; two workflows are what one group must
separate. Three merges are the least that fill the group, the pending place and
cancel it. Two configs are the least of which one changes a setting and drops a
resource, and two resources the least an apply can bring into place by half. Three pages are the least with a middle one. In every passing run
each property is shown to be violated by a plausible bug (the operators marked
"Mutant of").

`plan_time` is a sum of five parts that share nothing, each beginning in initial states of its own:
the history of a pull request, with the calling organization's or with the
engine's own tree; the App check, from every state of the Apps; the reader check,
from every state of secrets and grants; a preview, and a scan of the config (below). The two checks start in a job whose
earlier steps are over, and go on to its end. Three pushes let one run be
cancelled, one be superseded while it waits, and one be told of; each may pass the
path filter or not. One fault is one
lost step, answer or comment: the job retries nothing.

The preview takes any short text, and plans with nested blocks and every pair of
declared and existing repositories. Four lines are an opener, a nested closer or
header in it, its closer, and one more. The scan takes any short text of a config,
formatted or not, and a config in every layout of a secret's fields, with comments and
a repository's own secret around them. Four lines are a constructor, two lines of a
list or of fields, and what closes it. `LayoutAssumption`, which TLC evaluates, shows
that the layouts are `Formatted` and that the measure of `DeclaredAsCommitted` gives
for each exactly the secret it was written from: the property is neither vacuous nor
true of several readings.

`MaxIssue` bounds `CreateIssue`, which is disabled at the bound; the other
bounds are large enough that no run needs a further number there.

### Fairness

`DriftLifecycle!Fairness`: a job that runs goes on (a runner executes its
steps, or the timeout ends the job), and the scheduled workflow is started
whenever the group is free again and again: strong fairness, because the
harness may take the group in between, and justified by the daily `schedule` of
`drift.yml` and the pending place of the group, which keeps a waiting scan.
Nothing is assumed of the harness's own start.
`MutationPipeline!Fairness`: the run that holds the group takes its next step,
where an approval that does not come ends in the deployment being rejected or
expiring; the daily schedule never stops. `Pagination`: a request is answered
or fails. The client sets no timeout on `urlopen`; what ends a request that is
never answered is the `timeout-minutes` of the job. `PlanWorkflow!Fairness`: the
group starts its pending run when it is free, and a runner takes the next step
of its job, for the same reason. One weak fairness condition is enough, because
at most one commit has something to do. No fairness is
assumed of people, faults, merges or re-runs.

### What the violations show

- `lifecycle_comment`: the comment on a closed issue claims that the divergence
  is gone, or that the live API matches the declared value, also when the issue
  closes because the resource was allow-listed or its row was removed. The same
  comment closes the issue of a row that reads its tolerated value.
- `pipeline_superseded`: the guard compares commits, and the trigger filters by
  paths. A merge that touches no config supersedes a waiting apply and queues
  none; a scan that arrives cancels a pending one. The `pipeline` run shows what
  is left: the daily scan reports the difference until somebody dispatches.
- `tracker_dropped`: a third merge cancels the pending reminder of the second.
  `NewestReminded` holds: what is cancelled is never the newest.
- `tracker_label`: an apply clears the label that a newer merge has just set.
  `ThreadTells` holds: the newer config has no "Applied" line, which is how the
  thread shows that it waits.
- `pagination_repos`: with numbered pages a deletion between two requests shifts
  a repository past the cut; the sweep then reports it as absent, until the
  next scan. By cursor (the issues) the walk is complete.

Observations without a run.

- "Applied. The committed config is live" (`apply.yml:524`) says no more than that all
  the config declares is live. Deletions stay a manual operation (`apply.yml:92-94`):
  a merge that takes a resource out of the config is confirmed, and its label cleared,
  with the resource in place, until somebody deletes it; the daily scan reports it.
- A push that takes the last filtered path out of a pull request starts no plan
  (`plan.yml:85`), and the comment goes on showing the plan of the commit before.
  `EventuallyTold` is about the newest commit that got a run.
- A block of a plan without its closer runs to the end of the text, and the resources
  it swallows have no record (`parser.py:102`). `RecordsAreBlocks` takes a block as the
  parser does: it shows that nothing else is lost.
- A re-run of an old scan checks out its old commit: with `Reruns = {"drift"}`
  `NoPhantomDrift` does not hold. Likewise a re-run of an old commit's plan
  overwrites the comment of a newer one; `CommentNeverOlder` is about pushes.
- The optional stray leg of the harness runs the drift layer without
  `DRIFT_REPOS_TOKEN`, so the sweep it waits for is skipped, and the leg always
  ends in its SKIP branch.
- "The rule has no exceptions" (`plan.yml:70`) has one: an auxiliary read that
  hangs lasts until the job's `timeout-minutes`, which cancels the job although
  the plan exited with 0. `VerdictIsThePlans` is about jobs that are not cut short.
- An upsert that fails leaves the comment of an older commit in place, without a
  word in it; the failed step is what shows (`EventuallyTold`). A run that is
  cancelled while otterdog runs comments that it exited with an empty code.
- `extract_declared_org_secrets` is faithful to the text `jsonnetfmt` leaves. A
  constructor with fields on one line keeps the defaults, a second field on the
  line of a list is not read, and `//` or a brace within a string is taken for a
  comment or a bracket. `DeclaredAsCommitted` is about texts with one field per line
  (`Formatted`): what the docstring relies on, `jsonnetfmt --test` being a gate
  (`inventory.py:121`).
- `_warn_app_actors` says that a suppressed slug is "unresolvable as expected",
  also when it resolves and only is not installed; the fragment's rows are right.
- `load_unmanaged` says that an unmanaged repository is exempt from settings
  reconciliation too; the code exempts it from the sweep only.
- A reader report may say that all compared lists are as declared beside a line
  that names the secrets it did not compare.

## What is proved

The theorems hold for all values of the constants that the assumptions named
below admit. A hypothesis on the environment is part of the theorem, and named
here with it; each is met by the run that checks the property.

`DriftLifecycleProofs`, for all sets of fingerprints and runs, all bounds, from
`FingerprintAssumption` and `LifecycleAssumption`:

- `TypeCorrect`: type correctness.
- `Invariant`: the inductive invariant `IInv`. `NoPhantomAction` is not inductive:
  what a run does rests on what it read steps before. `IInv` adds that at most
  one run is under way (`Exclusion`) and an idle one keeps nothing (`Resting`),
  that each verdict was true at a moment of the run (`Seen`), that the verdicts
  read so far are those of the legs that ran (`Known`), that markers and labels
  agree with their leg (`Labelled`), that the listing has issues of the
  repository (`Listed`), and that the actions left are among those decided from
  what the run read (`Planned`).
- `NoPhantomActionCorrect`, `DegradedUntouchedCorrect`: from `IInv`.
- `OneOpenIssueCorrect`: while nobody reopens an issue; people may close issues and
  edit their markers away, before a run lists them or while it works on them. It
  needs `UInv` besides: until the reconciliation every open marked issue is in the
  listing (`Covered`), which holds an issue once and a marker once (`Distinct`); a
  listed issue bears the marker it was listed with, or has lost it (`Faithful`);
  an action on an issue is for the marker it was listed with, which no other open
  issue bears (`Sole`); and what is about to be opened was not listed and is not
  open (`Fresh`). `RefreshMeaning` is the step that needs them all: an update may
  restore a marker that was edited away, after the listing and before the write.
  Somebody who reopens a closed issue next to its successor makes two.
- `ClosedWithReasonCorrect`: while nobody reopens an issue. `Explained` is what
  makes it inductive: the issue whose closing is begun bears the comment, through
  every step between the two calls. Somebody who reopens it in between makes the
  run close it under the old comment.
- `IssueInvariant`, while nobody reopens an issue: `IInv`, `UInv` and `OInv`.
  `OInv` is what a run still owes: wherever the issues of a leg that was read are
  not yet as the leg found the world, the plan holds the action that makes them so
  (`Owed`). That needs that what was listed is still open and marked, unless people
  moved it (`Standing`).
- `RunReportsWhatItReadCorrect`: a run whose plan is empty owes nothing.
- `ImplementsContractCorrect`: the refinement, while people only close issues (the
  contract has no move that gives an issue back to its divergence, as an update
  that restores a marker does). A listed issue then keeps its marker (`Marked`).
  The initial states map to those of `DriftIssueContract`; each HTTP call, abort,
  live change and move of people maps to a step of the contract or leaves its
  variables alone. Creating an issue is the contract's opening because of `Fresh`
  and `NoPhantomAction`, the second call of a closing is its closing because of
  `Sole`.

`MutationPipelineProofs`, for all bounds, from `PipelineAssumption`:

- `PipelineInvariant`: at most one run holds the group; commits of runs exist;
  a run past the guard has a config that is at least as new as the live one.
  `PipelineTypeCorrect` is part of it.
- `NeverRollsBackCorrect`: the action property, from that invariant. It covers
  the merge that lands between the guard and the end of the apply.
- `NoPhantomDriftCorrect`: while only applies are re-run. `Watched` adds that only
  a scan plans and reports (`Kinds`), that no scan compares with a commit behind
  live state, nor one that waits with an older one than the run before it
  (`Current`), and that a divergence about to be reported is still there
  (`Seen`). A re-run of an old scan breaks `Current`, which is the hazard at
  `drift.yml:177`: the hypothesis is needed.

`ApplyTrackerProofs`, for all bounds, from the module's assumption:

- `TrackerInvariant`. The properties are about lines that were posted steps before, or
  about one step; the invariant says what holds while jobs of the two groups
  interleave. All is of commits of the past (`Past`), and what waits is at its
  beginning (`Placed`). What the newest config declares is live once its line is
  posted, what a run about to confirm was given is live, and nothing newer than what is
  being applied is confirmed (`Upheld`): an apply that follows is of the newest config,
  because the guard lets only the tip pass, and takes nothing of it away, however far it
  gets. The reminder of the newest config is in the
  thread, or its run failed, or it is the last run to have arrived (`Coming`): a
  cancelled reminder is never the newest.
- `TrackerTypeCorrect`, `NewestRemindedCorrect`, `ThreadTellsCorrect`: from it, failures
  included. `ThreadTells` needs no quiet: it holds in every state.
- `ConfirmedIsLiveCorrect`: the action property, from `Upheld`. It says nothing of
  resources the config does not declare, which no apply deletes.

`ControlsProofs`, for any rows, families, secrets and bounds, from the module's
assumptions:

- `ControlsTypeCorrect`, `OneReadingCorrect`: for any table. The second needs that
  a row is left behind only with an answer (`Answered`) and that answers stay.
- `OneVerdictCorrect`, `FamilyReadWholeCorrect`, `IssuesFollowVerdictsCorrect`: for
  a table with `Identified`. What lies behind `pos` has exactly one verdict and
  what lies ahead none (`Verdicted`); as long as neither the listing nor a reader
  list has failed, the failures are those of the rows' endpoints (`Counted`); the
  open issues stay those the leg started with, one at most per resource (`Known`).
  Rows that are told apart have issues of their own (`RowsApart`); two rows of one
  key would get two verdicts.

`PaginationProofs`, for any page size, faults, hidden elements and number of
elements, from `PaginationAssumption`:

- `PaginationTypeCorrect`: for both ways of paging. That a page number stays in
  range needs that there is a next page only where elements are left.
- `CompleteOrRefusedCorrect`: where pages are cut by a cursor. `Covered` says that
  what existed all the while is got, down to where the walk stands; a page reaches
  from the cursor down to the next one without a gap (`CursorPage`), because an
  element nearer to the cursor has fewer before it (`PrecedingLess`). With
  numbered pages it is false (`pagination_repos`).

`DryRunProofs`, for every set of texts and configs, from `DryRunAssumption` and, for
the scan, `ScanAssumption`:

- `ParserInvariant`. `RecordsAreBlocks` is about a scan that is over, so it says
  nothing of the steps before. `ParserInv` adds where the scan is (`Position`):
  outside of a block, no opener before `pos` lacks its closer and `org` is in force
  at `pos`; within one, the same holds at `block`, and no closer follows it before
  `pos`. Each record is a block of the text (`Sound`), and each opener that was met
  outside of a block has its record or is the one under way (`Whole`).
- `RecordsAreBlocksCorrect`: at the end no block is under way, and the two agree.
  A preview scans as `parse_plan` does (`PreviewParses`).
- `PreviewIsWholeCorrect`. The records are the changes of the text, because one
  organization only is in force at a line (`InForceOnce`); with no issues each leg
  opens what it found (`LegOpens`); and the legs do not take each other's findings
  (`Namespaces`), so that nothing is shown twice (`ShownOnce`). The repositories of
  the sweep are measured by the constructors the whole text has outside of its
  comments, which is what reading it line by line finds (`DeclaredAre`).
- `ScanInvariant`. `DeclaredAsCommitted` is about a scan that is over, and about whole
  constructors; the invariant says where the scan is between two lines. All
  constructors before `line` are over, but for the one under way (`InText`); of that
  one, `name`, `depth` and `inList` are its name, the braces and the list that are
  open in the text so far, and the fields are what its lines so far say (`UnderWay`);
  `extracted` has the names of those that are over, and what the last of each name
  says (`Kept`). It rests on lemmas about one line: the patterns find on it the marks
  that no comment hides (`Found`, `AfterIs`), braces add up (`DepthAdds`), and the
  marks that are listed are those after an opener of this line or an earlier one, up
  to its end (`ListedOnLine`); and on one per branch of the loop that says what the
  line adds (`ListLine`, `ListOpensLine`, `FieldLine`, `ConstructorLine`).
- `DeclaredAsCommittedCorrect`: from it, for texts of every length. The hypothesis
  `Formatted` is part of the property: on a line with two fields the code reads one.

`PlanWorkflowProofs`, for any number of commits, all bounds and all declared
actors and secrets, from `WorkflowAssumption`:

- `WorkflowInvariant`. `VerdictIsThePlans` needs what a run has to its name at each
  step (`Honest`): no exit code before the plan, and where the code is 0 only soft
  steps have failed. `OneComment` needs that one run is active and those to come
  are untouched (`Serialized`), and that a run about to write has found the comment
  that is there, unless it was deleted since (`Aimed`): two runs between lookup and
  write could each post one. `Ordered` has the comment's commit no later than any
  active run's. `Told` is that a check that is over has printed something.
- `VerdictIsThePlansCorrect`, `OneCommentCorrect`, `CommentNeverOlderCorrect`: from
  that invariant. The last is an action property: only the active run writes, and
  what is there was written by it or before. `Serialized` and `Ordered` are about `due`,
  the newest commit that may have a run; commits that follow without one change
  nothing.
- `CommentTellsUncheckedCorrect`. The fragments are lost steps before the comment
  is written, so `Accounted` says it of every run: once a check is behind it, a run
  without the check's fragment has lost a shell. What failed is never forgotten.
- `WorkflowTypeCorrect`: types and bounds of the composition. The bounds are shared
  by the checks (`Within`), and each step spends at most one unit (`SpentInJob`).

`AppActorsProofs` (from `ActorsAssumption`), and `PlanWorkflowProofs` for
`ReaderLists` (from `ReadersAssumption`), for every config, allow-list, spelling,
secret and repository:

- `ActorsInvariant`, `ReadersInvariant`. The properties are about what is printed;
  a row rests on an answer that came steps before, while Apps and grants went on
  changing. `Heard` and `Listed` say that an answer told what held when it came:
  what was refused is not in `always`, what was found is in `ever`. `Printed`
  says that the tables are those of all that was read, so nothing gets lost.
- `NoFalseActorCorrect`, `NoSilentActorCorrect`, `NoFalseReaderCorrect`,
  `NoSilentReaderCorrect`: from those.
- `ActorReportIsTrueCorrect` and `ReaderReportIsTrueCorrect` (`PlanWorkflowProofs`):
  the same in the composition. Each step of the job is a step of the check, or
  leaves it alone, or forgets it (`ActorsInJob`, `ReadersInJob`), and the
  invariants of the checks survive all three: a run that is terminated in the midst
  of a check leaves nothing behind that the next could print. `SameActors` only
  says that two instances of one module are equal.

Only model-checked:

- Everything temporal under fairness (`EventuallyReported`, `EventuallyCleared`,
  `EventuallySilent`, `EventuallyTold`, `WalkEnds`). Liveness and `ENABLED` are
  outside what the installed provers can do.

## Not modelled

- Titles, bodies, comment wording and rendering: identity is the fingerprint.
- People editing the labels of issues, which moves an issue between populations.
- Tokens, toolchain, secrets at apply time; otterdog itself, which is what makes
  live equal to the tree it is given.
- The release train and the devkit upgrade: the devkit renders these workflows
  and overwrites local edits, so they are vendored code. CI keeps no state. The
  organization config and the template are data.
- `plan.yml` when it is dispatched, or called from the apply engine: no comment
  then. The byte budget of the comment, the JSON twin of the App report.
- `--controls-report`, which prints the verdicts of `Controls` and changes nothing.
- A repository named `org` with a row of the same key as one at org scope would
  share its fingerprint; no committed row does.

## Plan

Done: `Reconcile` and `DriftLifecycle` with its contract and proofs;
`MutationPipeline` with proofs; `ApplyTracker`, `Pagination`, `Controls`; then
what happens before a merge: `PlanParser`, `Inventory`, `SecretScan`, `DryRun`,
`AppActors`, `ReaderLists`, `PlanWorkflow`. Left to model: `Selection`, the path language of
assertion rows as recursive functions.

Proved: every safety invariant and action property that a passing run checks, and
the refinement of the contract.

Proof to add: a contract with a move that restores an issue, and its refinement when
people also edit markers away.
