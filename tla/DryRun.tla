------------------------------- MODULE DryRun -------------------------------
(***************************************************************************)
(* drift-layer --dry-run: the captured plan and an offline list of         *)
(* repositories, through the parser, the allow-list, the sweep and the     *)
(* reconciler, against an empty set of issues.  Nothing is read live.      *)
(***************************************************************************)
EXTENDS Naturals, FiniteSets, Sequences, Inventory

CONSTANTS
    Text,           \* outputs of otterdog plan
    Org, DefaultOrg, NoSummary,
    ResourceHeader, \* the resources a plan can name
    RepoName,       \* names of repositories
    Expected,       \* resources with an [[expected]] entry
    Unmanaged,      \* repositories with an [[unmanaged]] entry
    NoFile,         \* no --repos-file was given
    NotPrinted      \* the run has not come to its end

VARIABLES
    text, pos, block, org, summary, records,    \* PlanParser
    existing,       \* the repositories of --repos-file, or NoFile
    printed         \* the actions shown, once they are

Parser == INSTANCE PlanParser

previewVars == <<text, pos, block, org, summary, records, config, existing, printed>>

SweepResource == {"undeclared", "missing"} \X RepoName

\* Otterdog names no resource as the sweep does.
ASSUME DryRunAssumption ==
    /\ Parser!TextAssumption
    /\ \A t \in Text : \A i \in DOMAIN t : Parser!Opens(t[i]) => t[i].says \in ResourceHeader
    /\ ResourceHeader \cap SweepResource = {}
    /\ \A c \in Config : IsText(c) /\ Repositories(c) \subseteq RepoName

Fingerprint == Org \X (ResourceHeader \cup SweepResource)

NoMarker == <<"none">>

\* The namespace of a resource: the sweep's are prefixed.
LegOf == [f \in Fingerprint |-> IF f[2] \in SweepResource THEN "inventory" ELSE "plan"]

Drift == INSTANCE Reconcile

PreviewInit ==
    /\ Parser!Init
    /\ config \in Config
    /\ existing \in (SUBSET RepoName) \cup {NoFile}
    /\ printed = NotPrinted

Parse ==
    /\ Parser!Next
    /\ UNCHANGED <<config, existing, printed>>

\* apply_allowlist: entries match a resource exactly, in whatever organization.
PlanRecords == {<<r.org, r.says>> : r \in records}

ExpectedRecords == {f \in PlanRecords : f[2] \in Expected}

SweepRecords ==
    {DefaultOrg} \X Sweep(DeclaredRepos(config), existing, Unmanaged)

\* Mutant of Show: with a file of repositories only the sweep is shown.
ShowSweepOnly ==
    /\ Parser!Parsed
    /\ printed = NotPrinted
    /\ printed' =
          IF existing = NoFile
          THEN Drift!ReconcilePopulations({"plan"}, PlanRecords, ExpectedRecords, {}, {})
          ELSE Drift!ReconcilePopulations({"inventory"}, SweepRecords, {}, {}, {})
    /\ UNCHANGED <<text, pos, block, org, summary, records, config, existing>>

\* The control leg never runs offline, the sweep only with a file of repositories.
Show ==
    /\ Parser!Parsed
    /\ printed = NotPrinted
    /\ printed' =
          IF existing = NoFile
          THEN Drift!ReconcilePopulations({"plan"}, PlanRecords, ExpectedRecords, {}, {})
          ELSE Drift!ReconcilePopulations({"plan", "inventory"}, PlanRecords \cup SweepRecords,
                                          ExpectedRecords, {}, {})
    /\ UNCHANGED <<text, pos, block, org, summary, records, config, existing>>

PreviewNext == Parse \/ Show

PreviewSpec == PreviewInit /\ [][PreviewNext]_previewVars

-----------------------------------------------------------------------------
\* Properties.

\* Every resource of a plan's text yields its record, with its organization and its
\* own body, however the text is cut off or indented.
RecordsAreBlocks == Parser!RecordsAreBlocks

\* The text has a block of the resource, in the organization.
Changes(o, resource) ==
    \E i \in DOMAIN text :
        /\ Parser!Opens(text[i]) /\ Parser!Clear(text, i)
        /\ text[i].says = resource
        /\ Parser!InForce(text, o, i)

\* A preview shows what a repository without issues would be told: one new issue per
\* resource whose change is not expected, in the organization the plan names, and one
\* per repository that is only live or only declared, outside of comments, and is not
\* out of scope.
PreviewIsWhole ==
    printed # NotPrinted =>
        LET declared == Repositories(config)
            changed == {f \in Org \X ResourceHeader : Changes(f[1], f[2]) /\ f[2] \notin Expected}
            strays ==
                IF existing = NoFile THEN {}
                ELSE {<<"undeclared", r>> : r \in {s \in existing : s \notin declared \cup Unmanaged}}
                     \cup {<<"missing", r>> : r \in {s \in declared : s \notin existing \cup Unmanaged}}
        IN  /\ {a.fp : a \in printed} = changed \cup ({DefaultOrg} \X strays)
            /\ \A a \in printed : a.kind = "open"
            /\ \A a, b \in printed : a.fp = b.fp => a = b
=============================================================================
