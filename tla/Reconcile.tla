------------------------------ MODULE Reconcile ------------------------------
(***************************************************************************)
(* The pure core of the drift layer: src/drift_layer/reconcile.py and the  *)
(* partition by label of cli.reconcile_populations.                        *)
(*                                                                         *)
(* A divergence is identified by its fingerprint, a hash of the            *)
(* organization and the resource; three evidence sources ("legs") report   *)
(* divergences in disjoint namespaces, so a fingerprint belongs to one     *)
(* leg.  An issue carries the fingerprint of its divergence in a hidden    *)
(* marker of its body.  Titles, bodies and comment texts are left out.     *)
(***************************************************************************)
EXTENDS Naturals, FiniteSets

CONSTANTS
    Fingerprint,    \* the divergences that can be reported
    NoMarker,       \* what extract_fingerprint returns for an unmarked body
    LegOf           \* the leg whose namespace a fingerprint lies in

Leg == {"plan", "inventory", "control"}

ASSUME FingerprintAssumption ==
    /\ NoMarker \notin Fingerprint
    /\ LegOf \in [Fingerprint -> Leg]

Label == {"drift", "critical", "inventory", "unmanaged-control"}

\* DRIFT_LABELS, INVENTORY_LABELS and UNMANAGED_LABELS: what a leg's new issue
\* is created with.
LabelsOf(leg) ==
    {"drift", "critical"} \cup
    (CASE leg = "plan"      -> {}
       [] leg = "inventory" -> {"inventory"}
       [] leg = "control"   -> {"unmanaged-control"})

\* The fingerprints that leg reports on.
FingerprintsOf(leg) == {f \in Fingerprint : LegOf[f] = leg}

\* What the reconciler sees of an open issue, and what it asks the client to do.
ListedIssue(Number) ==
    [number : Number, fp : Fingerprint \cup {NoMarker}, labels : SUBSET Label]

IssueAction(Number) ==
    [kind : {"close", "open", "update"}, leg : Leg, fp : Fingerprint,
     number : Number \cup {0}]

-----------------------------------------------------------------------------

\* Mutants of Current: unmarked issues taken along; duplicates skipped.
CurrentUnmarked(issues) ==
    {i \in issues : \A j \in issues : j.fp = i.fp => i.number <= j.number}

CurrentUnique(issues) ==
    {i \in issues : i.fp # NoMarker /\ \A j \in issues : j.fp = i.fp => j = i}

\* Unmarked issues are ignored; of several issues bearing one marker the dict
\* keeps the last of the listing, which GitHub orders newest first: the oldest.
Current(issues) ==
    {i \in issues :
        /\ i.fp # NoMarker
        /\ \A j \in issues : j.fp = i.fp => i.number <= j.number}

\* Mutants of ReconcileLeg: nothing is closed; the allow-list is not consulted;
\* an existing issue is not looked for.
ReconcileLegKeeping(leg, records, expected, issues) ==
    {[kind |-> IF \E i \in Current(issues) : i.fp = f THEN "update" ELSE "open",
      leg |-> leg, fp |-> f,
      number |-> IF \E i \in Current(issues) : i.fp = f
                 THEN (CHOOSE i \in Current(issues) : i.fp = f).number ELSE 0]
        : f \in records \ expected}

ReconcileLegUnfiltered(leg, records, expected, issues) ==
    LET current == Current(issues)
        act(kind, fp, number) ==
            [kind |-> kind, leg |-> leg, fp |-> fp, number |-> number]
    IN  {act(IF i.fp \in records THEN "update" ELSE "close", i.fp, i.number) : i \in current}
        \cup
        {act("open", f, 0) : f \in {d \in records : \A c \in current : c.fp # d}}

ReconcileLegRepeating(leg, records, expected, issues) ==
    {[kind |-> "open", leg |-> leg, fp |-> f, number |-> 0] : f \in records \ expected}

\* reconcile: records that are not expected and have no issue are opened,
\* those that have one update it, and an issue with no record left is closed.
ReconcileLeg(leg, records, expected, issues) ==
    LET desired == records \ expected
        current == Current(issues)
        act(kind, fp, number) ==
            [kind |-> kind, leg |-> leg, fp |-> fp, number |-> number]
    IN  {act("close", i.fp, i.number) : i \in {c \in current : c.fp \notin desired}}
        \cup
        {act("update", i.fp, i.number) : i \in {c \in current : c.fp \in desired}}
        \cup
        {act("open", f, 0) : f \in {d \in desired : \A c \in current : c.fp # d}}

\* Mutant of Population: unreadable rows' issues are not withheld.
PopulationUnwithheld(leg, issues, unresolved) ==
    CASE leg = "plan" ->
            {i \in issues : {"inventory", "unmanaged-control"} \cap i.labels = {}}
      [] leg = "inventory" -> {i \in issues : "inventory" \in i.labels}
      [] leg = "control" -> {i \in issues : "unmanaged-control" \in i.labels}

\* The issues each leg may touch.  The control leg withholds those of the rows
\* that could not be read.
Population(leg, issues, unresolved) ==
    CASE leg = "plan" ->
            {i \in issues : {"inventory", "unmanaged-control"} \cap i.labels = {}}
      [] leg = "inventory" ->
            {i \in issues : "inventory" \in i.labels}
      [] leg = "control" ->
            {i \in issues : "unmanaged-control" \in i.labels /\ i.fp \notin unresolved}

\* reconcile_populations: each leg that ran reconciles its own population.
ReconcilePopulations(ran, records, expected, unresolved, issues) ==
    UNION {ReconcileLeg(leg, records \cap FingerprintsOf(leg), expected,
                        Population(leg, issues, unresolved)) : leg \in ran}

\* execute runs the plan leg's actions first, then the inventory's, then the
\* controls'; within a leg closes come first, then opens, then updates.  The
\* order inside one kind follows the hashes and is left open.
LegRank == [plan |-> 0, inventory |-> 1, control |-> 2]
KindRank == [close |-> 0, open |-> 1, update |-> 2]

Before(a, b) ==
    \/ LegRank[a.leg] < LegRank[b.leg]
    \/ a.leg = b.leg /\ KindRank[a.kind] < KindRank[b.kind]

Foremost(actions) == {a \in actions : \A b \in actions : ~ Before(b, a)}
=============================================================================
