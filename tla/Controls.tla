------------------------------ MODULE Controls ------------------------------
(***************************************************************************)
(* The control leg: load_controls parses the committed assertion table,    *)
(* evaluate_controls asserts its rows one after another against the live   *)
(* organization, and then the generated families of org-secret assertions. *)
(* What it finds is reconciled with the open control issues (Reconcile).   *)
(*                                                                         *)
(* Reads are separate requests: live state changes between them, and any   *)
(* of them may fail or be refused as truncated.  A row's field in a        *)
(* response is reduced to what the row can tell of it.                     *)
(***************************************************************************)
EXTENDS Naturals, FiniteSets, Sequences

CONSTANTS
    Table,          \* the [[control]] rows of unmanaged-controls.toml, in order
    Families,       \* the switched on secret families, in the order they run
    Declared,       \* the org secrets the committed config declares
    Selected,       \* those declared with visibility "selected"
    Stray,          \* a secret nobody declared
    MaxLive,        \* bound: changes of the live organization
    MaxFault        \* bound: reads that fail

ASSUME ControlsAssumption ==
    /\ Families \in Seq({"visibility", "repositories", "undeclared"})
    /\ Selected \subseteq Declared
    /\ Stray \notin Declared
    /\ {MaxLive, MaxFault} \subseteq Nat

\* The rows _parse_control keeps: a malformed row is dropped, never half-asserted.
WellFormed(raw) ==
    /\ raw.key # ""
    /\ raw.scope \in {"org", "repo"}
    /\ raw.scope = "repo" => raw.repository # ""
    /\ raw.compare \in {"exact", "set"}
    /\ raw.kind = "assert" =>
          /\ raw.endpoint # ""
          /\ raw.path = "parses"
          /\ raw.expect # "unset"
          /\ raw.compare = "set" => "objects" \notin {raw.expect, raw.tolerated}

Row == SelectSeq(Table, WellFormed)

\* What SelectSeq makes of the table is a sequence of the table's rows.
ASSUME RowAssumption == Row \in Seq({Table[k] : k \in DOMAIN Table})

Asserted == {k \in DOMAIN Row : Row[k].kind = "assert"}

Endpoint == {Row[k].endpoint : k \in Asserted}

\* Mutant of ControlResource: the scope is left out.
ControlResourceKey(row) == <<"org", row.key>>

\* control_resource: the identity of a row's issue.
ControlResource(row) ==
    <<IF row.scope = "repo" THEN row.repository ELSE "org", row.key>>

\* A family's synthetic row is of org scope.
FamilyResource(family) == <<"org", family>>

Resource ==
    {ControlResource(Row[k]) : k \in Asserted} \cup {FamilyResource(Families[k]) : k \in DOMAIN Families}

\* No key is there twice at org scope, nor twice for a repository, none at org scope
\* is a family's, and no repository is called as the other scope.  That is the table's
\* to see to: load_controls does not compare its rows.
Identified ==
    /\ \A k, l \in Asserted :
          /\ Row[k].key = Row[l].key
          /\ Row[k].scope = "repo" <=> Row[l].scope = "repo"
          /\ Row[k].scope = "repo" => Row[k].repository = Row[l].repository
          => k = l
    /\ \A k \in Asserted :
          IF Row[k].scope = "repo" THEN Row[k].repository # "org"
          ELSE Row[k].key \notin {"visibility", "repositories", "undeclared"}
    /\ \A k, l \in DOMAIN Families : Families[k] = Families[l] => k = l

Secret == Declared \cup {Stray}

NoMarker == <<>>

Drift == INSTANCE Reconcile WITH
    Fingerprint <- Resource,
    NoMarker <- NoMarker,
    LegOf <- [f \in Resource |-> "control"]

VARIABLES
    field,          \* live: what each row's path yields
    visibility,     \* live: each secret's visibility
    readers,        \* live: the secrets whose reader list is as declared
    pos,            \* the row, and after the rows the family, to be evaluated
    cache,          \* what each endpoint answered
    listing,        \* the one listing of the org secrets
    compared,       \* the secrets whose reader lists were read, and how they were
    verdicts,       \* records, clean and unresolved resources
    issues,         \* the open control issues
    spent           \* how much of each bound is used

vars == <<field, visibility, readers, pos, cache, listing, compared, verdicts,
          issues, spent>>

live == <<field, visibility, readers>>

Value == {"expected", "tolerated", "other", "absent", "objects"}

Reply == [state : {"unread", "failed"}] \cup [state : {"read"}, doc : [Asserted -> Value]]

Listing ==
    [state : {"unread", "failed"}] \cup
    [state : {"read"}, secrets : [Secret -> {"absent", "selected", "wider"}]]

Bucket == {"records", "clean", "unresolved"}

\* Types: a verdict is one of an asserted row or of a family, never of a row that
\* is documented as unassertable.
TypeOK ==
    /\ field \in [Asserted -> Value]
    /\ visibility \in [Secret -> {"absent", "selected", "wider"}]
    /\ readers \subseteq Declared
    /\ pos \in 1 .. Len(Row) + Len(Families) + 1
    /\ cache \in [Endpoint -> Reply]
    /\ listing \in Listing
    /\ compared \in [Declared -> {"unread", "same", "differs"}]
    /\ verdicts \in [Bucket -> SUBSET Resource]
    /\ issues \subseteq Drift!ListedIssue(1 .. Cardinality(Resource))
    /\ spent \in [{"live", "fault"} -> Nat]

\* The numbers of the open issues: which issue has which plays no part here.
Numbering == CHOOSE n \in [Resource -> 1 .. Cardinality(Resource)] :
                \A f, g \in Resource : n[f] = n[g] => f = g

\* As declared, with any of the control issues open.
Init ==
    /\ field = [k \in Asserted |-> "expected"]
    /\ visibility = [s \in Secret |-> IF s = Stray THEN "absent"
                                      ELSE IF s \in Selected THEN "selected" ELSE "wider"]
    /\ readers = Declared
    /\ pos = 1
    /\ cache = [e \in Endpoint |-> [state |-> "unread"]]
    /\ listing = [state |-> "unread"]
    /\ compared = [s \in Declared |-> "unread"]
    /\ verdicts = [b \in Bucket |-> {}]
    /\ \E known \in SUBSET Resource :
          issues = {[number |-> Numbering[f], fp |-> f, labels |-> Drift!LabelsOf("control")] :
                       f \in known}
    /\ spent = [b \in {"live", "fault"} |-> 0]

Spend(budget, max) ==
    /\ spent[budget] < max
    /\ spent' = [spent EXCEPT ![budget] = @ + 1]

Put(bucket, resource) == verdicts' = [verdicts EXCEPT ![bucket] = @ \cup {resource}]

-----------------------------------------------------------------------------
\* The rows.

\* What a row makes of its field: one that is absent, or that a set cannot be
\* built from, is not compared at all; a tolerated value is clean.
Judge(row, value) ==
    CASE value = "absent" -> "unresolved"
      [] value = "objects" /\ row.compare = "set" -> "unresolved"
      [] value = "expected" -> "clean"
      [] value = "tolerated" /\ row.tolerated # "unset" -> "clean"
      [] OTHER -> "records"

\* Mutant of Read: every row sends its own request.
ReadAgain(endpoint) ==
    \/ cache' = [cache EXCEPT ![endpoint] = [state |-> "read", doc |-> field]] /\ UNCHANGED spent
    \/ Spend("fault", MaxFault) /\ cache' = [cache EXCEPT ![endpoint] = [state |-> "failed"]]

\* The first row of an endpoint reads it; its answer, an error included, serves
\* the others.
Read(endpoint) ==
    \/ cache[endpoint].state # "unread" /\ UNCHANGED <<cache, spent>>
    \/ /\ cache[endpoint].state = "unread"
       /\ \/ /\ cache' = [cache EXCEPT ![endpoint] = [state |-> "read", doc |-> field]]
             /\ UNCHANGED spent
          \/ /\ Spend("fault", MaxFault)
             /\ cache' = [cache EXCEPT ![endpoint] = [state |-> "failed"]]

Evaluate ==
    /\ pos \in Asserted
    /\ Read(Row[pos].endpoint)
    /\ LET reply == cache'[Row[pos].endpoint] IN
       Put(IF reply.state = "failed" THEN "unresolved" ELSE Judge(Row[pos], reply.doc[pos]),
           ControlResource(Row[pos]))
    /\ pos' = pos + 1
    /\ UNCHANGED <<live, listing, compared, issues>>

\* Mutant of Skip: an unassertable row is counted as one that could not be read.
SkipUnresolved ==
    /\ pos \in DOMAIN Row \ Asserted
    /\ Put("unresolved", ControlResource(Row[pos]))
    /\ pos' = pos + 1
    /\ UNCHANGED <<live, cache, listing, compared, issues, spent>>

\* An unassertable row is documented and never read.
Skip ==
    /\ pos \in DOMAIN Row \ Asserted
    /\ pos' = pos + 1
    /\ UNCHANGED <<live, cache, listing, compared, verdicts, issues, spent>>

-----------------------------------------------------------------------------
\* The secret families.

Family == Families[pos - Len(Row)]

AtFamily == pos - Len(Row) \in DOMAIN Families

\* The org secrets are listed once, before the first family; without the list
\* every family is unresolved.
ListSecrets ==
    /\ AtFamily
    /\ listing.state = "unread"
    /\ \/ /\ listing' = [state |-> "read", secrets |-> visibility]
          /\ UNCHANGED <<pos, verdicts, spent>>
       \/ /\ Spend("fault", MaxFault)
          /\ listing' = [state |-> "failed"]
          /\ verdicts' = [verdicts EXCEPT !["unresolved"] =
                @ \cup {FamilyResource(Families[k]) : k \in DOMAIN Families}]
          /\ pos' = Len(Row) + Len(Families) + 1
    /\ UNCHANGED <<live, cache, compared, issues>>

Listed(family) == AtFamily /\ listing.state = "read" /\ Family = family

\* The end of a family: one aggregate record, or none.
Report(offends) ==
    /\ Put(IF offends THEN "records" ELSE "clean", FamilyResource(Family))
    /\ pos' = pos + 1
    /\ UNCHANGED <<live, cache, listing, compared, issues>>

DeclaredVisibility(s) == IF s \in Selected THEN "selected" ELSE "wider"

CompareVisibility ==
    /\ Listed("visibility")
    /\ Report(\E s \in Declared : listing.secrets[s] \notin {"absent", DeclaredVisibility(s)})
    /\ UNCHANGED spent

CompareUndeclared ==
    /\ Listed("undeclared")
    /\ Report(listing.secrets[Stray] # "absent")
    /\ UNCHANGED spent

\* comparable_secrets: those that were listed with a reader list.
Comparable == {s \in Declared : listing.secrets[s] = "selected"}

\* Mutant of ReadReaders: a list that cannot be read is passed over.
ReadReadersLenient ==
    /\ Listed("repositories")
    /\ \E s \in Comparable :
          /\ compared[s] = "unread"
          /\ \/ /\ compared' = [compared EXCEPT ![s] = IF s \in readers THEN "same" ELSE "differs"]
                /\ UNCHANGED spent
             \/ Spend("fault", MaxFault) /\ compared' = [compared EXCEPT ![s] = "same"]
    /\ UNCHANGED <<live, cache, pos, listing, verdicts, issues>>

\* One request for each comparable secret, in any order of names.  The first that
\* fails leaves the whole family unresolved.
ReadReaders ==
    /\ Listed("repositories")
    /\ \E s \in Comparable :
          /\ compared[s] = "unread"
          /\ \/ /\ compared' = [compared EXCEPT ![s] = IF s \in readers THEN "same" ELSE "differs"]
                /\ UNCHANGED <<pos, verdicts, spent>>
             \/ /\ Spend("fault", MaxFault)
                /\ Put("unresolved", FamilyResource("repositories"))
                /\ pos' = pos + 1
                /\ UNCHANGED compared
    /\ UNCHANGED <<live, cache, listing, issues>>

CompareReaders ==
    /\ Listed("repositories")
    /\ \A s \in Comparable : compared[s] # "unread"
    /\ Report(\E s \in Comparable : compared[s] = "differs")
    /\ UNCHANGED spent

-----------------------------------------------------------------------------
\* The surroundings.

LiveChange ==
    /\ Spend("live", MaxLive)
    /\ pos <= Len(Row) + Len(Families)
    /\ \/ /\ \E k \in Asserted, v \in Value : field' = [field EXCEPT ![k] = v]
          /\ UNCHANGED <<visibility, readers>>
       \/ /\ \E s \in Secret, v \in {"absent", "selected", "wider"} :
                visibility' = [visibility EXCEPT ![s] = v]
          /\ UNCHANGED <<field, readers>>
       \/ /\ \E s \in Declared : readers' = (readers \ {s}) \cup ({s} \ readers)
          /\ UNCHANGED <<field, visibility>>
    /\ UNCHANGED <<pos, cache, listing, compared, verdicts, issues>>

Next ==
    \/ Evaluate \/ Skip
    \/ ListSecrets \/ CompareVisibility \/ ReadReaders \/ CompareReaders \/ CompareUndeclared
    \/ LiveChange

Spec == Init /\ [][Next]_vars

-----------------------------------------------------------------------------
\* Properties.

Over == pos = Len(Row) + Len(Families) + 1

\* What the leg makes the reconciler do to the open control issues.
Actions ==
    Drift!ReconcileLeg("control", verdicts["records"], {},
                       Drift!Population("control", issues, verdicts["unresolved"]))

\* The docs of evaluate_controls: what is asserted ends up in one bucket, and
\* nothing else ends up in any.
OneVerdict ==
    Over => \A f \in Resource : \E b \in Bucket : \A c \in Bucket : f \in verdicts[c] <=> c = b

\* Rows that read one endpoint are judged by one answer: two settings of one
\* response are never reported in a combination the organization was never in.
OneReading ==
    \A k \in Asserted : k < pos =>
        LET reply == cache[Row[k].endpoint] IN
        ControlResource(Row[k]) \in
            verdicts[IF reply.state = "failed" THEN "unresolved" ELSE Judge(Row[k], reply.doc[k])]

\* A family is cleared only by the lists themselves, each of which was read.
FamilyReadWhole ==
    FamilyResource("repositories") \in verdicts["clean"] =>
        /\ spent["fault"] = Cardinality({e \in Endpoint : cache[e].state = "failed"})
        /\ \A s \in Comparable : compared[s] = "same"

\* Per-row degradation: what could not be read keeps its issue as it is, what
\* passed has none, what failed has exactly one.
IssuesFollowVerdicts ==
    Over => \A f \in Resource :
        LET asked == {a.kind : a \in {b \in Actions : b.fp = f}}
            known == \E i \in issues : i.fp = f
        IN  asked = IF f \in verdicts["unresolved"] THEN {}
                    ELSE IF f \in verdicts["records"] THEN {IF known THEN "update" ELSE "open"}
                    ELSE IF known THEN {"close"} ELSE {}
=============================================================================
