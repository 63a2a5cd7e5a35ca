----------------------------- MODULE SecretScan -----------------------------
(***************************************************************************)
(* extract_declared_org_secrets: the organization's secrets, read from the *)
(* text of the committed config in one pass over its lines.  Between two   *)
(* lines the pass keeps the constructor it is in, how deep in its braces,  *)
(* whether in its list of readers, and what it has read of its fields.     *)
(***************************************************************************)
EXTENDS Inventory

CONSTANTS
    Dummy,          \* a value of asterisks only
    NoSecret        \* outside of every constructor

ASSUME ScanAssumption ==
    \A t \in Config :
        /\ IsText(t)
        /\ \A l \in DOMAIN t : \A p \in DOMAIN t[l] : t[l][p].is = "secret" => t[l][p].str # NoSecret

VARIABLES
    line,           \* the next line
    name,           \* of the constructor under way, or NoSecret
    depth,          \* the braces open in it
    inList,         \* whether the list of its readers goes on
    visibility, selected, dummy,    \* what was read of it
    extracted       \* the secrets so far, by name

scanned == <<visibility, selected, dummy>>

scanVars == <<config, line, name, depth, inList, visibility, selected, dummy, extracted>>

ScanInit ==
    /\ config \in Config
    /\ line = 1
    /\ name = NoSecret
    /\ depth = 0
    /\ inList = FALSE
    /\ visibility = "public" /\ selected = {} /\ dummy = FALSE
    /\ extracted = <<>>

-----------------------------------------------------------------------------

Current == Code(config[line])

DefaultSecret == [visibility |-> "public", readers |-> {}, dummy |-> FALSE]

Put(n, secret) ==
    extracted' = [m \in DOMAIN extracted \cup {n} |-> IF m = n THEN secret ELSE extracted[m]]

\* The next line is read, in a constructor or outside of all.
Reading(inside) ==
    /\ line <= Len(config)
    /\ (name # NoSecret) = inside
    /\ line' = line + 1
    /\ UNCHANGED config

Pass ==
    /\ Reading(FALSE)
    /\ ~ Has(Current, "secret")
    /\ UNCHANGED <<name, depth, inList, scanned, extracted>>

\* The line of a constructor: whatever else is on it is not read.
Enter ==
    /\ Reading(FALSE)
    /\ Has(Current, "secret")
    /\ visibility' = "public" /\ selected' = {} /\ dummy' = FALSE
    /\ inList' = FALSE
    /\ depth' = Braces(Current)
    /\ \/ /\ depth' > 0
          /\ name' = First(Current, "secret")
          /\ UNCHANGED extracted
       \/ /\ depth' <= 0
          /\ Put(First(Current, "secret"), DefaultSecret)
          /\ UNCHANGED name

\* A line of the body: the constructor ends where its braces are balanced.
EndOfLine ==
    /\ depth' = depth + Braces(Current)
    /\ \/ depth' > 0 /\ UNCHANGED <<name, extracted>>
       \/ /\ depth' <= 0
          /\ Put(name, [visibility |-> visibility', readers |-> selected', dummy |-> dummy'])
          /\ name' = NoSecret

ContinueList ==
    /\ Reading(TRUE)
    /\ inList
    /\ selected' = selected \cup Quoted(Current)
    /\ inList' = ~ Has(Current, "end")
    /\ UNCHANGED <<visibility, dummy>>
    /\ EndOfLine

\* Mutant of StartList: a list is taken to end on its first line.
StartListOneLine ==
    /\ Reading(TRUE)
    /\ ~ inList /\ Has(Current, "readers")
    /\ selected' = selected \cup Quoted(After(Current, "readers"))
    /\ UNCHANGED <<inList, visibility, dummy>>
    /\ EndOfLine

StartList ==
    /\ Reading(TRUE)
    /\ ~ inList /\ Has(Current, "readers")
    /\ selected' = selected \cup Quoted(After(Current, "readers"))
    /\ inList' = ~ Has(After(Current, "readers"), "end")
    /\ UNCHANGED <<visibility, dummy>>
    /\ EndOfLine

ReadFields ==
    /\ Reading(TRUE)
    /\ ~ inList /\ ~ Has(Current, "readers")
    /\ visibility' = IF Has(Current, "visibility") THEN First(Current, "visibility") ELSE visibility
    /\ dummy' = IF Has(Current, "value") THEN First(Current, "value") = Dummy ELSE dummy
    /\ UNCHANGED <<inList, selected>>
    /\ EndOfLine

ScanNext == Pass \/ Enter \/ ContinueList \/ StartList \/ ReadFields

ScanSpec == ScanInit /\ [][ScanNext]_scanVars

Scanned == line > Len(config)

-----------------------------------------------------------------------------
\* The secrets of a text t, without scanning it.

Constructors(t) == {l \in DOMAIN t : Marks(t, l, l, "secret") # {}}

NameAt(t, i) == Token(t, CHOOSE q \in Marks(t, i, i, "secret") : TRUE).str

\* The braces that are open after lines i to k.
Depth(t, i, k) == Cardinality(Marks(t, i, k, "open")) - Cardinality(Marks(t, i, k, "close"))

\* The constructor on line i is not over before line k.
Within(t, i, k) == \A l \in i .. k - 1 : Depth(t, i, l) > 0

Ends(t, i, k) == k >= i /\ Within(t, i, k) /\ Depth(t, i, k) <= 0

\* A list of readers that begins on line i or after is open at q.
Listed(t, i, q) ==
    \E r \in Marks(t, i, q[1], "readers") :
        /\ Before(r, q)
        /\ \A e \in Marks(t, i, q[1], "end") : ~ (Before(r, e) /\ Before(e, q))

ListedIn(t, i, k) == {q \in Marks(t, i, k, "string") : Listed(t, i, q)}

\* What lines i to k say of a secret, wherever on them they say it.
Declares(t, i, k, secret) ==
    /\ LET marks == Marks(t, i, k, "visibility")
       IN  IF marks = {} THEN secret.visibility = "public" ELSE secret.visibility \in Says(t, marks)
    /\ secret.readers = Says(t, ListedIn(t, i, k))
    /\ LET marks == Marks(t, i, k, "value")
       IN  IF marks = {} THEN secret.dummy = FALSE
           ELSE \E s \in Says(t, marks) : secret.dummy = (s = Dummy)

Field == {"secret", "visibility", "value", "readers"}

\* The text of the constructor on line i is as jsonnetfmt leaves it: constructors are
\* not nested, a line has one field, a list has nothing but strings and a line nothing
\* more to quote after its end.
Tidy(t, i) ==
    \A k \in i .. Len(t) :
        Within(t, i, k) =>
            /\ k # i => Marks(t, k, k, "secret") = {}
            /\ \A f, g \in Field : \A a \in Marks(t, k, k, f), b \in Marks(t, k, k, g) : a = b
            /\ \A f \in Quoting \cup {"readers"} : \A q \in Marks(t, k, k, f) :
                  /\ f # "string" => ~ Listed(t, i, q)
                  /\ \A e \in Marks(t, k, k, "end") : ~ Before(e, q)

Formatted(t) == \A i \in Constructors(t) : Tidy(t, i)

\* Of a text with one field per line, exactly the secrets are extracted whose
\* constructor ends, and of each what its last constructor says: whatever the order of
\* its fields, on one line or on many, with comments, repositories' secrets and other
\* braces anywhere in between.
DeclaredAsCommitted ==
    Scanned /\ Formatted(config) =>
        LET over == {i \in Constructors(config) : \E k \in i .. Len(config) : Ends(config, i, k)}
        IN  /\ DOMAIN extracted = {NameAt(config, i) : i \in over}
            /\ \A i \in over :
                  (\A j \in over : NameAt(config, j) = NameAt(config, i) => j <= i) =>
                      \E k \in i .. Len(config) :
                          Ends(config, i, k) /\ Declares(config, i, k, extracted[NameAt(config, i)])
=============================================================================
