----------------------------- MODULE ReaderLists -----------------------------
(***************************************************************************)
(* One run of drift-layer --org-secrets-report: who may read each org      *)
(* secret, as the committed config declares it and as the organization has *)
(* it.  The secrets are listed once, then each reader list is a request of *)
(* its own; grants and visibilities change in between.                     *)
(***************************************************************************)
EXTENDS Naturals, FiniteSets

CONSTANTS
    Secrets,        \* the secrets of the committed config, as SecretScan extracts them
    Repo,           \* repositories that may read a secret
    MaxLive,        \* bound: changes of the live organization
    MaxFault        \* bound: reads and steps that go wrong

Name == DOMAIN Secrets

ReadersAssumption == \A s \in Name : Secrets[s].readers \subseteq Repo

DeclaredSelected == {s \in Name : Secrets[s].visibility = "selected"}

VARIABLES
    secrets,        \* what holds of the secrets: now, ever and always in this run
    readers,        \* the run: its stage, the reads made, the fragment printed
    spent           \* how much of each bound is used

vars == <<secrets, readers, spent>>

Fact == ({"live", "selected"} \X Name) \cup ({"reads"} \X Name \X Repo)

\* Only a live secret has a visibility.
Possible(facts) == \A s \in Name : <<"selected", s>> \in facts => <<"live", s>> \in facts

NoList == [state |-> "unread", names |-> {}, selected |-> {}]

Idle == [stage |-> "idle", listing |-> NoList,
         read |-> [s \in Name |-> [state |-> "unread", granted |-> {}]],
         kind |-> "none", rows |-> {}]

TypeOK ==
    /\ secrets \in [{"now", "ever", "always"} -> SUBSET Fact]
    /\ secrets.always \subseteq secrets.now /\ secrets.now \subseteq secrets.ever
    /\ Possible(secrets.now)
    /\ readers.stage \in {"idle", "reading", "over"}
    /\ readers.listing \in [state : {"unread", "read"}, names : SUBSET Name, selected : SUBSET Name]
    /\ readers.read \in [Name -> [state : {"unread", "compared", "undetermined"},
                                  granted : SUBSET Repo]]
    /\ readers.kind \in {"none", "degraded", "report"}
    /\ readers.rows \subseteq
          {"granted", "extra", "undetermined", "not compared", "unreadable", "clean"}
          \X (Name \cup {"*"}) \X (Repo \cup {"*"})

Init ==
    /\ secrets \in {[now |-> f, ever |-> f, always |-> f] : f \in {g \in SUBSET Fact : Possible(g)}}
    /\ readers = Idle
    /\ spent = [b \in {"live", "fault"} |-> 0]

Spend(budget, max) ==
    /\ spent[budget] < max
    /\ spent' = [spent EXCEPT ![budget] = @ + 1]

\* render_degraded_markdown.
Degrade == readers' = [Idle EXCEPT !.stage = "over", !.kind = "degraded"]

Publish(rows) == readers' = [readers EXCEPT !.stage = "over", !.kind = "report", !.rows = rows]

\* There is a token and a committed config, or the fragment says what is missing.
Begin ==
    /\ readers.stage = "idle"
    /\ secrets' = [secrets EXCEPT !.ever = secrets.now, !.always = secrets.now]
    /\ \/ readers' = [Idle EXCEPT !.stage = "reading"] /\ UNCHANGED spent
       \/ Spend("fault", MaxFault) /\ Degrade

\* One listing of the secrets.  Refused, it is the only thing the report tells.
ListSecrets ==
    /\ readers.stage = "reading"
    /\ readers.listing = NoList
    /\ \/ /\ readers' = [readers EXCEPT !.listing =
                [state |-> "read", names |-> {s \in Name : <<"live", s>> \in secrets.now},
                 selected |-> {s \in Name : <<"selected", s>> \in secrets.now}]]
          /\ UNCHANGED spent
       \/ /\ Spend("fault", MaxFault)
          /\ Publish({<<"unreadable", "*", "*">>})
    /\ UNCHANGED secrets

\* comparable_secrets: declared, and listed as having a reader list.
Comparable == readers.listing.selected

Pending == {s \in Comparable : readers.read[s].state = "unread"}

\* The next of them: the order of their names plays no part.
Turn == CHOOSE s \in Pending : TRUE

Put(s, state, granted) ==
    readers' = [readers EXCEPT !.read[s] = [state |-> state, granted |-> granted]]

\* Mutant of ReadList: a list that is refused is taken for an empty one.
ReadListEmpty ==
    /\ readers.stage = "reading"
    /\ readers.listing.state = "read"
    /\ Pending # {}
    /\ LET s == Turn
           granted == {r \in Repo : <<"reads", s, r>> \in secrets.now}
       IN  \/ Put(s, "compared", granted) /\ UNCHANGED spent
           \/ Spend("fault", MaxFault) /\ Put(s, "compared", {})
    /\ UNCHANGED secrets

\* diff_secret_repositories, per comparable secret.  A request that fails, or that
\* comes when the secret is gone or has no list any more, leaves this one unchecked.
ReadList ==
    /\ readers.stage = "reading"
    /\ readers.listing.state = "read"
    /\ Pending # {}
    /\ LET s == Turn
           granted == {r \in Repo : <<"reads", s, r>> \in secrets.now}
       IN  \/ /\ <<"selected", s>> \in secrets.now
              /\ Put(s, "compared", granted)
              /\ UNCHANGED spent
           \/ /\ <<"selected", s>> \notin secrets.now
              /\ Put(s, "undetermined", {})
              /\ UNCHANGED spent
           \/ /\ Spend("fault", MaxFault)
              /\ Put(s, "undetermined", {})
    /\ UNCHANGED secrets

\* An exception that is no ApiError: the mode catches it and degrades.
Break ==
    /\ readers.stage = "reading"
    /\ Spend("fault", MaxFault)
    /\ Degrade
    /\ UNCHANGED secrets

Compared == {s \in Name : readers.read[s].state = "compared"}

\* The tables of render_markdown.
Rows ==
    LET granted == UNION {{<<"granted", s, r>> : r \in Secrets[s].readers \ readers.read[s].granted} :
                          s \in Compared}
        extra == UNION {{<<"extra", s, r>> : r \in readers.read[s].granted \ Secrets[s].readers} :
                        s \in Compared}
        undetermined == {<<"undetermined", s, "*">> :
                            s \in {t \in Name : readers.read[t].state = "undetermined"}}
    IN  granted \cup extra \cup undetermined
        \cup {<<"not compared", s, "*">> : s \in DeclaredSelected \ readers.listing.selected}
        \cup IF granted \cup extra \cup undetermined = {} THEN {<<"clean", "*", "*">>} ELSE {}

Report ==
    /\ readers.stage = "reading"
    /\ readers.listing.state = "read"
    /\ Pending = {}
    /\ Publish(Rows)
    /\ UNCHANGED <<secrets, spent>>

\* Grants, revocations, visibilities and secrets that come and go while it runs.
LiveChange ==
    /\ readers.stage = "reading"
    /\ Spend("live", MaxLive)
    /\ \E f \in Fact :
          LET now == (secrets.now \ {f}) \cup ({f} \ secrets.now)
          IN  /\ Possible(now)
              /\ secrets' = [now |-> now, ever |-> secrets.ever \cup now,
                             always |-> secrets.always \cap now]
    /\ UNCHANGED readers

Next == Begin \/ ListSecrets \/ ReadList \/ Break \/ Report \/ LiveChange

Spec == Init /\ [][Next]_vars

-----------------------------------------------------------------------------
\* Properties.

Row(kind, s, r) == <<kind, s, r>> \in readers.rows

\* A row is never false: the grant it calls missing was missing at some time of the
\* check, the reader it calls undeclared had access and is not declared.
NoFalseReader ==
    \A s \in Name, r \in Repo :
        /\ Row("granted", s, r) => r \in Secrets[s].readers /\ <<"reads", s, r>> \notin secrets.always
        /\ Row("extra", s, r) => r \notin Secrets[s].readers /\ <<"reads", s, r>> \in secrets.ever

\* Nothing is passed over: a declared reader without access all the while, an
\* undeclared one with access, a selected secret without a reader list have their row
\* unless the report says that it could not check them; and where it says that all is
\* as declared, it checked.
NoSilentReader ==
    readers.kind = "report" /\ ~ Row("unreadable", "*", "*") =>
        \A s \in Name :
            LET unchecked == Row("undetermined", s, "*") /\ ~ Row("clean", "*", "*")
            IN  /\ <<"selected", s>> \in secrets.always => \A r \in Repo :
                      /\ r \in Secrets[s].readers /\ <<"reads", s, r>> \notin secrets.ever =>
                            Row("granted", s, r) \/ unchecked
                      /\ r \notin Secrets[s].readers /\ <<"reads", s, r>> \in secrets.always =>
                            Row("extra", s, r) \/ unchecked
                /\ s \in DeclaredSelected /\ <<"selected", s>> \notin secrets.ever =>
                      Row("not compared", s, "*")
=============================================================================
