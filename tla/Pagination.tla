----------------------------- MODULE Pagination -----------------------------
(***************************************************************************)
(* One read of a collection through RestGitHubClient: the walk of          *)
(* _paginate behind list_open_drift_issues, list_org_repos and the secret  *)
(* lists, or the single request of get_json.                               *)
(*                                                                         *)
(* The collection changes between two requests.  GitHub lists it newest    *)
(* first, so an element is named by its rank of creation, and cuts it into *)
(* pages either by page number (repositories, secrets) or by a cursor, the *)
(* last element served (issues).  A URL is the number or the cursor.       *)
(***************************************************************************)
EXTENDS Naturals, FiniteSets, FiniteSetsExt

CONSTANTS
    Paging,         \* "number" or "cursor"
    PageSize,
    Hidden,         \* elements a page holds and the reader drops: pull requests
    Faults,         \* the ways the server may answer badly
    MaxElement      \* bound: elements ever created

ASSUME PaginationAssumption ==
    /\ Paging \in {"number", "cursor"}
    /\ PageSize \in Nat \ {0}
    /\ MaxElement \in Nat
    /\ Faults \subseteq {"error", "unlinked", "loop"}

Element == 1 .. MaxElement

Url == 1 .. MaxElement + 1

VARIABLES
    collection,     \* what exists
    created,        \* how many elements were ever created
    walk,           \* the request under way, and what it has been given
    stable          \* history: elements that existed during the whole walk

vars == <<collection, created, walk, stable>>

TypeOK ==
    /\ collection \subseteq 1 .. created
    /\ created \in 0 .. MaxElement
    /\ walk \in [call : {"list", "get"}, stage : {"walking", "complete", "refused"},
                 url : Url, fetched : SUBSET Url, got : SUBSET Element]
    /\ stable \subseteq collection

FirstUrl == IF Paging = "number" THEN 1 ELSE MaxElement + 1

Init ==
    /\ created \in 0 .. MaxElement
    /\ collection \in SUBSET (1 .. created)
    /\ stable = collection
    /\ \E call \in {"list", "get"} :
          walk = [call |-> call, stage |-> "walking", url |-> FirstUrl,
                  fetched |-> {}, got |-> {}]

-----------------------------------------------------------------------------
\* The server.

\* How many elements precede element i on the pages that start at cursor u.
Preceding(i, u) == Cardinality({j \in collection : i < j /\ j < u})

PageAt(u) ==
    IF Paging = "number"
    THEN {i \in collection :
             Preceding(i, MaxElement + 1) \in (u - 1) * PageSize .. u * PageSize - 1}
    ELSE {i \in collection : i < u /\ Preceding(i, u) < PageSize}

\* There are elements behind the page at u: the Link header says rel="next".
More(u) ==
    IF Paging = "number" THEN Cardinality(collection) > u * PageSize
    ELSE \E i \in collection : i < u /\ i \notin PageAt(u)

NextUrl(u) == IF Paging = "number" THEN u + 1 ELSE Min(PageAt(u))

\* What the Link header may say: no next, a next, a next that cannot be
\* followed, or a next that was served before.
Links(u) ==
    (IF More(u) THEN {[next |-> TRUE, target |-> {NextUrl(u)}]}
     ELSE {[next |-> FALSE, target |-> {}]})
    \cup {[next |-> TRUE, target |-> {}] : k \in Faults \cap {"unlinked"}}
    \cup {[next |-> TRUE, target |-> {v}] :
              k \in Faults \cap {"loop"}, v \in walk.fetched \cup {u}}

-----------------------------------------------------------------------------
\* The client.

Ends(outcome) == walk' = [walk EXCEPT !.stage = outcome]

\* Mutants of Fetch: the next URL is composed; a short page is the last one; a
\* next is followed wherever it leads.
FetchComposed ==
    /\ walk.stage = "walking"
    /\ \E link \in Links(walk.url) :
          walk' = IF ~ link.next THEN [walk EXCEPT !.stage = "complete"]
                  ELSE [walk EXCEPT !.url = @ + 1]
    /\ UNCHANGED <<collection, created, stable>>

FetchShort ==
    /\ walk.stage = "walking"
    /\ \E link \in Links(walk.url) :
          walk' = IF Cardinality(PageAt(walk.url) \ Hidden) < PageSize \/ ~ link.next
                  THEN [walk EXCEPT !.stage = "complete", !.got = @ \cup (PageAt(walk.url) \ Hidden)]
                  ELSE IF walk.call = "get" \/ link.target \subseteq walk.fetched \cup {walk.url}
                  THEN [walk EXCEPT !.stage = "refused"]
                  ELSE [walk EXCEPT !.url = CHOOSE v \in link.target : TRUE,
                                    !.fetched = @ \cup {walk.url},
                                    !.got = @ \cup (PageAt(walk.url) \ Hidden)]
    /\ UNCHANGED <<collection, created, stable>>

FetchTrusting ==
    /\ walk.stage = "walking"
    /\ \E link \in Links(walk.url) :
          walk' = IF ~ link.next
                  THEN [walk EXCEPT !.stage = "complete", !.got = @ \cup (PageAt(walk.url) \ Hidden)]
                  ELSE IF walk.call = "get" \/ link.target = {}
                  THEN [walk EXCEPT !.stage = "refused"]
                  ELSE [walk EXCEPT !.url = CHOOSE v \in link.target : TRUE,
                                    !.fetched = @ \cup {walk.url},
                                    !.got = @ \cup (PageAt(walk.url) \ Hidden)]
    /\ UNCHANGED <<collection, created, stable>>

\* One request.  The Link header alone decides what follows: without a next the
\* read is complete; get_json refuses any next; the walk refuses one without a
\* target or with one that was fetched already, and follows any other.
Fetch ==
    /\ walk.stage = "walking"
    /\ \/ /\ "error" \in Faults
          /\ Ends("refused")
       \/ \E link \in Links(walk.url) :
             LET fetched == walk.fetched \cup {walk.url}
                 got == walk.got \cup (PageAt(walk.url) \ Hidden)
             IN  \/ /\ ~ link.next
                    /\ walk' = [walk EXCEPT !.stage = "complete", !.got = got]
                 \/ /\ link.next
                    /\ walk.call = "get" \/ link.target \subseteq fetched
                    /\ Ends("refused")
                 \/ /\ walk.call = "list"
                    /\ \E v \in link.target \ fetched :
                          walk' = [walk EXCEPT !.url = v, !.fetched = fetched, !.got = got]
    /\ UNCHANGED <<collection, created, stable>>

-----------------------------------------------------------------------------
\* The surroundings.

Create ==
    /\ created < MaxElement
    /\ created' = created + 1
    /\ collection' = collection \cup {created + 1}
    /\ UNCHANGED <<walk, stable>>

\* A repository is deleted, an issue is closed or loses its label.
Remove(i) ==
    /\ i \in collection
    /\ collection' = collection \ {i}
    /\ stable' = stable \ {i}
    /\ UNCHANGED <<created, walk>>

Next == Fetch \/ Create \/ \E i \in Element : Remove(i)

Spec == Init /\ [][Next]_vars

\* A request is answered or fails, at the latest when its job times out.
FairSpec == Spec /\ WF_vars(Fetch)

-----------------------------------------------------------------------------
\* Properties.

\* Issues #258 and #260: a read that is not refused is the whole collection.
\* Nothing that existed all the while is missing from it.
CompleteOrRefused ==
    walk.stage = "complete" => stable \ Hidden \subseteq walk.got

\* The walk ends although the server may repeat itself for ever.
WalkEnds == <>(walk.stage # "walking")
=============================================================================
