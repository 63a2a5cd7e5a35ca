-------------------------- MODULE PaginationProofs --------------------------
(* Theorems about Pagination, for any page size, hidden elements, faults and *)
(* number of elements.                                                       *)
EXTENDS Pagination, FiniteSetTheorems, WellFoundedInduction, TLAPS

-----------------------------------------------------------------------------
\* Least and greatest elements.

LEMMA LeastExists ==
    ASSUME NEW S \in SUBSET Nat, S # {}
    PROVE  Min(S) \in S /\ \A x \in S : Min(S) <= x
  <1> DEFINE Less == OpToRel(<, Nat)
  <1>1. IsWellFoundedOn(Less, Nat)
    BY NatLessThanWellFounded
  <1>2. \A p, q \in Nat : p < q => <<p, q>> \in Less
    BY DEF OpToRel
  <1> HIDE DEF Less
  <1>3. PICK m \in S : \A x \in S : ~ (<<x, m>> \in Less)
    BY <1>1, WFMin, Zenon
  <1>4. \A x \in S : ~ (x < m)
    BY <1>2, <1>3
  <1>5. \A x \in S : m <= x
    BY <1>4
  <1>6. QED
    BY <1>5 DEF Min

LEMMA GreatestExists ==
    ASSUME NEW n \in Nat, NEW S \in SUBSET (0 .. n), S # {}
    PROVE  \E m \in S : \A x \in S : x <= m
  <1> DEFINE Behind == {d \in 0 .. n : n - d \in S}
  <1>1. PICK x \in S : TRUE
    OBVIOUS
  <1>2. n - x \in 0 .. n /\ n - (n - x) = x
    <2>1. x \in 0 .. n
      BY <1>1
    <2>2. QED
      BY <2>1
  <1>3. Behind # {} /\ Behind \in SUBSET Nat
    <2>1. n - x \in Behind
      BY <1>1, <1>2
    <2>2. Behind \in SUBSET Nat
      OBVIOUS
    <2>3. QED
      BY <2>1, <2>2
  <1>4. PICK d \in Behind : \A e \in Behind : d <= e
    BY <1>3, LeastExists
  <1>5. ASSUME NEW y \in S PROVE y <= n - d
    <2>1. n - y \in 0 .. n /\ n - (n - y) = y /\ y \in 0 .. n /\ d \in 0 .. n
      OBVIOUS
    <2>2. n - y \in Behind
      BY <2>1
    <2>3. d <= n - y
      BY <1>4, <2>2
    <2> HIDE DEF Behind
    <2>4. QED
      BY <2>1, <2>3
  <1>6. QED
    BY <1>5

-----------------------------------------------------------------------------
\* Pages.

LEMMA Elements ==
    ASSUME TypeOK
    PROVE  /\ MaxElement \in Nat /\ created \in Nat
           /\ collection \subseteq Element /\ collection \in SUBSET Nat
           /\ \A S \in SUBSET collection : IsFiniteSet(S) /\ Cardinality(S) \in Nat
  <1>1. MaxElement \in Nat /\ created \in 0 .. MaxElement /\ collection \subseteq 1 .. created
    BY PaginationAssumption DEF TypeOK
  <1>2. collection \subseteq 1 .. MaxElement
    BY <1>1
  <1>3. IsFiniteSet(1 .. MaxElement)
    BY <1>1, FS_Interval
  <1>4. ASSUME NEW S \in SUBSET collection PROVE IsFiniteSet(S) /\ Cardinality(S) \in Nat
    BY <1>2, <1>3, FS_Subset, FS_CardinalityType
  <1>5. QED
    BY <1>1, <1>2, <1>4 DEF Element

\* The nearer to the cursor, the fewer elements precede.
LEMMA PrecedingLess ==
    ASSUME TypeOK, NEW u \in Nat, NEW i \in collection, NEW j \in collection, i <= j
    PROVE  /\ Preceding(i, u) \in Nat /\ Preceding(j, u) \in Nat
           /\ Preceding(j, u) <= Preceding(i, u)
  <1> DEFINE Before(k) == {e \in collection : k < e /\ e < u}
  <1>1. Before(j) \subseteq Before(i) /\ Before(i) \in SUBSET collection
    BY Elements
  <1>2. IsFiniteSet(Before(i)) /\ Cardinality(Before(i)) \in Nat /\ Cardinality(Before(j)) \in Nat
    BY <1>1, Elements
  <1>3. Cardinality(Before(j)) <= Cardinality(Before(i))
    BY <1>1, <1>2, FS_Subset
  <1>4. QED
    BY <1>2, <1>3 DEF Preceding

\* A page of the cursor reaches from the cursor down to the next one.
LEMMA CursorPage ==
    ASSUME TypeOK, Paging = "cursor", NEW u \in Url, More(u)
    PROVE  /\ NextUrl(u) \in collection /\ NextUrl(u) < u
           /\ \A i \in collection : NextUrl(u) <= i /\ i < u => i \in PageAt(u)
  <1>1. u \in Nat /\ PageSize \in Nat \ {0} /\ collection \in SUBSET Nat
    BY PaginationAssumption, Elements DEF Url
  <1>2. PageAt(u) = {i \in collection : i < u /\ Preceding(i, u) < PageSize}
    BY DEF PageAt
  <1>3. PageAt(u) # {}
    <2> DEFINE Below == {i \in collection : i < u}
    <2>1. Below # {} /\ Below \in SUBSET (0 .. u)
      <3>1. \E i \in collection : i < u
        BY DEF More
      <3>2. \A i \in collection : i < u => i \in 0 .. u
        BY <1>1
      <3>3. QED
        BY <3>1, <3>2
    <2>2. PICK m \in Below : \A x \in Below : x <= m
      BY <1>1, <2>1, GreatestExists
    <2>3. m \in collection /\ m < u /\ m \in Nat
      BY <1>1, <2>2
    <2>4. ASSUME NEW e \in collection, m < e, e < u PROVE FALSE
      <3>1. e \in Below
        BY <2>4
      <3>2. e <= m /\ e \in Nat
        BY <1>1, <2>2, <3>1
      <3>3. QED
        BY <2>3, <2>4, <3>2
    <2>5. {e \in collection : m < e /\ e < u} = {}
      BY <2>4
    <2>6. Preceding(m, u) = 0
      BY <2>5, FS_EmptySet, Zenon DEF Preceding
    <2>7. m \in PageAt(u)
      BY <1>1, <1>2, <2>3, <2>6
    <2>8. QED
      BY <2>7
  <1> DEFINE m == Min(PageAt(u))
  <1>4. m \in PageAt(u) /\ PageAt(u) \in SUBSET Nat
    BY <1>1, <1>2, <1>3, LeastExists
  <1>5. m \in collection /\ m < u /\ Preceding(m, u) < PageSize
    BY <1>2, <1>4
  <1> HIDE DEF m
  <1>6. ASSUME NEW i \in collection, m <= i, i < u PROVE i \in PageAt(u)
    <2>1. /\ Preceding(m, u) \in Nat /\ Preceding(i, u) \in Nat
          /\ Preceding(i, u) <= Preceding(m, u)
      BY <1>1, <1>5, <1>6, PrecedingLess
    <2>2. Preceding(i, u) < PageSize
      BY <1>1, <1>5, <2>1
    <2>3. QED
      BY <1>2, <1>6, <2>2
  <1>7. QED
    BY <1>5, <1>6 DEF NextUrl, m

\* The pages of the numbers end before the numbers do.
LEMMA NumberPage ==
    ASSUME TypeOK, Paging = "number", NEW u \in Url, More(u)
    PROVE  NextUrl(u) \in Url
  <1>1. u \in Nat /\ PageSize \in Nat \ {0} /\ MaxElement \in Nat
    BY PaginationAssumption DEF Url
  <1>2. Cardinality(collection) \in Nat /\ Cardinality(collection) <= MaxElement
    <2>1. collection \in SUBSET (1 .. MaxElement)
      BY Elements DEF Element
    <2>2. IsFiniteSet(1 .. MaxElement) /\ Cardinality(1 .. MaxElement) = MaxElement
      BY <1>1, FS_Interval
    <2>3. QED
      BY <2>1, <2>2, FS_Subset, Elements
  <1>3. u * PageSize < Cardinality(collection)
    BY <1>1, <1>2 DEF More
  <1>4. u <= u * PageSize /\ u * PageSize \in Nat
    BY <1>1
  <1>5. u < MaxElement
    BY <1>1, <1>2, <1>3, <1>4
  <1>6. QED
    BY <1>1, <1>5 DEF NextUrl, Url

LEMMA NextIsUrl ==
    ASSUME TypeOK, NEW u \in Url, More(u)
    PROVE  NextUrl(u) \in Url
  <1>1. CASE Paging = "cursor"
    <2>1. NextUrl(u) \in 1 .. MaxElement
      BY <1>1, CursorPage, Elements DEF Element
    <2>2. QED
      BY <2>1, PaginationAssumption DEF Url
  <1>2. CASE Paging = "number"
    BY <1>2, NumberPage
  <1>3. QED
    BY <1>1, <1>2, PaginationAssumption

-----------------------------------------------------------------------------
\* One request.

\* What a request does to the walk.
LEMMA FetchIs ==
    ASSUME TypeOK, Fetch
    PROVE  LET u == walk.url
               got == walk.got \cup (PageAt(u) \ Hidden)
           IN  /\ walk.stage = "walking"
               /\ \/ walk' = [walk EXCEPT !.stage = "refused"]
                  \/ ~ More(u) /\ walk' = [walk EXCEPT !.stage = "complete", !.got = got]
                  \/ /\ More(u)
                     /\ walk' = [walk EXCEPT !.url = NextUrl(u),
                                             !.fetched = walk.fetched \cup {u}, !.got = got]
  <1> DEFINE u == walk.url
             fetched == walk.fetched \cup {u}
             got == walk.got \cup (PageAt(u) \ Hidden)
  <1>1. walk.stage = "walking"
    BY DEF Fetch
  <1>2. CASE Ends("refused")
    BY <1>1, <1>2 DEF Ends
  <1>3. ASSUME NEW link \in Links(u), ~ link.next,
               walk' = [walk EXCEPT !.stage = "complete", !.got = got]
        PROVE  ~ More(u)
    BY <1>3 DEF Links
  <1>4. ASSUME NEW link \in Links(u), NEW v \in link.target \ fetched
        PROVE  More(u) /\ v = NextUrl(u)
    BY <1>4 DEF Links
  <1>5. QED
    BY <1>1, <1>2, <1>3, <1>4 DEF Fetch

\* Types, for both ways of paging.
THEOREM PaginationTypeCorrect == Spec => []TypeOK
  <1>1. Init => TypeOK
    <2>1. FirstUrl \in Url
      BY PaginationAssumption DEF FirstUrl, Url
    <2>2. QED
      BY <2>1, PaginationAssumption DEF Init, TypeOK
  <1>2. TypeOK /\ [Next]_vars => TypeOK'
    <2> SUFFICES ASSUME TypeOK, Next PROVE TypeOK'
      BY DEF vars, TypeOK
    <2>1. CASE Fetch
      <3>1. UNCHANGED <<collection, created, stable>>
        BY <2>1 DEF Fetch
      <3>2. walk.url \in Url /\ PageAt(walk.url) \subseteq Element
        BY Elements DEF TypeOK, PageAt
      <3>3. More(walk.url) => NextUrl(walk.url) \in Url
        BY <3>2, NextIsUrl
      <3>4. walk' \in [call : {"list", "get"}, stage : {"walking", "complete", "refused"},
                       url : Url, fetched : SUBSET Url, got : SUBSET Element]
        <4> DEFINE got == walk.got \cup (PageAt(walk.url) \ Hidden)
                   fetched == walk.fetched \cup {walk.url}
        <4>1. got \in SUBSET Element /\ fetched \in SUBSET Url
          BY <3>2 DEF TypeOK
        <4>2. \/ walk' = [walk EXCEPT !.stage = "refused"]
              \/ walk' = [walk EXCEPT !.stage = "complete", !.got = got]
              \/ \E v \in Url : walk' = [walk EXCEPT !.url = v, !.fetched = fetched, !.got = got]
          BY <2>1, <3>3, FetchIs
        <4> HIDE DEF got, fetched
        <4>3. QED
          BY <4>1, <4>2 DEF TypeOK
      <3>5. QED
        BY <3>1, <3>4 DEF TypeOK
    <2>2. CASE Create
      <3>1. created \in Nat /\ MaxElement \in Nat
        BY Elements
      <3>2. created' \in 0 .. MaxElement /\ collection' \subseteq 1 .. created'
        BY <2>2, <3>1 DEF Create, TypeOK
      <3>3. QED
        BY <2>2, <3>2 DEF Create, TypeOK
    <2>3. ASSUME NEW i \in Element, Remove(i)
          PROVE  TypeOK'
      BY <2>3 DEF Remove, TypeOK
    <2>4. QED
      BY <2>1, <2>2, <2>3 DEF Next
  <1>3. QED
    BY <1>1, <1>2, PTL DEF Spec

-----------------------------------------------------------------------------
\* The cursor.

\* What existed all the while is got, down to where the walk stands.
Covered ==
    walk.stage = "walking" => \A i \in stable \ Hidden : walk.url <= i => i \in walk.got

\* Where the pages are cut by a cursor, a read that is not refused has everything that
\* existed all the while, however the collection changes meanwhile.
THEOREM CompleteOrRefusedCorrect == ASSUME Paging = "cursor" PROVE Spec => []CompleteOrRefused
  <1>1. Init => Covered /\ CompleteOrRefused
    <2>1. SUFFICES ASSUME Init PROVE Covered /\ CompleteOrRefused
      OBVIOUS
    <2>2. walk.url = MaxElement + 1 /\ walk.stage = "walking"
      BY <2>1 DEF Init, FirstUrl
    <2>3. \A i \in stable : ~ (MaxElement + 1 <= i)
      BY <2>1, PaginationAssumption DEF Init
    <2>4. QED
      BY <2>2, <2>3 DEF Covered, CompleteOrRefused
  <1>2. TypeOK /\ Covered /\ CompleteOrRefused /\ [Next]_vars => Covered' /\ CompleteOrRefused'
    <2> SUFFICES ASSUME TypeOK, Covered, CompleteOrRefused, [Next]_vars
                 PROVE  Covered' /\ CompleteOrRefused'
      OBVIOUS
    <2>1. CASE Fetch
      <3> DEFINE u == walk.url
                 got == walk.got \cup (PageAt(u) \ Hidden)
                 fetched == walk.fetched \cup {u}
      <3>1. /\ u \in Url /\ u \in Nat /\ stable' = stable /\ stable \subseteq collection
            /\ collection \in SUBSET Nat
        <4>1. u \in Url /\ stable \subseteq collection
          BY DEF TypeOK
        <4>2. u \in Nat
          BY <4>1, PaginationAssumption DEF Url
        <4>3. stable' = stable
          BY <2>1 DEF Fetch
        <4>4. QED
          BY <4>1, <4>2, <4>3, Elements
      <3>2. \A i \in stable \ Hidden : u <= i => i \in walk.got
        BY <2>1 DEF Covered, Fetch
      <3>3. CASE walk' = [walk EXCEPT !.stage = "refused"]
        <4>1. walk'.stage = "refused"
          BY <3>3 DEF TypeOK
        <4>2. QED
          BY <4>1 DEF Covered, CompleteOrRefused
      <3>4. CASE ~ More(u) /\ walk' = [walk EXCEPT !.stage = "complete", !.got = got]
        <4>1. \A i \in collection : i < u => i \in PageAt(u)
          BY <3>4 DEF More
        <4>2. ASSUME NEW i \in stable \ Hidden PROVE i \in got
          <5>1. i \in collection /\ (u <= i \/ i < u)
            BY <3>1
          <5>2. u <= i => i \in walk.got
            BY <3>2
          <5>3. QED
            BY <4>1, <5>1, <5>2
        <4> HIDE DEF got, u
        <4>3. walk'.stage = "complete" /\ walk'.got = got
          BY <3>4 DEF TypeOK
        <4>4. QED
          BY <3>1, <4>2, <4>3 DEF Covered, CompleteOrRefused
      <3>5. CASE /\ More(u)
                 /\ walk' = [walk EXCEPT !.url = NextUrl(u), !.fetched = fetched, !.got = got]
        <4>1. /\ NextUrl(u) \in collection /\ NextUrl(u) < u
              /\ \A i \in collection : NextUrl(u) <= i /\ i < u => i \in PageAt(u)
          BY <3>1, <3>5, CursorPage
        <4>2. ASSUME NEW i \in stable \ Hidden, NextUrl(u) <= i PROVE i \in got
          <5>1. i \in collection /\ (u <= i \/ i < u)
            BY <3>1
          <5>2. u <= i => i \in walk.got
            BY <3>2
          <5>3. i < u => i \in PageAt(u)
            BY <4>1, <4>2, <5>1
          <5>4. QED
            BY <5>1, <5>2, <5>3
        <4> HIDE DEF got, fetched
        <4>3. walk'.url = NextUrl(u) /\ walk'.got = got /\ walk'.stage = walk.stage
          BY <3>5 DEF TypeOK
        <4>4. walk.stage = "walking"
          BY <2>1 DEF Fetch
        <4>5. QED
          BY <3>1, <4>2, <4>3, <4>4 DEF Covered, CompleteOrRefused
      <3>6. QED
        BY <2>1, <3>3, <3>4, <3>5, FetchIs
    <2>2. CASE Create \/ (\E i \in Element : Remove(i)) \/ UNCHANGED vars
      <3>1. walk' = walk /\ stable' \subseteq stable
        BY <2>2 DEF Create, Remove, vars
      <3>2. QED
        BY <3>1 DEF Covered, CompleteOrRefused
    <2>3. QED
      BY <2>1, <2>2 DEF Next
  <1>3. QED
    BY <1>1, <1>2, PaginationTypeCorrect, PTL DEF Spec
=============================================================================
