---------------------------- MODULE ControlsProofs ----------------------------
(* Theorems about Controls, for any table, families, secrets and bounds.       *)
EXTENDS Controls, FiniteSetTheorems, FunctionTheorems, TLAPS

-----------------------------------------------------------------------------
\* Positions and resources.

\* What is asserted, by position: rows, and after them the families.
Judged == Asserted \cup (Len(Row) + 1 .. Len(Row) + Len(Families))

ResourceOf(q) ==
    IF q <= Len(Row) THEN ControlResource(Row[q]) ELSE FamilyResource(Families[q - Len(Row)])

LEMMA Positions ==
    /\ Len(Row) \in Nat /\ Len(Families) \in Nat
    /\ DOMAIN Row = 1 .. Len(Row) /\ DOMAIN Families = 1 .. Len(Families)
    /\ Asserted \subseteq 1 .. Len(Row)
    /\ Judged \subseteq 1 .. Len(Row) + Len(Families)
  <1>1. Len(Row) \in Nat /\ DOMAIN Row = 1 .. Len(Row)
    BY RowAssumption
  <1>2. Len(Families) \in Nat /\ DOMAIN Families = 1 .. Len(Families)
    BY ControlsAssumption
  <1>3. Asserted \subseteq 1 .. Len(Row)
    BY <1>1 DEF Asserted
  <1>4. ASSUME NEW q \in Judged PROVE q \in 1 .. Len(Row) + Len(Families)
    <2>1. CASE q \in Asserted
      BY <1>1, <1>2, <1>3, <2>1
    <2>2. CASE q \in Len(Row) + 1 .. Len(Row) + Len(Families)
      BY <1>1, <1>2, <2>2
    <2>3. QED
      BY <2>1, <2>2 DEF Judged
  <1>5. QED
    BY <1>1, <1>2, <1>3, <1>4

LEMMA FamilyNames ==
    \A k \in DOMAIN Families : Families[k] \in {"visibility", "repositories", "undeclared"}
  <1>1. Families \in [1 .. Len(Families) -> {"visibility", "repositories", "undeclared"}]
    BY ControlsAssumption
  <1>2. QED
    BY <1>1, Positions

LEMMA ResourcesAre == Resource = {ResourceOf(q) : q \in Judged}
  <1>1. \A k \in Asserted : k \in Judged /\ ResourceOf(k) = ControlResource(Row[k])
    BY Positions DEF Judged, ResourceOf
  <1>2. \A k \in DOMAIN Families :
           /\ Len(Row) + k \in Judged
           /\ ResourceOf(Len(Row) + k) = FamilyResource(Families[k])
    <2>1. SUFFICES ASSUME NEW k \in 1 .. Len(Families)
                   PROVE  /\ Len(Row) + k \in Judged
                          /\ ResourceOf(Len(Row) + k) = FamilyResource(Families[k])
      BY Positions
    <2>2. ~ (Len(Row) + k <= Len(Row)) /\ (Len(Row) + k) - Len(Row) = k
      BY Positions
    <2>3. Len(Row) + k \in Judged
      BY Positions DEF Judged
    <2>4. QED
      BY <2>2, <2>3 DEF ResourceOf
  <1>3. \A q \in Judged : q \in Asserted \/ \E k \in DOMAIN Families : q = Len(Row) + k
    <2>1. SUFFICES ASSUME NEW q \in Len(Row) + 1 .. Len(Row) + Len(Families)
                   PROVE  \E k \in 1 .. Len(Families) : q = Len(Row) + k
      BY Positions DEF Judged
    <2>2. q - Len(Row) \in 1 .. Len(Families) /\ q = Len(Row) + (q - Len(Row))
      BY Positions
    <2>3. QED
      BY <2>2
  <1>4. Resource \subseteq {ResourceOf(q) : q \in Judged}
    BY <1>1, <1>2 DEF Resource
  <1>5. ASSUME NEW q \in Judged PROVE ResourceOf(q) \in Resource
    BY <1>1, <1>2, <1>3 DEF Resource
  <1>6. QED
    BY <1>4, <1>5

\* Rows that are told apart have issues of their own, none of them a family's.
LEMMA RowsApart ==
    ASSUME Identified
    PROVE  /\ \A k, l \in Asserted : ControlResource(Row[k]) = ControlResource(Row[l]) => k = l
           /\ \A k \in Asserted, family \in {"visibility", "repositories", "undeclared"} :
                 ControlResource(Row[k]) # FamilyResource(family)
  <1>1. ASSUME NEW k \in Asserted, NEW l \in Asserted,
               ControlResource(Row[k]) = ControlResource(Row[l])
        PROVE  k = l
    <2>1. /\ Row[k].key = Row[l].key
          /\ (IF Row[k].scope = "repo" THEN Row[k].repository ELSE "org")
                = IF Row[l].scope = "repo" THEN Row[l].repository ELSE "org"
      BY <1>1 DEF ControlResource
    <2>2. Row[k].scope = "repo" <=> Row[l].scope = "repo"
      BY <2>1 DEF Identified
    <2>3. QED
      BY <2>1, <2>2 DEF Identified
  <1>2. ASSUME NEW k \in Asserted, NEW family \in {"visibility", "repositories", "undeclared"},
               ControlResource(Row[k]) = FamilyResource(family)
        PROVE  FALSE
    <2>1. /\ Row[k].key = family
          /\ (IF Row[k].scope = "repo" THEN Row[k].repository ELSE "org") = "org"
      BY <1>2 DEF ControlResource, FamilyResource
    <2>2. QED
      BY <2>1 DEF Identified
  <1>3. QED
    BY <1>1, <1>2

\* Told apart, the resources are one for each position.
LEMMA OnePosition ==
    ASSUME Identified, NEW p \in Judged, NEW q \in Judged, ResourceOf(p) = ResourceOf(q)
    PROVE  p = q
  <1>1. /\ Len(Row) \in Nat /\ Len(Families) \in Nat /\ p \in Nat /\ q \in Nat
    BY Positions
  <1>2. \A r \in Judged :
          \/ r \in Asserted /\ r <= Len(Row) /\ ResourceOf(r) = ControlResource(Row[r])
          \/ /\ ~ (r <= Len(Row)) /\ r - Len(Row) \in DOMAIN Families
             /\ ResourceOf(r) = FamilyResource(Families[r - Len(Row)])
    BY Positions DEF Judged, ResourceOf
  <1>3. CASE p \in Asserted /\ q \in Asserted
    BY <1>3, Positions, RowsApart DEF ResourceOf
  <1>4. CASE p \notin Asserted /\ q \notin Asserted
    <2> DEFINE k == p - Len(Row)
               l == q - Len(Row)
    <2>1. /\ k \in DOMAIN Families /\ l \in DOMAIN Families
          /\ FamilyResource(Families[k]) = FamilyResource(Families[l])
      BY <1>2, <1>4
    <2>2. Families[k] = Families[l]
      BY <2>1 DEF FamilyResource
    <2>3. k = l
      BY <2>1, <2>2 DEF Identified
    <2>4. QED
      BY <1>1, <2>3
  <1>5. CASE (p \in Asserted) # (q \in Asserted)
    <2>1. PICK r \in Asserted, s \in Judged : s \notin Asserted /\ ResourceOf(r) = ResourceOf(s)
      BY <1>5
    <2>2. r \in Judged
      BY DEF Judged
    <2>3. r <= Len(Row) /\ r \in Nat
      BY Positions
    <2>4. ResourceOf(r) = ControlResource(Row[r])
      BY <2>3 DEF ResourceOf
    <2>5. PICK k \in DOMAIN Families : ResourceOf(s) = FamilyResource(Families[k])
      BY <1>2, <2>1
    <2>6. QED
      BY <2>1, <2>4, <2>5, FamilyNames, RowsApart
  <1>6. QED
    BY <1>3, <1>4, <1>5

\* There are finitely many of them, so that their issues can be numbered.
LEMMA Numbered ==
    /\ IsFiniteSet(Endpoint) /\ Cardinality(Resource) \in Nat
    /\ Numbering \in [Resource -> 1 .. Cardinality(Resource)]
  <1>1. IsFiniteSet(Asserted)
    <2>1. IsFiniteSet(1 .. Len(Row))
      BY Positions, FS_Interval
    <2>2. QED
      BY <2>1, Positions, FS_Subset
  <1>2. IsFiniteSet(Judged)
    <2>1. IsFiniteSet(1 .. Len(Row) + Len(Families))
      BY Positions, FS_Interval
    <2>2. QED
      BY <2>1, Positions, FS_Subset
  <1>3. IsFiniteSet(Endpoint)
    <2> DEFINE f == [k \in Asserted |-> Row[k].endpoint]
    <2>1. f \in Surjection(Asserted, Endpoint)
      BY DEF Surjection, Endpoint
    <2>2. QED
      BY <1>1, <2>1, FS_Surjection
  <1>4. IsFiniteSet(Resource)
    <2> DEFINE f == [q \in Judged |-> ResourceOf(q)]
    <2>1. f \in Surjection(Judged, Resource)
      BY ResourcesAre DEF Surjection
    <2>2. QED
      BY <1>2, <2>1, FS_Surjection
  <1>5. Cardinality(Resource) \in Nat /\ ExistsBijection(1 .. Cardinality(Resource), Resource)
    BY <1>4, FS_CardinalityType
  <1>6. PICK n \in Bijection(Resource, 1 .. Cardinality(Resource)) : TRUE
    <2>1. ExistsBijection(Resource, 1 .. Cardinality(Resource))
      BY <1>5, Fun_ExistsBijSymmetric, Zenon
    <2>2. QED
      BY <2>1 DEF ExistsBijection
  <1>7. /\ n \in [Resource -> 1 .. Cardinality(Resource)]
        /\ \A f, g \in Resource : n[f] = n[g] => f = g
    BY <1>6 DEF Bijection, Injection, IsInjective
  <1>8. QED
    BY <1>3, <1>5, <1>7 DEF Numbering

-----------------------------------------------------------------------------
\* The course of a run.

\* The list is read when the rows are done; a run without it is over.
Lists ==
    /\ listing.state = "unread" => pos <= Len(Row) + 1
    /\ listing.state = "failed" => Over

\* Where a family is evaluated, its resource is the one at pos.
LEMMA AtFamilyPosition ==
    ASSUME TypeOK, AtFamily
    PROVE  /\ pos \in Judged /\ pos > Len(Row) /\ pos <= Len(Row) + Len(Families)
           /\ ResourceOf(pos) = FamilyResource(Family)
  <1>1. pos \in Nat /\ pos - Len(Row) \in 1 .. Len(Families)
    BY Positions DEF TypeOK, AtFamily
  <1>2. pos > Len(Row) /\ pos <= Len(Row) + Len(Families) /\ ~ (pos <= Len(Row))
    BY <1>1, Positions
  <1>3. pos \in Judged
    BY <1>1, <1>2, Positions DEF Judged
  <1>4. QED
    BY <1>2, <1>3 DEF ResourceOf, Family

LEMMA AtRowPosition ==
    ASSUME TypeOK, pos \in DOMAIN Row
    PROVE  /\ pos \in 1 .. Len(Row)
           /\ pos \in Asserted <=> pos \in Judged
           /\ pos \in Asserted => ResourceOf(pos) = ControlResource(Row[pos])
  <1>1. pos \in 1 .. Len(Row)
    BY Positions
  <1>2. pos \notin Len(Row) + 1 .. Len(Row) + Len(Families)
    BY <1>1, Positions
  <1>3. QED
    BY <1>1, <1>2, Positions DEF Judged, ResourceOf

LEMMA Judgements == \A row, value : Judge(row, value) \in Bucket
  BY DEF Judge, Bucket

\* A step judges what is at pos, or passes over a row, or gives the families up, or
\* leaves the verdicts as they are.
LEMMA Course ==
    ASSUME TypeOK, Next
    PROVE  /\ issues' = issues
           /\ \/ pos' = pos /\ verdicts' = verdicts
              \/ /\ pos \in Judged /\ pos' = pos + 1
                 /\ \E b \in Bucket : verdicts' = [verdicts EXCEPT ![b] = @ \cup {ResourceOf(pos)}]
              \/ /\ pos \in DOMAIN Row \ Asserted /\ pos' = pos + 1
                 /\ verdicts' = verdicts
              \/ /\ AtFamily /\ listing.state = "unread" /\ listing'.state = "failed"
                 /\ pos' = Len(Row) + Len(Families) + 1
                 /\ verdicts' = [verdicts EXCEPT !["unresolved"] =
                       @ \cup {FamilyResource(Families[k]) : k \in DOMAIN Families}]
  <1>1. CASE Evaluate
    <2>1. pos \in Asserted /\ pos \in DOMAIN Row
      BY <1>1 DEF Evaluate, Asserted
    <2>2. ResourceOf(pos) = ControlResource(Row[pos]) /\ pos \in Judged
      BY <2>1, AtRowPosition
    <2>3. \E b \in Bucket : Put(b, ControlResource(Row[pos]))
      BY <1>1, Judgements DEF Evaluate, Bucket
    <2>4. QED
      BY <1>1, <2>2, <2>3 DEF Evaluate, Put
  <1>2. CASE Skip
    BY <1>2 DEF Skip
  <1>3. CASE ListSecrets
    BY <1>3 DEF ListSecrets
  <1>4. CASE CompareVisibility \/ CompareReaders \/ CompareUndeclared
    <2>1. AtFamily /\ \E offends \in BOOLEAN : Report(offends)
      BY <1>4 DEF CompareVisibility, CompareReaders, CompareUndeclared, Listed
    <2>2. PICK offends \in BOOLEAN : Report(offends)
      BY <2>1
    <2>3. \E b \in Bucket : Put(b, FamilyResource(Family))
      BY <2>2 DEF Report, Bucket
    <2>4. issues' = issues /\ pos' = pos + 1
      BY <2>2 DEF Report
    <2>5. QED
      BY <2>1, <2>3, <2>4, AtFamilyPosition DEF Put
  <1>5. CASE ReadReaders
    <2>1. AtFamily /\ issues' = issues
      BY <1>5 DEF ReadReaders, Listed
    <2>2. \/ pos' = pos /\ verdicts' = verdicts
          \/ pos' = pos + 1 /\ Put("unresolved", FamilyResource(Family))
      BY <1>5 DEF ReadReaders, Listed
    <2>3. QED
      BY <2>1, <2>2, AtFamilyPosition DEF Put, Bucket
  <1>6. CASE LiveChange
    BY <1>6 DEF LiveChange
  <1>7. QED
    BY <1>1, <1>2, <1>3, <1>4, <1>5, <1>6 DEF Next

-----------------------------------------------------------------------------
\* Types.

LEMMA VerdictsTyped ==
    ASSUME TypeOK, Next
    PROVE  /\ pos' \in 1 .. Len(Row) + Len(Families) + 1
           /\ verdicts' \in [Bucket -> SUBSET Resource]
  <1>1. \A q \in Judged : ResourceOf(q) \in Resource /\ q \in 1 .. Len(Row) + Len(Families)
    BY ResourcesAre, Positions
  <1>2. \A k \in DOMAIN Families : FamilyResource(Families[k]) \in Resource
    BY DEF Resource
  <1>3. DOMAIN Row \subseteq 1 .. Len(Row) + Len(Families)
    BY Positions
  <1>4. pos \in 1 .. Len(Row) + Len(Families) + 1 /\ verdicts \in [Bucket -> SUBSET Resource]
    BY DEF TypeOK
  <1>5. CASE pos' = pos /\ verdicts' = verdicts
    BY <1>4, <1>5
  <1>6. CASE /\ pos \in Judged /\ pos' = pos + 1
             /\ \E b \in Bucket : verdicts' = [verdicts EXCEPT ![b] = @ \cup {ResourceOf(pos)}]
    <2>1. pos' \in 1 .. Len(Row) + Len(Families) + 1
      BY <1>1, <1>6, Positions
    <2>2. QED
      BY <1>1, <1>4, <1>6, <2>1
  <1>7. CASE pos \in DOMAIN Row \ Asserted /\ pos' = pos + 1 /\ verdicts' = verdicts
    BY <1>3, <1>4, <1>7, Positions
  <1>8. CASE /\ pos' = Len(Row) + Len(Families) + 1
             /\ verdicts' = [verdicts EXCEPT !["unresolved"] =
                   @ \cup {FamilyResource(Families[k]) : k \in DOMAIN Families}]
    <2> DEFINE Given == {FamilyResource(Families[k]) : k \in DOMAIN Families}
    <2>1. Given \subseteq Resource
      BY <1>2
    <2>2. verdicts' = [verdicts EXCEPT !["unresolved"] = @ \cup Given]
      BY <1>8
    <2> HIDE DEF Given
    <2>3. verdicts' \in [Bucket -> SUBSET Resource]
      BY <1>4, <2>1, <2>2
    <2>4. QED
      BY <1>8, <2>3, Positions
  <1>9. QED
    BY Course, <1>5, <1>6, <1>7, <1>8

LEMMA CacheTyped ==
    ASSUME TypeOK, NEW endpoint \in Endpoint, Read(endpoint)
    PROVE  cache' \in [Endpoint -> Reply] /\ spent' \in [{"live", "fault"} -> Nat]
  <1>1. [state |-> "failed"] \in Reply /\ [state |-> "read", doc |-> field] \in Reply
    BY DEF TypeOK, Reply
  <1>2. cache \in [Endpoint -> Reply] /\ spent \in [{"live", "fault"} -> Nat]
    BY DEF TypeOK
  <1>3. CASE UNCHANGED <<cache, spent>>
    BY <1>2, <1>3
  <1>4. CASE /\ cache' = [cache EXCEPT ![endpoint] = [state |-> "read", doc |-> field]]
             /\ UNCHANGED spent
    BY <1>1, <1>2, <1>4
  <1>5. CASE /\ Spend("fault", MaxFault)
             /\ cache' = [cache EXCEPT ![endpoint] = [state |-> "failed"]]
    <2>1. cache' \in [Endpoint -> Reply]
      BY <1>1, <1>2, <1>5
    <2>2. spent' \in [{"live", "fault"} -> Nat]
      BY <1>2, <1>5 DEF Spend
    <2>3. QED
      BY <2>1, <2>2
  <1>6. QED
    BY <1>3, <1>4, <1>5 DEF Read

\* Types, for any table, families, secrets and bounds; that a verdict is never one
\* of an unassertable row included.
THEOREM ControlsTypeCorrect == Spec => []TypeOK
  <1>1. Init => TypeOK
    <2> SUFFICES ASSUME Init PROVE TypeOK
      OBVIOUS
    <2>1. issues \subseteq Drift!ListedIssue(1 .. Cardinality(Resource))
      <3>1. PICK known \in SUBSET Resource :
              issues = {[number |-> Numbering[f], fp |-> f,
                         labels |-> Drift!LabelsOf("control")] : f \in known}
        BY DEF Init
      <3>2. \A f \in known : Numbering[f] \in 1 .. Cardinality(Resource)
        BY Numbered
      <3>3. Drift!LabelsOf("control") \subseteq Drift!Label
        BY DEF Drift!LabelsOf, Drift!Label
      <3>4. QED
        BY <3>1, <3>2, <3>3 DEF Drift!ListedIssue
    <2>2. pos \in 1 .. Len(Row) + Len(Families) + 1
      BY Positions DEF Init
    <2>3. cache \in [Endpoint -> Reply] /\ listing \in Listing
      BY DEF Init, Reply, Listing
    <2>4. QED
      BY <2>1, <2>2, <2>3 DEF Init, TypeOK, Value, Bucket
  <1>2. TypeOK /\ [Next]_vars => TypeOK'
    <2> SUFFICES ASSUME TypeOK, Next PROVE TypeOK'
      BY DEF vars, live, TypeOK
    <2>1. /\ pos' \in 1 .. Len(Row) + Len(Families) + 1
          /\ verdicts' \in [Bucket -> SUBSET Resource]
          /\ issues' = issues
      BY VerdictsTyped, Course
    <2>2. CASE Evaluate
      <3>1. Row[pos].endpoint \in Endpoint
        BY <2>2 DEF Evaluate, Endpoint
      <3>2. cache' \in [Endpoint -> Reply] /\ spent' \in [{"live", "fault"} -> Nat]
        BY <2>2, <3>1, CacheTyped DEF Evaluate
      <3>3. QED
        BY <2>1, <2>2, <3>2 DEF TypeOK, Evaluate, live
    <2>3. CASE Skip
      BY <2>1, <2>3 DEF TypeOK, Skip, live
    <2>4. CASE ListSecrets
      <3>1. listing' \in Listing
        BY <2>4 DEF ListSecrets, TypeOK, Listing
      <3>2. spent' \in [{"live", "fault"} -> Nat]
        BY <2>4 DEF ListSecrets, TypeOK, Spend
      <3>3. QED
        BY <2>1, <2>4, <3>1, <3>2 DEF TypeOK, ListSecrets, live
    <2>5. CASE CompareVisibility \/ CompareReaders \/ CompareUndeclared
      BY <2>1, <2>5
         DEF TypeOK, CompareVisibility, CompareReaders, CompareUndeclared, Report, live
    <2>6. CASE ReadReaders
      <3>1. spent' \in [{"live", "fault"} -> Nat]
        BY <2>6 DEF ReadReaders, TypeOK, Spend
      <3>2. compared' \in [Declared -> {"unread", "same", "differs"}]
        BY <2>6 DEF ReadReaders, TypeOK, Comparable
      <3>3. QED
        BY <2>1, <2>6, <3>1, <3>2 DEF TypeOK, ReadReaders, live
    <2>7. CASE LiveChange
      <3>1. spent' \in [{"live", "fault"} -> Nat]
        BY <2>7 DEF LiveChange, TypeOK, Spend
      <3>2. /\ field' \in [Asserted -> Value] /\ readers' \subseteq Declared
            /\ visibility' \in [Secret -> {"absent", "selected", "wider"}]
        BY <2>7 DEF LiveChange, TypeOK
      <3>3. QED
        BY <2>1, <2>7, <3>1, <3>2 DEF TypeOK, LiveChange
    <2>8. QED
      BY <2>2, <2>3, <2>4, <2>5, <2>6, <2>7 DEF Next
  <1>3. QED
    BY <1>1, <1>2, PTL DEF Spec

-----------------------------------------------------------------------------
\* One verdict for each.

\* What lies behind pos has one verdict, and what lies ahead has none yet.
Verdicted ==
    \A q \in Judged :
        IF q < pos THEN \E b \in Bucket : \A c \in Bucket : ResourceOf(q) \in verdicts[c] <=> c = b
        ELSE \A c \in Bucket : ResourceOf(q) \notin verdicts[c]

LEMMA ListsInvariant == TypeOK /\ Lists /\ [Next]_vars => Lists'
  <1> SUFFICES ASSUME TypeOK, Lists, [Next]_vars PROVE Lists'
    OBVIOUS
  <1>1. /\ pos \in Nat /\ Len(Row) \in Nat /\ Len(Families) \in Nat
        /\ pos <= Len(Row) + Len(Families) + 1
    BY Positions DEF TypeOK
  <1>2. CASE Evaluate \/ Skip
    <2>1. pos <= Len(Row) /\ pos' = pos + 1 /\ listing' = listing
      BY <1>2, AtRowPosition DEF Evaluate, Skip, Asserted
    <2>2. pos' <= Len(Row) + 1 /\ listing.state # "failed"
      BY <1>1, <2>1 DEF Lists, Over
    <2>3. QED
      BY <2>1, <2>2 DEF Lists
  <1>3. CASE ListSecrets
    BY <1>3 DEF ListSecrets, Lists, Over
  <1>4. CASE CompareVisibility \/ CompareReaders \/ CompareUndeclared \/ ReadReaders
    BY <1>4 DEF CompareVisibility, CompareReaders, CompareUndeclared, ReadReaders, Report,
                Listed, Lists
  <1>5. CASE LiveChange \/ UNCHANGED vars
    BY <1>5 DEF LiveChange, vars, Lists, Over
  <1>6. QED
    BY <1>2, <1>3, <1>4, <1>5 DEF Next

LEMMA Judging ==
    ASSUME Identified, TypeOK, Verdicted, pos \in Judged, NEW b \in Bucket, pos' = pos + 1,
           verdicts' = [verdicts EXCEPT ![b] = @ \cup {ResourceOf(pos)}]
    PROVE  Verdicted'
  <1>1. SUFFICES ASSUME NEW q \in Judged
                 PROVE  IF q < pos'
                        THEN \E d \in Bucket : \A c \in Bucket : ResourceOf(q) \in verdicts'[c] <=> c = d
                        ELSE \A c \in Bucket : ResourceOf(q) \notin verdicts'[c]
    BY DEF Verdicted
  <1>2. pos \in Nat /\ q \in Nat
    BY Positions DEF TypeOK
  <1>3. \A c \in Bucket : verdicts'[c] = verdicts[c] \cup (IF c = b THEN {ResourceOf(pos)} ELSE {})
    BY DEF TypeOK
  <1>4. CASE q = pos
    <2>1. \A c \in Bucket : ResourceOf(q) \notin verdicts[c]
      BY <1>2, <1>4 DEF Verdicted
    <2>2. \A c \in Bucket : ResourceOf(q) \in verdicts'[c] <=> c = b
      BY <1>3, <1>4, <2>1
    <2>3. QED
      BY <1>2, <1>4, <2>2
  <1>5. CASE q # pos
    <2>1. ResourceOf(q) # ResourceOf(pos)
      BY <1>5, OnePosition
    <2>2. \A c \in Bucket : ResourceOf(q) \in verdicts'[c] <=> ResourceOf(q) \in verdicts[c]
      BY <1>3, <2>1
    <2>3. q < pos' <=> q < pos
      BY <1>2, <1>5
    <2>4. QED
      BY <2>2, <2>3 DEF Verdicted
  <1>6. QED
    BY <1>4, <1>5

\* Without the list, what lies ahead is the families, and all of them.
LEMMA GivingUp ==
    ASSUME Identified, TypeOK, Verdicted, Lists, AtFamily, listing.state = "unread",
           pos' = Len(Row) + Len(Families) + 1,
           verdicts' = [verdicts EXCEPT !["unresolved"] =
                          @ \cup {FamilyResource(Families[k]) : k \in DOMAIN Families}]
    PROVE  Verdicted'
  <1> DEFINE Given == {FamilyResource(Families[k]) : k \in DOMAIN Families}
  <1>1. SUFFICES ASSUME NEW q \in Judged
                 PROVE  /\ q < pos'
                        /\ \E d \in Bucket : \A c \in Bucket : ResourceOf(q) \in verdicts'[c] <=> c = d
    BY DEF Verdicted
  <1>2. pos = Len(Row) + 1
    BY AtFamilyPosition, Positions DEF TypeOK, Lists
  <1>3. \A c \in Bucket : verdicts'[c] = verdicts[c] \cup (IF c = "unresolved" THEN Given ELSE {})
    BY DEF TypeOK, Bucket
  <1>4. q \in Nat /\ q < pos'
    BY Positions
  <1>5. CASE q \in Asserted
    <2>1. q < pos /\ ResourceOf(q) = ControlResource(Row[q])
      BY <1>2, <1>5, Positions DEF ResourceOf
    <2>2. ResourceOf(q) \notin Given
      BY <1>5, <2>1, FamilyNames, RowsApart
    <2>3. \E d \in Bucket : \A c \in Bucket : ResourceOf(q) \in verdicts[c] <=> c = d
      BY <2>1 DEF Verdicted
    <2>4. QED
      BY <1>3, <1>4, <2>2, <2>3
  <1>6. CASE q \notin Asserted
    <2>1. ~ (q < pos) /\ q - Len(Row) \in DOMAIN Families /\ ~ (q <= Len(Row))
      BY <1>2, <1>6, Positions DEF Judged
    <2>2. ResourceOf(q) \in Given
      BY <2>1 DEF ResourceOf
    <2>3. \A c \in Bucket : ResourceOf(q) \notin verdicts[c]
      BY <2>1 DEF Verdicted
    <2>4. \A c \in Bucket : ResourceOf(q) \in verdicts'[c] <=> c = "unresolved"
      BY <1>3, <2>2, <2>3
    <2>5. QED
      BY <1>4, <2>4 DEF Bucket
  <1>7. QED
    BY <1>5, <1>6

LEMMA VerdictedInvariant ==
    ASSUME Identified, TypeOK, Lists, Verdicted, [Next]_vars
    PROVE  Verdicted'
  <1>1. CASE pos' = pos /\ verdicts' = verdicts
    BY <1>1 DEF Verdicted
  <1>2. CASE /\ pos \in Judged /\ pos' = pos + 1
             /\ \E b \in Bucket : verdicts' = [verdicts EXCEPT ![b] = @ \cup {ResourceOf(pos)}]
    BY <1>2, Judging
  <1>3. CASE pos \in DOMAIN Row \ Asserted /\ pos' = pos + 1 /\ verdicts' = verdicts
    <2>1. pos \notin Judged /\ pos \in Nat /\ \A q \in Judged : q \in Nat
      BY <1>3, AtRowPosition, Positions DEF TypeOK
    <2>2. \A q \in Judged : q < pos' <=> q < pos
      BY <1>3, <2>1
    <2>3. QED
      BY <1>3, <2>2 DEF Verdicted
  <1>4. CASE /\ AtFamily /\ listing.state = "unread"
             /\ pos' = Len(Row) + Len(Families) + 1
             /\ verdicts' = [verdicts EXCEPT !["unresolved"] =
                   @ \cup {FamilyResource(Families[k]) : k \in DOMAIN Families}]
    BY <1>4, GivingUp
  <1>5. QED
    BY <1>1, <1>2, <1>3, <1>4, Course DEF vars

\* The invariant of the verdicts, with the types.
VerdictsInv == TypeOK /\ Lists /\ Verdicted

LEMMA VerdictsInvariant == ASSUME Identified PROVE Spec => []VerdictsInv
  <1>1. Init => Lists /\ Verdicted
    <2>1. SUFFICES ASSUME Init PROVE Lists /\ Verdicted
      OBVIOUS
    <2>2. Lists
      BY <2>1, Positions DEF Init, Lists
    <2>3. \A q \in Judged : ~ (q < pos)
      BY <2>1, Positions DEF Init
    <2>4. QED
      BY <2>1, <2>2, <2>3 DEF Init, Verdicted
  <1>2. TypeOK /\ Lists /\ Verdicted /\ [Next]_vars => Lists' /\ Verdicted'
    BY ListsInvariant, VerdictedInvariant
  <1>3. QED
    BY <1>1, <1>2, ControlsTypeCorrect, PTL DEF Spec, VerdictsInv

\* At the end of a run everything that is asserted is in exactly one bucket, when the
\* table tells its rows apart.
THEOREM OneVerdictCorrect == ASSUME Identified PROVE Spec => []OneVerdict
  <1>1. VerdictsInv => OneVerdict
    <2>1. SUFFICES ASSUME VerdictsInv, Over, NEW f \in Resource
                   PROVE  \E b \in Bucket : \A c \in Bucket : f \in verdicts[c] <=> c = b
      BY DEF OneVerdict
    <2>2. PICK q \in Judged : f = ResourceOf(q)
      BY ResourcesAre
    <2>3. q < pos
      BY <2>1, Positions DEF Over
    <2>4. QED
      BY <2>1, <2>2, <2>3 DEF VerdictsInv, Verdicted
  <1>2. QED
    BY <1>1, VerdictsInvariant, PTL

-----------------------------------------------------------------------------
\* One reading of each endpoint.

\* A row is left behind only with an answer.
Answered == \A k \in Asserted : k < pos => cache[Row[k].endpoint].state # "unread"

\* An answer stays.
LEMMA AnswersStay ==
    ASSUME TypeOK, Next, NEW e \in Endpoint, cache[e].state # "unread"
    PROVE  cache'[e] = cache[e]
  <1>1. CASE Evaluate
    <2> DEFINE d == Row[pos].endpoint
    <2>1. CASE cache' = cache
      BY <2>1
    <2>2. CASE cache[d].state = "unread"
      <3>1. d # e
        BY <2>2
      <3>2. QED
        BY <1>1, <2>2, <3>1 DEF Evaluate, Read, TypeOK
    <2>3. QED
      BY <1>1, <2>1, <2>2 DEF Evaluate, Read
  <1>2. CASE Skip \/ ListSecrets \/ CompareVisibility \/ CompareReaders \/ CompareUndeclared
               \/ ReadReaders \/ LiveChange
    BY <1>2 DEF Skip, ListSecrets, CompareVisibility, CompareReaders, CompareUndeclared,
                Report, ReadReaders, LiveChange
  <1>3. QED
    BY <1>1, <1>2 DEF Next

\* So does a verdict.
LEMMA VerdictsStay ==
    ASSUME TypeOK, Next
    PROVE  \A b \in Bucket : verdicts[b] \subseteq verdicts'[b]
  <1>1. SUFFICES ASSUME NEW c \in Bucket PROVE verdicts[c] \subseteq verdicts'[c]
    OBVIOUS
  <1>2. verdicts \in [Bucket -> SUBSET Resource]
    BY DEF TypeOK
  <1>3. CASE verdicts' = verdicts
    BY <1>3
  <1>4. CASE \E b \in Bucket : verdicts' = [verdicts EXCEPT ![b] = @ \cup {ResourceOf(pos)}]
    BY <1>2, <1>4
  <1>5. CASE verdicts' = [verdicts EXCEPT !["unresolved"] =
                            @ \cup {FamilyResource(Families[k]) : k \in DOMAIN Families}]
    BY <1>2, <1>5
  <1>6. QED
    BY Course, <1>3, <1>4, <1>5

\* Beyond the rows no row is left to be passed.
LEMMA RowsPassed ==
    ASSUME TypeOK, Lists, Next, ~ Evaluate
    PROVE  \A k \in Asserted : k < pos' => k < pos
  <1>1. SUFFICES ASSUME NEW k \in Asserted, k < pos' PROVE k < pos
    OBVIOUS
  <1>2. /\ pos \in Nat /\ k \in Nat /\ Len(Row) \in Nat /\ Len(Families) \in Nat
        /\ k <= Len(Row)
    BY Positions DEF TypeOK
  <1>3. CASE AtFamily
    BY <1>2, <1>3, AtFamilyPosition
  <1>4. CASE Skip
    <2>1. pos # k /\ pos' = pos + 1
      BY <1>4 DEF Skip
    <2>2. QED
      BY <1>1, <1>2, <2>1
  <1>5. CASE LiveChange
    BY <1>1, <1>5 DEF LiveChange
  <1>6. QED
    BY <1>3, <1>4, <1>5 DEF Next, ListSecrets, CompareVisibility, ReadReaders, CompareReaders,
                            CompareUndeclared, Listed

\* The invariant of the readings, with the types.
ReadingsInv == TypeOK /\ Lists /\ Answered /\ OneReading

LEMMA ReadingsStep == ReadingsInv /\ [Next]_vars => Answered' /\ OneReading'
  <1> DEFINE BucketOf(k, reply) ==
               IF reply.state = "failed" THEN "unresolved" ELSE Judge(Row[k], reply.doc[k])
             Read1(k) == cache[Row[k].endpoint]
  <1> SUFFICES ASSUME ReadingsInv, Next
               PROVE  Answered' /\ OneReading'
    BY DEF ReadingsInv, Answered, OneReading, vars
  <1>1. SUFFICES ASSUME NEW k \in Asserted, k < pos'
                 PROVE  /\ cache'[Row[k].endpoint].state # "unread"
                        /\ ControlResource(Row[k]) \in verdicts'[BucketOf(k, cache'[Row[k].endpoint])]
    BY DEF Answered, OneReading
  <1>2. Row[k].endpoint \in Endpoint
    BY DEF Endpoint
  <1>3. CASE k < pos
    <2>1. /\ cache[Row[k].endpoint].state # "unread"
          /\ ControlResource(Row[k]) \in verdicts[BucketOf(k, cache[Row[k].endpoint])]
      BY <1>3 DEF ReadingsInv, Answered, OneReading
    <2>2. cache'[Row[k].endpoint] = cache[Row[k].endpoint]
      BY <1>2, <2>1, AnswersStay DEF ReadingsInv
    <2>3. BucketOf(k, cache[Row[k].endpoint]) \in Bucket
      BY Judgements DEF Bucket
    <2>4. QED
      BY <2>1, <2>2, <2>3, VerdictsStay DEF ReadingsInv
  <1>4. CASE ~ (k < pos)
    <2>1. Evaluate
      BY <1>1, <1>4, RowsPassed DEF ReadingsInv
    <2>2. k = pos
      <3>1. pos \in Nat /\ k \in Nat /\ pos' = pos + 1
        BY <2>1, Positions DEF ReadingsInv, TypeOK, Evaluate
      <3>2. QED
        BY <1>1, <1>4, <3>1
    <2> DEFINE e == Row[pos].endpoint
    <2>3. cache'[e].state # "unread"
      BY <1>2, <2>1, <2>2 DEF Evaluate, Read, ReadingsInv, TypeOK
    <2>4. Put(BucketOf(pos, cache'[e]), ControlResource(Row[pos]))
      BY <2>1 DEF Evaluate
    <2>5. BucketOf(pos, cache'[e]) \in Bucket
      BY Judgements DEF Bucket
    <2>6. ControlResource(Row[pos]) \in verdicts'[BucketOf(pos, cache'[e])]
      <3> DEFINE b == BucketOf(pos, cache'[e])
      <3>1. b \in Bucket /\ Put(b, ControlResource(Row[pos]))
        BY <2>4, <2>5
      <3> HIDE DEF b
      <3>2. ControlResource(Row[pos]) \in verdicts'[b]
        BY <3>1 DEF Put, ReadingsInv, TypeOK
      <3>3. QED
        BY <3>2 DEF b
    <2>7. QED
      BY <2>2, <2>3, <2>6
  <1>5. QED
    BY <1>3, <1>4

\* Rows that read one endpoint are judged by one answer, whatever the table is.
THEOREM OneReadingCorrect == Spec => []OneReading
  <1>1. Init => Lists /\ Answered /\ OneReading
    <2>1. SUFFICES ASSUME Init PROVE Lists /\ Answered /\ OneReading
      OBVIOUS
    <2>2. \A k \in Asserted : ~ (k < pos)
      BY <2>1, Positions DEF Init
    <2>3. QED
      BY <2>1, <2>2, Positions DEF Init, Lists, Answered, OneReading
  <1>2. ReadingsInv /\ [Next]_vars => Lists' /\ Answered' /\ OneReading'
    BY ListsInvariant, ReadingsStep DEF ReadingsInv
  <1>3. QED
    BY <1>1, <1>2, ControlsTypeCorrect, PTL DEF Spec, ReadingsInv

-----------------------------------------------------------------------------
\* The family of the reader lists.

Whole == FamilyResource("repositories")

Failed == {e \in Endpoint : cache[e].state = "failed"}

\* Until the listing or a reader list fails, every fault is a row's; and the family
\* is cleared only by lists that were all read.
Counted ==
    /\ listing.state # "failed" /\ Whole \notin verdicts["unresolved"] =>
          spent["fault"] = Cardinality(Failed)
    /\ Whole \in verdicts["clean"] =>
          listing.state = "read" /\ \A s \in Comparable : compared[s] = "same"

\* A row that is read charges its own failure.
LEMMA ReadCounts ==
    ASSUME TypeOK, NEW endpoint \in Endpoint, Read(endpoint),
           spent["fault"] = Cardinality(Failed)
    PROVE  spent'["fault"] = Cardinality(Failed')
  <1>1. IsFiniteSet(Failed)
    BY Numbered, FS_Subset DEF Failed
  <1>2. cache \in [Endpoint -> Reply] /\ spent \in [{"live", "fault"} -> Nat]
    BY DEF TypeOK
  <1>3. CASE UNCHANGED <<cache, spent>>
    BY <1>3 DEF Failed
  <1>4. CASE /\ cache[endpoint].state = "unread"
             /\ cache' = [cache EXCEPT ![endpoint] = [state |-> "read", doc |-> field]]
             /\ UNCHANGED spent
    <2>1. Failed' = Failed
      BY <1>2, <1>4 DEF Failed
    <2>2. QED
      BY <1>4, <2>1
  <1>5. CASE /\ cache[endpoint].state = "unread"
             /\ Spend("fault", MaxFault)
             /\ cache' = [cache EXCEPT ![endpoint] = [state |-> "failed"]]
    <2>1. Failed' = Failed \cup {endpoint} /\ endpoint \notin Failed
      BY <1>2, <1>5 DEF Failed
    <2>2. Cardinality(Failed') = Cardinality(Failed) + 1
      BY <1>1, <2>1, FS_AddElement
    <2>3. spent'["fault"] = spent["fault"] + 1
      BY <1>2, <1>5 DEF Spend
    <2>4. QED
      BY <2>2, <2>3
  <1>6. QED
    BY <1>3, <1>4, <1>5 DEF Read

LEMMA CountedInvariant ==
    ASSUME Identified, TypeOK, Lists, Verdicted, Counted, [Next]_vars
    PROVE  Counted'
  <1>1. verdicts \in [Bucket -> SUBSET Resource]
    BY DEF TypeOK
  <1>3. CASE Evaluate
    <2>1. Row[pos].endpoint \in Endpoint /\ pos \in Asserted /\ pos \in DOMAIN Row
      BY <1>3 DEF Evaluate, Endpoint, Asserted
    <2>2. ControlResource(Row[pos]) # Whole
      BY <2>1, RowsApart DEF Whole
    <2>3. PICK b \in Bucket : Put(b, ControlResource(Row[pos]))
      BY <1>3, Judgements DEF Evaluate, Bucket
    <2>4. \A c \in Bucket : Whole \in verdicts'[c] <=> Whole \in verdicts[c]
      BY <1>1, <2>2, <2>3 DEF Put
    <2>5. spent["fault"] = Cardinality(Failed) => spent'["fault"] = Cardinality(Failed')
      BY <1>3, <2>1, ReadCounts DEF Evaluate
    <2>6. listing' = listing /\ compared' = compared
      BY <1>3 DEF Evaluate
    <2>7. QED
      BY <2>4, <2>5, <2>6 DEF Counted, Comparable, Bucket
  <1>4. CASE Skip
    BY <1>4 DEF Skip, Counted, Comparable, Failed
  <1>5. CASE ListSecrets
    <2>1. cache' = cache /\ compared' = compared
      BY <1>5 DEF ListSecrets
    <2>2. CASE listing' = [state |-> "read", secrets |-> visibility] /\ UNCHANGED <<verdicts, spent>>
      <3>1. listing.state = "unread"
        BY <1>5 DEF ListSecrets
      <3>2. QED
        BY <2>1, <2>2, <3>1 DEF Counted, Failed
    <2>3. CASE /\ listing' = [state |-> "failed"]
               /\ verdicts' = [verdicts EXCEPT !["unresolved"] =
                     @ \cup {FamilyResource(Families[k]) : k \in DOMAIN Families}]
      <3>1. listing'.state = "failed" /\ listing.state = "unread"
        BY <1>5, <2>3 DEF ListSecrets
      <3>2. verdicts'["clean"] = verdicts["clean"]
        BY <1>1, <2>3 DEF Bucket
      <3>3. QED
        BY <3>1, <3>2 DEF Counted
    <2>4. QED
      BY <1>5, <2>2, <2>3 DEF ListSecrets
  <1>6. CASE CompareVisibility \/ CompareUndeclared
    <2>1. /\ AtFamily /\ Family # "repositories"
          /\ UNCHANGED <<cache, listing, compared, spent>>
          /\ \E b \in Bucket : Put(b, FamilyResource(Family))
      BY <1>6 DEF CompareVisibility, CompareUndeclared, Listed, Report, Bucket
    <2>2. PICK b \in Bucket : Put(b, FamilyResource(Family))
      BY <2>1
    <2>3. FamilyResource(Family) # Whole
      BY <2>1 DEF FamilyResource, Whole
    <2>4. \A c \in Bucket : Whole \in verdicts'[c] <=> Whole \in verdicts[c]
      BY <1>1, <2>2, <2>3 DEF Put
    <2>5. QED
      BY <2>1, <2>4 DEF Counted, Comparable, Failed, Bucket
  <1>7. CASE ReadReaders
    <2>1. /\ listing.state = "read" /\ AtFamily /\ Family = "repositories"
          /\ UNCHANGED <<cache, listing>>
      BY <1>7 DEF ReadReaders, Listed
    <2>2. Whole \notin verdicts["clean"]
      <3>1. pos \in Judged /\ ResourceOf(pos) = Whole /\ ~ (pos < pos)
        BY <2>1, AtFamilyPosition DEF Whole, TypeOK
      <3>2. QED
        BY <3>1 DEF Verdicted, Bucket
    <2>3. CASE UNCHANGED <<verdicts, spent>>
      BY <2>1, <2>2, <2>3 DEF Counted, Failed
    <2>4. CASE Put("unresolved", Whole)
      <3>1. Whole \in verdicts'["unresolved"] /\ verdicts'["clean"] = verdicts["clean"]
        BY <1>1, <2>4 DEF Put, Bucket
      <3>2. QED
        BY <2>2, <3>1 DEF Counted
    <2>5. QED
      BY <1>7, <2>3, <2>4 DEF ReadReaders, Whole
  <1>8. CASE CompareReaders
    <2>1. /\ listing.state = "read" /\ UNCHANGED <<cache, listing, compared, spent>>
          /\ \A s \in Comparable : compared[s] # "unread"
      BY <1>8 DEF CompareReaders, Listed, Report
    <2>2. /\ Comparable \subseteq Declared
          /\ compared \in [Declared -> {"unread", "same", "differs"}]
      BY DEF Comparable, TypeOK
    <2>3. CASE \E s \in Comparable : compared[s] = "differs"
      <3>1. Put("records", FamilyResource(Family))
        BY <1>8, <2>3 DEF CompareReaders, Report
      <3>2. /\ verdicts'["clean"] = verdicts["clean"]
            /\ verdicts'["unresolved"] = verdicts["unresolved"]
        BY <1>1, <3>1 DEF Put, Bucket
      <3>3. QED
        BY <2>1, <3>2 DEF Counted, Comparable, Failed
    <2>4. CASE ~ \E s \in Comparable : compared[s] = "differs"
      <3>1. Put("clean", FamilyResource(Family))
        BY <1>8, <2>4 DEF CompareReaders, Report
      <3>2. verdicts'["unresolved"] = verdicts["unresolved"]
        BY <1>1, <3>1 DEF Put, Bucket
      <3>3. \A s \in Comparable : compared[s] = "same"
        BY <2>1, <2>2, <2>4
      <3>4. QED
        BY <2>1, <3>2, <3>3 DEF Counted, Comparable, Failed
    <2>5. QED
      BY <2>3, <2>4
  <1>9. CASE LiveChange
    <2>1. /\ UNCHANGED <<cache, listing, compared, verdicts>>
          /\ spent'["fault"] = spent["fault"]
      BY <1>9 DEF LiveChange, Spend, TypeOK
    <2>2. QED
      BY <2>1 DEF Counted, Comparable, Failed
  <1>10. CASE UNCHANGED vars
    BY <1>10 DEF vars, Counted, Comparable, Failed
  <1>11. QED
    BY <1>3, <1>4, <1>5, <1>6, <1>7, <1>8, <1>9, <1>10 DEF Next

\* A family is cleared only by lists each of which was read, when the table tells its
\* rows apart.
THEOREM FamilyReadWholeCorrect == ASSUME Identified PROVE Spec => []FamilyReadWhole
  <1>1. Init => Counted
    <2>1. SUFFICES ASSUME Init PROVE Counted
      OBVIOUS
    <2>2. Failed = {} /\ spent["fault"] = 0 /\ verdicts["clean"] = {}
      BY <2>1 DEF Init, Failed, Bucket
    <2>3. QED
      BY <2>2, FS_EmptySet DEF Counted
  <1>2. VerdictsInv /\ Counted /\ [Next]_vars => Counted'
    BY CountedInvariant DEF VerdictsInv
  <1>3. VerdictsInv /\ Counted => FamilyReadWhole
    <2>1. SUFFICES ASSUME VerdictsInv, Counted, Whole \in verdicts["clean"]
                   PROVE  /\ spent["fault"] = Cardinality(Failed)
                          /\ \A s \in Comparable : compared[s] = "same"
      BY DEF FamilyReadWhole, Whole, Failed
    <2>2. Whole \notin verdicts["unresolved"]
      <3>1. Whole \in Resource
        BY <2>1 DEF VerdictsInv, TypeOK, Bucket
      <3>2. PICK q \in Judged : Whole = ResourceOf(q)
        BY <3>1, ResourcesAre
      <3>3. QED
        BY <2>1, <3>2 DEF VerdictsInv, Verdicted, Bucket
    <2>3. QED
      BY <2>1, <2>2 DEF Counted
  <1>4. QED
    BY <1>1, <1>2, <1>3, VerdictsInvariant, PTL DEF Spec

-----------------------------------------------------------------------------
\* What becomes of the issues.

IssueOf(f) == [number |-> Numbering[f], fp |-> f, labels |-> Drift!LabelsOf("control")]

\* The leg only reads the open issues: they stay those it started with, at most one
\* for each resource.
Known == \E known \in SUBSET Resource : issues = {IssueOf(f) : f \in known}

LEMMA NoResource == NoMarker \notin Resource
  <1>1. \A x, y : <<x, y>> # <<>>
    OBVIOUS
  <1>2. QED
    BY <1>1 DEF Resource, NoMarker, ControlResource, FamilyResource

LEMMA LegActions ==
    ASSUME NEW records, NEW own, Drift!Current(own) = own
    PROVE  LET act(kind, f, number) ==
                 [kind |-> kind, leg |-> "control", fp |-> f, number |-> number]
           IN  Drift!ReconcileLeg("control", records, {}, own) =
                 {act("close", i.fp, i.number) : i \in {c \in own : c.fp \notin records}}
                 \cup {act("update", i.fp, i.number) : i \in {c \in own : c.fp \in records}}
                 \cup {act("open", f, 0) : f \in {d \in records : \A c \in own : c.fp # d}}
  <1>1. records \ {} = records
    OBVIOUS
  <1>2. QED
    BY <1>1 DEF Drift!ReconcileLeg

\* The actions of the leg, spelled out.
LEMMA ActionsAre ==
    ASSUME NEW known \in SUBSET Resource, issues = {IssueOf(f) : f \in known}
    PROVE  LET read == known \ verdicts["unresolved"]
               act(kind, f, number) ==
                 [kind |-> kind, leg |-> "control", fp |-> f, number |-> number]
           IN  Actions = {act("close", f, Numbering[f]) : f \in {g \in read : g \notin verdicts["records"]}}
                         \cup {act("update", f, Numbering[f]) : f \in {g \in read : g \in verdicts["records"]}}
                         \cup {act("open", f, 0) : f \in {g \in verdicts["records"] : g \notin read}}
  <1> DEFINE read == known \ verdicts["unresolved"]
             Withheld == Drift!Population("control", issues, verdicts["unresolved"])
  <1>1. Withheld = {IssueOf(f) : f \in read}
    <2>1. \A f \in known : /\ IssueOf(f).fp = f
                           /\ "unmanaged-control" \in IssueOf(f).labels
      BY DEF IssueOf, Drift!LabelsOf
    <2>2. Withheld = {i \in issues : /\ "unmanaged-control" \in i.labels
                                     /\ i.fp \notin verdicts["unresolved"]}
      BY DEF Drift!Population
    <2>3. QED
      BY <2>1, <2>2
  <1>2. Drift!Current(Withheld) = Withheld
    <2>1. \A f \in read : /\ IssueOf(f).fp = f /\ f # NoMarker
                          /\ IssueOf(f).number = Numbering[f] /\ Numbering[f] \in Nat
      BY Numbered, NoResource DEF IssueOf
    <2>2. QED
      BY <1>1, <2>1 DEF Drift!Current
  <1>3. \A f \in read : IssueOf(f).fp = f /\ IssueOf(f).number = Numbering[f]
    BY DEF IssueOf
  <1> HIDE DEF Withheld, read
  <1> DEFINE act(kind, f, number) ==
               [kind |-> kind, leg |-> "control", fp |-> f, number |-> number]
             R == verdicts["records"]
             Closes == {act("close", i.fp, i.number) : i \in {c \in Withheld : c.fp \notin R}}
             Updates == {act("update", i.fp, i.number) : i \in {c \in Withheld : c.fp \in R}}
             Opens == {act("open", f, 0) : f \in {d \in R : \A c \in Withheld : c.fp # d}}
  <1>4. Actions = Closes \cup Updates \cup Opens
    <2>1. Actions = Drift!ReconcileLeg("control", R, {}, Withheld)
      BY DEF Actions, Withheld
    <2>2. QED
      BY <1>2, <2>1, LegActions
  <1>5. Closes = {act("close", f, Numbering[f]) : f \in {g \in read : g \notin R}}
    BY <1>1, <1>3
  <1>6. Updates = {act("update", f, Numbering[f]) : f \in {g \in read : g \in R}}
    BY <1>1, <1>3
  <1>7. Opens = {act("open", f, 0) : f \in {g \in R : g \notin read}}
    BY <1>1, <1>3
  <1>8. QED
    BY <1>4, <1>5, <1>6, <1>7 DEF read

\* What could not be read keeps its issue, what passed has none, and what failed has
\* exactly one, when the table tells its rows apart.
THEOREM IssuesFollowVerdictsCorrect == ASSUME Identified PROVE Spec => []IssuesFollowVerdicts
  <1>1. Init => Known
    BY DEF Init, Known, IssueOf
  <1>2. TypeOK /\ Known /\ [Next]_vars => Known'
    BY Course DEF vars, Known
  <1>3. VerdictsInv /\ OneVerdict /\ Known => IssuesFollowVerdicts
    <2> SUFFICES ASSUME VerdictsInv, OneVerdict, Known, Over, NEW f \in Resource
                 PROVE  {a.kind : a \in {b \in Actions : b.fp = f}}
                          = IF f \in verdicts["unresolved"] THEN {}
                            ELSE IF f \in verdicts["records"]
                                 THEN {IF \E i \in issues : i.fp = f THEN "update" ELSE "open"}
                            ELSE IF \E i \in issues : i.fp = f THEN {"close"} ELSE {}
      BY DEF IssuesFollowVerdicts
    <2>1. PICK known \in SUBSET Resource : issues = {IssueOf(g) : g \in known}
      BY DEF Known
    <2>2. (\E i \in issues : i.fp = f) <=> f \in known
      <3>1. \A g \in known : IssueOf(g) \in issues /\ IssueOf(g).fp = g
        BY <2>1 DEF IssueOf
      <3>2. \A i \in issues : \E g \in known : i = IssueOf(g)
        BY <2>1
      <3>3. QED
        BY <3>1, <3>2
    <2> DEFINE R == verdicts["records"]
               U == verdicts["unresolved"]
               read == known \ U
               Asked == {a.kind : a \in {b \in Actions : b.fp = f}}
    <2>3. \A kind : kind \in Asked <=> \/ kind = "close" /\ f \in read /\ f \notin R
                                       \/ kind = "update" /\ f \in read /\ f \in R
                                       \/ kind = "open" /\ f \in R /\ f \notin read
      <3> DEFINE act(kind, g, number) ==
                   [kind |-> kind, leg |-> "control", fp |-> g, number |-> number]
      <3>1. Actions = {act("close", g, Numbering[g]) : g \in {h \in read : h \notin R}}
                      \cup {act("update", g, Numbering[g]) : g \in {h \in read : h \in R}}
                      \cup {act("open", g, 0) : g \in {h \in R : h \notin read}}
        BY <2>1, ActionsAre
      <3>2. \A kind, g, number : act(kind, g, number).kind = kind /\ act(kind, g, number).fp = g
        OBVIOUS
      <3>3. \A kind : kind \in Asked <=> \E a \in Actions : a.fp = f /\ a.kind = kind
        OBVIOUS
      <3> HIDE DEF act, read, R, Asked
      <3>4. \A a \in Actions :
              \/ \E g \in read : g \notin R /\ a = act("close", g, Numbering[g])
              \/ \E g \in read : g \in R /\ a = act("update", g, Numbering[g])
              \/ \E g \in R : g \notin read /\ a = act("open", g, 0)
        BY <3>1
      <3>5. /\ f \in read /\ f \notin R => act("close", f, Numbering[f]) \in Actions
            /\ f \in read /\ f \in R => act("update", f, Numbering[f]) \in Actions
            /\ f \in R /\ f \notin read => act("open", f, 0) \in Actions
        BY <3>1
      <3>6. QED
        BY <3>2, <3>3, <3>4, <3>5
    <2>4. ~ (f \in U /\ f \in R)
      BY DEF OneVerdict, Bucket
    <2> HIDE DEF Asked
    <2>5. Asked = IF f \in U THEN {}
                  ELSE IF f \in R THEN {IF f \in known THEN "update" ELSE "open"}
                  ELSE IF f \in known THEN {"close"} ELSE {}
      BY <2>3, <2>4
    <2>6. QED
      BY <2>2, <2>5 DEF Asked
  <1>4. QED
    BY <1>1, <1>2, <1>3, VerdictsInvariant, OneVerdictCorrect, ControlsTypeCorrect, PTL
       DEF Spec, VerdictsInv
====
