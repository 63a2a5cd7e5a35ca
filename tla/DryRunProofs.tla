---------------------------- MODULE DryRunProofs ----------------------------
(* Theorems about what is read of a text, for every set of texts: the plan     *)
(* that PlanParser parses, the preview that is made of it and of the sweep,    *)
(* and the secrets that SecretScan extracts from the config.                   *)
EXTENDS DryRun, SecretScan, FiniteSetTheorems, WellFoundedInduction, TLAPS

-----------------------------------------------------------------------------
\* The inductive invariant of the parser.

\* Outside of a block, with lines left, nothing is open; within one, its opener
\* was met in the clear and its closer was not met yet.  Once the text is over no
\* block is under way, whether or not the last one was closed.
Position ==
    /\ block = 0 /\ pos <= Len(text) => Parser!Clear(text, pos) /\ Parser!InForce(text, org, pos)
    /\ block # 0 =>
          /\ Parser!Opens(text[block])
          /\ Parser!Clear(text, block)
          /\ Parser!InForce(text, org, block)
          /\ \A k \in block + 1 .. pos - 1 : ~ Parser!Closes(text[k])

Sound ==
    \A r \in records :
        /\ Parser!IsBlock(text, r.first, r.last)
        /\ r.says = text[r.first].says
        /\ Parser!InForce(text, r.org, r.first)

\* No opener that was met in the clear is forgotten.
Whole ==
    \A i \in 1 .. pos - 1 :
        Parser!Opens(text[i]) /\ Parser!Clear(text, i) => i = block \/ \E r \in records : r.first = i

ParserInv == Parser!TypeOK /\ Position /\ Sound /\ Whole

-----------------------------------------------------------------------------
\* Texts.

\* A block that is open hides every line until its closer.
LEMMA OpenHides ==
    ASSUME NEW t, NEW b \in Nat, NEW i \in Nat,
           b >= 1, b < i, Parser!Opens(t[b]),
           \A k \in b + 1 .. i - 1 : ~ Parser!Closes(t[k])
    PROVE  ~ Parser!Clear(t, i)
  BY DEF Parser!Clear

\* A line that opens nothing leaves the text after it clear.
LEMMA ClearStays ==
    ASSUME NEW t, NEW i \in Nat, i >= 1, Parser!Clear(t, i), ~ Parser!Opens(t[i])
    PROVE  Parser!Clear(t, i + 1)
  <1>1. SUFFICES ASSUME NEW j \in 1 .. i, Parser!Opens(t[j])
                 PROVE  \E k \in j + 1 .. i : Parser!Closes(t[k])
    BY DEF Parser!Clear
  <1>2. j \in 1 .. i - 1
    BY <1>1
  <1>3. PICK k \in j + 1 .. i - 1 : Parser!Closes(t[k])
    BY <1>1, <1>2 DEF Parser!Clear
  <1>4. QED
    BY <1>3

\* After the closer of a block that was opened in the clear, the text is clear.
LEMMA ClearAfterClose ==
    ASSUME NEW t, NEW b \in Nat, NEW i \in Nat, b >= 1, b < i, Parser!Clear(t, b), Parser!Closes(t[i])
    PROVE  Parser!Clear(t, i + 1)
  <1>1. SUFFICES ASSUME NEW j \in 1 .. i, Parser!Opens(t[j])
                 PROVE  \E k \in j + 1 .. i : Parser!Closes(t[k])
    BY DEF Parser!Clear
  <1>2. j # i
    BY <1>1 DEF Parser!Opens, Parser!Closes
  <1>3. i \in j + 1 .. i
    BY <1>2
  <1>4. QED
    BY <1>3

\* Lines that are no headers leave the organization in force.
LEMMA InForceStays ==
    ASSUME NEW t, NEW o, NEW b \in Nat, NEW i \in Nat, b >= 1, b <= i,
           Parser!InForce(t, o, b), \A k \in b .. i - 1 : ~ Parser!Heads(t, k)
    PROVE  Parser!InForce(t, o, i)
  <1>1. CASE \E j \in 1 .. b - 1 : /\ Parser!Heads(t, j)
                                   /\ o = t[j].says
                                   /\ \A k \in j + 1 .. b - 1 : ~ Parser!Heads(t, k)
    <2>1. PICK j \in 1 .. b - 1 : /\ Parser!Heads(t, j)
                                  /\ o = t[j].says
                                  /\ \A k \in j + 1 .. b - 1 : ~ Parser!Heads(t, k)
      BY <1>1
    <2>2. j \in 1 .. i - 1
      OBVIOUS
    <2>3. \A k \in j + 1 .. i - 1 : ~ Parser!Heads(t, k)
      <3>1. SUFFICES ASSUME NEW k \in j + 1 .. i - 1 PROVE ~ Parser!Heads(t, k)
        OBVIOUS
      <3>2. k \in j + 1 .. b - 1 \/ k \in b .. i - 1
        OBVIOUS
      <3>3. QED
        BY <2>1, <3>2
    <2>4. QED
      BY <2>1, <2>2, <2>3 DEF Parser!InForce
  <1>2. CASE o = DefaultOrg /\ \A j \in 1 .. b - 1 : ~ Parser!Heads(t, j)
    <2>1. \A j \in 1 .. i - 1 : ~ Parser!Heads(t, j)
      <3>1. SUFFICES ASSUME NEW k \in 1 .. i - 1 PROVE ~ Parser!Heads(t, k)
        OBVIOUS
      <3>2. k \in 1 .. b - 1 \/ k \in b .. i - 1
        OBVIOUS
      <3>3. QED
        BY <1>2, <3>2
    <2>2. QED
      BY <1>2, <2>1 DEF Parser!InForce
  <1>3. QED
    BY <1>1, <1>2 DEF Parser!InForce

\* What is in force after a header.
LEMMA InForceAfterHeader ==
    ASSUME NEW t, NEW i \in Nat, i >= 1, Parser!Heads(t, i)
    PROVE  Parser!InForce(t, t[i].says, i + 1)
  <1>1. i \in 1 .. (i + 1) - 1 /\ \A k \in i + 1 .. (i + 1) - 1 : FALSE
    OBVIOUS
  <1>2. QED
    BY <1>1 DEF Parser!InForce

-----------------------------------------------------------------------------
\* The steps.

LEMMA ParserInit ==
    ASSUME Parser!TextAssumption, Parser!Init
    PROVE  ParserInv
  <1>1. Len(text) \in Nat
    BY DEF Parser!TextAssumption, Parser!Init
  <1>2. Parser!TypeOK
    BY <1>1 DEF Parser!TextAssumption, Parser!Init, Parser!TypeOK
  <1>3. Position
    BY DEF Parser!Init, Position, Parser!Clear, Parser!InForce
  <1>4. Sound /\ Whole
    BY DEF Parser!Init, Sound, Whole
  <1>5. QED
    BY <1>2, <1>3, <1>4 DEF ParserInv

\* A line outside of every block that opens none.
LEMMA OutsideStep ==
    ASSUME Parser!TextAssumption, ParserInv, Parser!Header \/ Parser!Trailer \/ Parser!Skip
    PROVE  ParserInv'
  <1>1. /\ block = 0 /\ block' = 0
        /\ pos \in Nat /\ pos >= 1 /\ pos <= Len(text) /\ pos' = pos + 1
        /\ text' = text /\ records' = records
        /\ Len(text) \in Nat
        /\ ~ Parser!Opens(text[pos])
    BY DEF ParserInv, Parser!TypeOK, Parser!TextAssumption, Parser!Header, Parser!Trailer, Parser!Skip, Parser!Outside, Parser!Opens
  <1>2. Parser!Clear(text, pos) /\ Parser!InForce(text, org, pos)
    BY <1>1 DEF ParserInv, Position
  <1>3. Parser!TypeOK'
    <2>1. pos \in DOMAIN text /\ text \in Text
      BY <1>1 DEF ParserInv, Parser!TypeOK, Parser!TextAssumption
    <2>2. CASE Parser!Header
      BY <1>1, <2>1, <2>2 DEF ParserInv, Parser!TypeOK, Parser!TextAssumption, Parser!Header, Parser!Outside
    <2>3. CASE Parser!Trailer \/ Parser!Skip
      BY <1>1, <2>1, <2>3 DEF ParserInv, Parser!TypeOK, Parser!Trailer, Parser!Skip, Parser!Outside
    <2>4. QED
      BY <2>2, <2>3
  <1>4. Parser!Clear(text, pos + 1)
    BY <1>1, <1>2, ClearStays
  <1>5. Parser!InForce(text, org', pos + 1)
    <2>1. CASE Parser!Header
      <3>1. Parser!Heads(text, pos) /\ org' = text[pos].says
        BY <1>1, <1>2, <2>1 DEF Parser!Header, Parser!Outside, Parser!Opens, Parser!Heads
      <3>2. QED
        BY <1>1, <3>1, InForceAfterHeader
    <2>2. CASE Parser!Trailer \/ Parser!Skip
      <3>1. org' = org /\ ~ Parser!Heads(text, pos)
        BY <1>1, <2>2 DEF Parser!Trailer, Parser!Skip, Parser!Outside, Parser!Opens, Parser!Heads
      <3>2. \A k \in pos .. (pos + 1) - 1 : ~ Parser!Heads(text, k)
        <4>1. SUFFICES ASSUME NEW k \in pos .. (pos + 1) - 1 PROVE k = pos
          BY <3>1
        <4>2. QED
          BY <1>1
      <3>3. QED
        BY <1>1, <1>2, <3>1, <3>2, InForceStays
    <2>3. QED
      BY <2>1, <2>2
  <1>6. Position'
    BY <1>1, <1>4, <1>5 DEF Position
  <1>7. Sound'
    BY <1>1 DEF ParserInv, Sound
  <1>8. Whole'
    <2>1. SUFFICES ASSUME NEW i \in 1 .. pos, Parser!Opens(text[i]), Parser!Clear(text, i)
                   PROVE  i = 0 \/ \E r \in records : r.first = i
      BY <1>1 DEF Whole
    <2>2. i \in 1 .. pos - 1
      BY <1>1, <2>1
    <2>3. QED
      BY <1>1, <2>1, <2>2 DEF ParserInv, Whole
  <1>9. QED
    BY <1>3, <1>6, <1>7, <1>8 DEF ParserInv

LEMMA OpenStep ==
    ASSUME Parser!TextAssumption, ParserInv, Parser!Open
    PROVE  ParserInv'
  <1>1. /\ block = 0 /\ block' = pos
        /\ pos \in Nat /\ pos >= 1 /\ pos <= Len(text) /\ pos' = pos + 1
        /\ text' = text /\ records' = records /\ org' = org /\ summary' = summary
        /\ Len(text) \in Nat
        /\ Parser!Opens(text[pos])
    BY DEF ParserInv, Parser!TypeOK, Parser!TextAssumption, Parser!Open, Parser!Outside
  <1>2. Parser!TypeOK'
    BY <1>1 DEF ParserInv, Parser!TypeOK
  <1>3. Position'
    <2>1. Parser!Clear(text, pos) /\ Parser!InForce(text, org, pos)
      BY <1>1 DEF ParserInv, Position
    <2>2. \A k \in pos + 1 .. (pos + 1) - 1 : FALSE
      BY <1>1
    <2>3. QED
      BY <1>1, <2>1, <2>2 DEF Position
  <1>4. Sound'
    BY <1>1 DEF ParserInv, Sound
  <1>5. Whole'
    <2>1. SUFFICES ASSUME NEW i \in 1 .. pos, Parser!Opens(text[i]), Parser!Clear(text, i)
                   PROVE  i = pos \/ \E r \in records : r.first = i
      BY <1>1 DEF Whole
    <2>2. CASE i \in 1 .. pos - 1
      <3>1. i # block
        BY <1>1, <2>2
      <3>2. QED
        BY <2>1, <2>2, <3>1 DEF ParserInv, Whole
    <2>3. QED
      BY <1>1, <2>2
  <1>6. QED
    BY <1>2, <1>3, <1>4, <1>5 DEF ParserInv

LEMMA ConsumeStep ==
    ASSUME Parser!TextAssumption, ParserInv, Parser!Consume
    PROVE  ParserInv'
  <1>1. /\ block # 0 /\ block' = block
        /\ block \in Nat /\ block >= 1 /\ block < pos
        /\ pos \in Nat /\ pos >= 1 /\ pos <= Len(text) /\ pos' = pos + 1
        /\ text' = text /\ records' = records /\ org' = org /\ summary' = summary
        /\ Len(text) \in Nat
        /\ ~ Parser!Closes(text[pos])
    BY DEF ParserInv, Parser!TypeOK, Parser!TextAssumption, Parser!Consume
  <1>2. /\ Parser!Opens(text[block]) /\ Parser!Clear(text, block) /\ Parser!InForce(text, org, block)
        /\ \A k \in block + 1 .. pos - 1 : ~ Parser!Closes(text[k])
    BY <1>1 DEF ParserInv, Position
  <1>3. Parser!TypeOK'
    BY <1>1 DEF ParserInv, Parser!TypeOK
  <1>4. Position'
    <2>1. SUFFICES ASSUME NEW k \in block + 1 .. pos PROVE ~ Parser!Closes(text[k])
      BY <1>1, <1>2 DEF Position
    <2>2. k \in block + 1 .. pos - 1 \/ k = pos
      BY <1>1
    <2>3. QED
      BY <1>1, <1>2, <2>2
  <1>5. Sound'
    BY <1>1 DEF ParserInv, Sound
  <1>6. Whole'
    <2>1. SUFFICES ASSUME NEW i \in 1 .. pos, Parser!Opens(text[i]), Parser!Clear(text, i)
                   PROVE  i = block \/ \E r \in records : r.first = i
      BY <1>1 DEF Whole
    <2>2. i # pos
      BY <1>1, <1>2, <2>1, OpenHides
    <2>3. i \in 1 .. pos - 1
      BY <1>1, <2>2
    <2>4. QED
      BY <2>1, <2>3 DEF ParserInv, Whole
  <1>7. QED
    BY <1>3, <1>4, <1>5, <1>6 DEF ParserInv

\* The record that ends a block at a line: what its soundness takes.
LEMMA EmitStep ==
    ASSUME Parser!TextAssumption, ParserInv, block # 0, NEW last \in DOMAIN text, Parser!Emit(last),
           block <= last, last >= pos - 1,
           \/ block < last /\ Parser!Closes(text[last]) /\ last = pos
           \/ last = Len(text) /\ pos = Len(text) + 1
    PROVE  /\ records' \subseteq [first : DOMAIN text, last : DOMAIN text, org : Org,
                                   says : {text[i].says : i \in DOMAIN text}]
           /\ Sound'
           /\ \A i \in 1 .. pos - 1 :
                 Parser!Opens(text[i]) /\ Parser!Clear(text, i) => \E r \in records' : r.first = i
  <1> DEFINE new == [first |-> block, last |-> last, org |-> org, says |-> text[block].says]
  <1>1. /\ block \in Nat /\ block >= 1 /\ pos \in Nat
        /\ text' = text /\ records' = records \cup {new}
        /\ Len(text) \in Nat /\ DOMAIN text = 1 .. Len(text)
        /\ block \in DOMAIN text
    BY DEF ParserInv, Parser!TypeOK, Parser!TextAssumption, Parser!Emit
  <1>2. /\ Parser!Opens(text[block]) /\ Parser!Clear(text, block) /\ Parser!InForce(text, org, block)
        /\ \A k \in block + 1 .. pos - 1 : ~ Parser!Closes(text[k])
    BY DEF ParserInv, Position
  <1>3. Parser!IsBlock(text, block, last)
    <2>1. \A k \in block + 1 .. last - 1 : ~ Parser!Closes(text[k])
      <3>1. SUFFICES ASSUME NEW k \in block + 1 .. last - 1 PROVE k \in block + 1 .. pos - 1
        BY <1>2
      <3>2. QED
        BY <1>1
    <2>2. QED
      BY <1>2, <2>1 DEF Parser!IsBlock
  <1>4. records' \subseteq [first : DOMAIN text, last : DOMAIN text, org : Org,
                            says : {text[i].says : i \in DOMAIN text}]
    BY <1>1 DEF ParserInv, Parser!TypeOK
  <1>5. Sound'
    BY <1>1, <1>2, <1>3 DEF ParserInv, Sound
  <1>6. ASSUME NEW i \in 1 .. pos - 1, Parser!Opens(text[i]), Parser!Clear(text, i)
        PROVE  \E r \in records' : r.first = i
    <2>1. CASE i = block
      <3>1. new \in records' /\ new.first = i
        BY <1>1, <2>1
      <3>2. QED
        BY <3>1
    <2>2. CASE i # block
      <3>1. \E r \in records : r.first = i
        BY <1>6, <2>2 DEF ParserInv, Whole
      <3>2. QED
        BY <1>1, <3>1
    <2>3. QED
      BY <2>1, <2>2
  <1>7. QED
    BY <1>4, <1>5, <1>6

LEMMA CloseStep ==
    ASSUME Parser!TextAssumption, ParserInv, Parser!Close
    PROVE  ParserInv'
  <1>1. /\ block # 0 /\ block' = 0
        /\ block \in Nat /\ block >= 1 /\ block < pos
        /\ pos \in Nat /\ pos >= 1 /\ pos <= Len(text) /\ pos' = pos + 1
        /\ text' = text /\ org' = org /\ summary' = summary
        /\ Len(text) \in Nat /\ pos \in DOMAIN text
        /\ Parser!Closes(text[pos]) /\ Parser!Emit(pos)
    BY DEF ParserInv, Parser!TypeOK, Parser!TextAssumption, Parser!Close, Parser!Emit
  <1>2. /\ Parser!Opens(text[block]) /\ Parser!Clear(text, block) /\ Parser!InForce(text, org, block)
        /\ \A k \in block + 1 .. pos - 1 : ~ Parser!Closes(text[k])
    BY <1>1 DEF ParserInv, Position
  <1>3. /\ records' \subseteq [first : DOMAIN text, last : DOMAIN text, org : Org,
                                says : {text[i].says : i \in DOMAIN text}]
        /\ Sound'
        /\ \A i \in 1 .. pos - 1 :
              Parser!Opens(text[i]) /\ Parser!Clear(text, i) => \E r \in records' : r.first = i
    BY <1>1, EmitStep
  <1>4. Parser!TypeOK'
    BY <1>1, <1>3 DEF ParserInv, Parser!TypeOK
  <1>5. Position'
    <2>1. Parser!Clear(text, pos + 1)
      BY <1>1, <1>2, ClearAfterClose
    <2>2. ASSUME NEW k \in block .. (pos + 1) - 1
          PROVE  ~ Parser!Heads(text, k)
      <3>1. CASE k = block
        BY <1>2, <3>1 DEF Parser!Opens, Parser!Heads
      <3>2. CASE k = pos
        BY <1>1, <3>2 DEF Parser!Closes, Parser!Heads
      <3>3. CASE k \in block + 1 .. pos - 1
        <4>1. \A l \in block + 1 .. k - 1 : ~ Parser!Closes(text[l])
          <5>1. SUFFICES ASSUME NEW l \in block + 1 .. k - 1 PROVE l \in block + 1 .. pos - 1
            BY <1>2
          <5>2. QED
            BY <1>1, <3>3
        <4>2. ~ Parser!Clear(text, k)
          BY <1>1, <1>2, <3>3, <4>1, OpenHides
        <4>3. QED
          BY <4>2 DEF Parser!Heads
      <3>4. QED
        BY <1>1, <3>1, <3>2, <3>3
    <2>3. Parser!InForce(text, org, pos + 1)
      BY <1>1, <1>2, <2>2, InForceStays
    <2>4. QED
      BY <1>1, <2>1, <2>3 DEF Position
  <1>6. Whole'
    <2>1. SUFFICES ASSUME NEW i \in 1 .. pos, Parser!Opens(text[i]), Parser!Clear(text, i)
                   PROVE  \E r \in records' : r.first = i
      BY <1>1 DEF Whole
    <2>2. i # pos
      BY <1>1, <2>1 DEF Parser!Opens, Parser!Closes
    <2>3. i \in 1 .. pos - 1
      BY <1>1, <2>2
    <2>4. QED
      BY <1>3, <2>1, <2>3
  <1>7. QED
    BY <1>3, <1>4, <1>5, <1>6 DEF ParserInv

LEMMA CutOffStep ==
    ASSUME Parser!TextAssumption, ParserInv, Parser!CutOff
    PROVE  ParserInv'
  <1>1. /\ block # 0 /\ block' = 0
        /\ block \in Nat /\ block >= 1 /\ block <= Len(text)
        /\ pos = Len(text) + 1 /\ pos' = pos
        /\ text' = text /\ org' = org /\ summary' = summary
        /\ Len(text) \in Nat /\ Len(text) \in DOMAIN text
        /\ Parser!Emit(Len(text))
    BY DEF ParserInv, Parser!TypeOK, Parser!TextAssumption, Parser!CutOff, Parser!Emit
  <1>2. /\ records' \subseteq [first : DOMAIN text, last : DOMAIN text, org : Org,
                                says : {text[i].says : i \in DOMAIN text}]
        /\ Sound'
        /\ \A i \in 1 .. pos - 1 :
              Parser!Opens(text[i]) /\ Parser!Clear(text, i) => \E r \in records' : r.first = i
    BY <1>1, EmitStep
  <1>3. Parser!TypeOK'
    BY <1>1, <1>2 DEF ParserInv, Parser!TypeOK
  <1>4. Position'
    BY <1>1 DEF Position
  <1>5. Whole'
    BY <1>1, <1>2 DEF Whole
  <1>6. QED
    BY <1>2, <1>3, <1>4, <1>5 DEF ParserInv

-----------------------------------------------------------------------------
\* The parser.

LEMMA ParserStep == ParserInv /\ Parser!Next => ParserInv'
  <1>1. SUFFICES ASSUME ParserInv, Parser!Next PROVE ParserInv'
    OBVIOUS
  <1>2. Parser!TextAssumption
    BY DryRunAssumption
  <1>3. QED
    BY <1>1, <1>2, OutsideStep, OpenStep, ConsumeStep, CloseStep, CutOffStep DEF Parser!Next

LEMMA ParserStill == ParserInv /\ UNCHANGED Parser!vars => ParserInv'
  BY DEF Parser!vars, ParserInv, Parser!TypeOK, Position, Sound, Whole

\* The parser keeps the invariant: parse_plan is in or out of a block exactly where the
\* text is, at every line and in every text.
THEOREM ParserInvariant == Parser!Spec => []ParserInv
  <1>1. Parser!Init => ParserInv
    BY DryRunAssumption, ParserInit
  <1>2. ParserInv /\ [Parser!Next]_(Parser!vars) => ParserInv'
    BY ParserStep, ParserStill
  <1>3. QED
    BY <1>1, <1>2, PTL DEF Parser!Spec

\* At the end of a text its records are its blocks.
LEMMA RecordsTell == ParserInv => RecordsAreBlocks
  <1>1. SUFFICES ASSUME ParserInv, Parser!Parsed PROVE Parser!RecordsAreBlocks
    BY DEF RecordsAreBlocks, Parser!RecordsAreBlocks
  <1>2. /\ block = 0 /\ pos = Len(text) + 1
        /\ Len(text) \in Nat /\ DOMAIN text = 1 .. Len(text)
    BY <1>1, DryRunAssumption DEF ParserInv, Parser!TypeOK, Parser!TextAssumption, Parser!Parsed
  <1>3. ASSUME NEW i \in DOMAIN text, Parser!Opens(text[i]), Parser!Clear(text, i)
        PROVE  \E r \in records : r.first = i
    <2>1. i \in 1 .. pos - 1 /\ i # block
      BY <1>2
    <2>2. QED
      BY <1>1, <1>3, <2>1 DEF ParserInv, Whole
  <1>4. QED
    BY <1>1, <1>3 DEF ParserInv, Sound, Parser!RecordsAreBlocks

-----------------------------------------------------------------------------
\* What the patterns find on a line of the config, against the marks of its text.

\* Every set of numbers that is not empty has a least one.
LEMMA LeastExists ==
    ASSUME NEW T \in SUBSET Nat, T # {}
    PROVE  \E x \in T : \A y \in T : x <= y
  <1>1. IsWellFoundedOn(OpToRel(<, Nat), Nat)
    BY NatLessThanWellFounded
  <1>2. PICK x \in T : \A y \in T : <<y, x>> \notin OpToRel(<, Nat)
    BY <1>1, WFMin
  <1>3. \A y \in T : ~ (y < x)
    BY <1>2 DEF OpToRel
  <1>4. QED
    BY <1>3

\* Place finds the first token of its kind.
LEMMA PlaceIs ==
    ASSUME NEW s, Len(s) \in Nat, NEW kind, \E i \in 1 .. Len(s) : s[i].is = kind
    PROVE  /\ Place(s, kind) \in 1 .. Len(s)
           /\ s[Place(s, kind)].is = kind
           /\ \A i \in 1 .. Place(s, kind) - 1 : s[i].is # kind
  <1> DEFINE I == {i \in 1 .. Len(s) : s[i].is = kind}
  <1>1. Place(s, kind) = Min(I)
    BY DEF Place, SelectInSeq
  <1>2. \E x \in I : \A y \in I : x <= y
    <2>1. I \in SUBSET Nat /\ I # {}
      OBVIOUS
    <2> HIDE DEF I
    <2>2. QED
      BY <2>1, LeastExists
  <1>3. Min(I) \in I /\ \A y \in I : Min(I) <= y
    BY <1>2 DEF Min
  <1>4. ASSUME NEW i \in 1 .. Min(I) - 1
        PROVE  s[i].is # kind
    <2>1. i \in 1 .. Len(s) /\ ~ (Min(I) <= i)
      BY <1>3
    <2>2. i \notin I
      BY <1>3, <2>1
    <2>3. QED
      BY <2>1, <2>2
  <1>5. QED
    BY <1>1, <1>3, <1>4

\* Not hidden by a comment.
Plain(s, p) == \A o \in 1 .. p : s[o].is # "comment"

LEMMA LineIs ==
    ASSUME NEW t, IsText(t), NEW l \in DOMAIN t
    PROVE  /\ Len(t) \in Nat /\ DOMAIN t = 1 .. Len(t)
           /\ Len(t[l]) \in Nat /\ DOMAIN t[l] = 1 .. Len(t[l])
  <1>1. Len(t) \in Nat /\ DOMAIN t = 1 .. Len(t)
    BY DEF IsText
  <1> DEFINE S == [is : Kind, str : {t[l][p].str : p \in DOMAIN t[l]}]
  <1>2. t[l] \in Seq(S)
    BY DEF IsText
  <1> HIDE DEF S
  <1>3. Len(t[l]) \in Nat /\ DOMAIN t[l] = 1 .. Len(t[l])
    BY <1>2
  <1>4. QED
    BY <1>1, <1>3

\* The code of a line is what no comment hides.
LEMMA CodeIs ==
    ASSUME NEW t, IsText(t), NEW l \in DOMAIN t
    PROVE  /\ Len(Code(t[l])) \in Nat
           /\ DOMAIN Code(t[l]) = 1 .. Len(Code(t[l]))
           /\ DOMAIN Code(t[l]) = {p \in DOMAIN t[l] : Plain(t[l], p)}
           /\ \A p \in DOMAIN Code(t[l]) : Code(t[l])[p] = t[l][p]
  <1> DEFINE s == t[l]
             n == Place(s, "comment")
  <1>1. Len(s) \in Nat /\ DOMAIN s = 1 .. Len(s)
    BY LineIs
  <1>2. CASE ~ Has(s, "comment")
    <2>1. Code(s) = s /\ \A p \in DOMAIN s : Plain(s, p)
      BY <1>1, <1>2 DEF Code, Has, Plain
    <2>2. QED
      BY <1>1, <2>1
  <1>3. CASE Has(s, "comment")
    <2>1. n \in 1 .. Len(s) /\ s[n].is = "comment" /\ \A i \in 1 .. n - 1 : s[i].is # "comment"
      BY <1>1, <1>3, PlaceIs DEF Has
    <2> HIDE DEF n
    <2>2. Code(s) = SubSeq(s, 1, n - 1)
      BY <1>3 DEF Code, n
    <2>3. Code(s) = [i \in 1 .. n - 1 |-> s[i]]
      BY <1>1, <2>1, <2>2
    <2>4. Len(Code(s)) = n - 1 /\ DOMAIN Code(s) = 1 .. n - 1
      BY <2>1, <2>3, <1>1, <2>2
    <2>5. \A p \in DOMAIN s : Plain(s, p) <=> p < n
      BY <1>1, <2>1 DEF Plain
    <2>6. 1 .. n - 1 = {p \in DOMAIN s : Plain(s, p)}
      BY <1>1, <2>1, <2>5
    <2>7. QED
      BY <2>1, <2>3, <2>4, <2>6
  <1>4. QED
    BY <1>2, <1>3

\* A mark is a place.
LEMMA MarkIs ==
    ASSUME NEW t, NEW i \in Int, NEW k \in Int, NEW kind
    PROVE  /\ \A q \in Marks(t, i, k, kind) :
                 /\ q = <<q[1], q[2]>> /\ q[1] \in i .. k /\ q[2] \in DOMAIN t[q[1]]
                 /\ Token(t, q).is = kind /\ Plain(t[q[1]], q[2])
           /\ \A l \in i .. k : \A p \in DOMAIN t[l] :
                 t[l][p].is = kind /\ Plain(t[l], p) => <<l, p>> \in Marks(t, i, k, kind)
  BY DEF Marks, Token, Plain

LEMMA MarksSplit ==
    ASSUME NEW t, NEW i \in Int, NEW k \in Int, i < k, NEW kind
    PROVE  /\ Marks(t, i, k, kind) = Marks(t, i, k - 1, kind) \cup Marks(t, k, k, kind)
           /\ Marks(t, i, k - 1, kind) \cap Marks(t, k, k, kind) = {}
  <1>1. i .. k = (i .. k - 1) \cup (k .. k)
    OBVIOUS
  <1>2. Marks(t, i, k, kind) = Marks(t, i, k - 1, kind) \cup Marks(t, k, k, kind)
    BY <1>1 DEF Marks
  <1>3. (\A q \in Marks(t, i, k - 1, kind) : q[1] \in i .. k - 1) /\ \A q \in Marks(t, k, k, kind) : q[1] \in k .. k
    <2>1. k - 1 \in Int
      OBVIOUS
    <2>2. QED
      BY <2>1, MarkIs
  <1>4. QED
    BY <1>2, <1>3

LEMMA Found ==
    ASSUME NEW t, IsText(t), NEW l \in DOMAIN t, NEW kind
    PROVE  /\ \A p : (p \in DOMAIN Code(t[l]) /\ Code(t[l])[p].is = kind) <=> <<l, p>> \in Marks(t, l, l, kind)
           /\ \A p \in DOMAIN Code(t[l]) : Code(t[l])[p] = Token(t, <<l, p>>)
           /\ \A q \in Marks(t, l, l, kind) : q = <<l, q[2]>> /\ q[2] \in Nat
  <1>1. l \in Int /\ DOMAIN t[l] \subseteq Nat
    BY LineIs
  <1>2. \A p : p \in DOMAIN t[l] /\ t[l][p].is = kind /\ Plain(t[l], p) => <<l, p>> \in Marks(t, l, l, kind)
    BY <1>1, MarkIs
  <1>3. \A q \in Marks(t, l, l, kind) :
           /\ q = <<l, q[2]>> /\ q[2] \in DOMAIN t[l] /\ t[l][q[2]].is = kind /\ Plain(t[l], q[2])
    <2>1. l .. l = {l}
      BY <1>1
    <2>2. QED
      BY <1>1, <2>1, MarkIs DEF Token
  <1>4. \A p \in DOMAIN Code(t[l]) : Code(t[l])[p] = t[l][p]
    BY CodeIs
  <1>5. \A p : p \in DOMAIN Code(t[l]) <=> p \in DOMAIN t[l] /\ Plain(t[l], p)
    <2>1. DOMAIN Code(t[l]) = {p \in DOMAIN t[l] : Plain(t[l], p)}
      BY CodeIs
    <2>2. QED
      BY <2>1
  <1>6. \A p : <<l, p>>[1] = l /\ <<l, p>>[2] = p
    OBVIOUS
  <1>7. \A p : <<l, p>> \in Marks(t, l, l, kind) => p \in DOMAIN t[l] /\ t[l][p].is = kind /\ Plain(t[l], p)
    BY <1>3, <1>6
  <1>8. QED
    BY <1>1, <1>2, <1>3, <1>4, <1>5, <1>6, <1>7 DEF Token

LEMMA HasIs ==
    ASSUME NEW t, IsText(t), NEW l \in DOMAIN t, NEW kind
    PROVE  Has(Code(t[l]), kind) <=> Marks(t, l, l, kind) # {}
  <1>1. ASSUME Has(Code(t[l]), kind) PROVE Marks(t, l, l, kind) # {}
    BY <1>1, Found DEF Has
  <1>2. ASSUME NEW q \in Marks(t, l, l, kind) PROVE Has(Code(t[l]), kind)
    <2>1. <<l, q[2]>> \in Marks(t, l, l, kind)
      BY Found
    <2>2. QED
      BY <2>1, Found DEF Has
  <1>3. QED
    BY <1>1, <1>2

LEMMA FirstIs ==
    ASSUME NEW t, IsText(t), NEW l \in DOMAIN t, NEW kind, Has(Code(t[l]), kind)
    PROVE  /\ <<l, Place(Code(t[l]), kind)>> \in Marks(t, l, l, kind)
           /\ First(Code(t[l]), kind) = Token(t, <<l, Place(Code(t[l]), kind)>>).str
  <1>1. Len(Code(t[l])) \in Nat /\ DOMAIN Code(t[l]) = 1 .. Len(Code(t[l]))
    BY CodeIs
  <1>2. /\ Place(Code(t[l]), kind) \in DOMAIN Code(t[l])
        /\ Code(t[l])[Place(Code(t[l]), kind)].is = kind
    BY <1>1, PlaceIs DEF Has
  <1>3. QED
    BY <1>2, Found DEF First

LEMMA TextsAre ==
    ASSUME NEW t, IsText(t), NEW l \in DOMAIN t, NEW kinds
    PROVE  Texts(Code(t[l]), kinds) = UNION {Says(t, Marks(t, l, l, kind)) : kind \in kinds}
  <1> DEFINE c == Code(t[l])
  <1>1. ASSUME NEW s \in Texts(c, kinds)
        PROVE  \E kind \in kinds : s \in Says(t, Marks(t, l, l, kind))
    <2>1. PICK p \in DOMAIN c : c[p].is \in kinds /\ s = c[p].str
      BY DEF Texts
    <2>2. <<l, p>> \in Marks(t, l, l, c[p].is) /\ c[p] = Token(t, <<l, p>>)
      BY <2>1, Found
    <2>3. QED
      BY <2>1, <2>2 DEF Says
  <1>2. ASSUME NEW kind \in kinds, NEW q \in Marks(t, l, l, kind)
        PROVE  Token(t, q).str \in Texts(c, kinds)
    <2>1. q = <<l, q[2]>>
      BY Found
    <2>2. q[2] \in DOMAIN c /\ c[q[2]].is = kind
      BY <2>1, Found
    <2>3. c[q[2]] = Token(t, q)
      BY <2>1, <2>2, Found
    <2>4. QED
      BY <2>2, <2>3 DEF Texts
  <1>3. QED
    BY <1>1, <1>2 DEF Says

\* The repositories read line by line are those the text has a constructor of.
LEMMA DeclaredAre ==
    ASSUME NEW t, IsText(t)
    PROVE  DeclaredRepos(t) = Repositories(t)
  <1>1. DOMAIN t = 1 .. Len(t) /\ DOMAIN t \subseteq Int
    BY DEF IsText
  <1>2. \A l \in DOMAIN t : Texts(Code(t[l]), {"repo"}) = Says(t, Marks(t, l, l, "repo"))
    <2>1. SUFFICES ASSUME NEW l \in DOMAIN t
                   PROVE  Texts(Code(t[l]), {"repo"}) = Says(t, Marks(t, l, l, "repo"))
      OBVIOUS
    <2>2. Texts(Code(t[l]), {"repo"}) = UNION {Says(t, Marks(t, l, l, kind)) : kind \in {"repo"}}
      BY TextsAre
    <2>3. QED
      BY <2>2
  <1>3. Marks(t, 1, Len(t), "repo") = UNION {Marks(t, l, l, "repo") : l \in DOMAIN t}
    <2>1. \A l \in DOMAIN t : l .. l = {l}
      BY <1>1
    <2>2. QED
      BY <1>1, <2>1 DEF Marks
  <1>4. QED
    BY <1>2, <1>3 DEF DeclaredRepos, Repositories, Says

-----------------------------------------------------------------------------
\* The preview.

\* One organization is in force at a line.
LEMMA InForceOnce ==
    ASSUME NEW t, NEW i \in Nat, NEW o, NEW p, Parser!InForce(t, o, i), Parser!InForce(t, p, i)
    PROVE  o = p
  <1>1. ASSUME NEW j \in 1 .. i - 1, NEW k \in 1 .. i - 1,
               Parser!Heads(t, j), Parser!Heads(t, k),
               \A l \in j + 1 .. i - 1 : ~ Parser!Heads(t, l),
               \A l \in k + 1 .. i - 1 : ~ Parser!Heads(t, l)
        PROVE  j = k
    <2>1. ~ (j < k) /\ ~ (k < j)
      BY <1>1
    <2>2. QED
      BY <2>1
  <1>2. QED
    BY <1>1 DEF Parser!InForce

\* The resource of a change is a resource that a plan can name.
LEMMA RecordsName ==
    ASSUME ParserInv
    PROVE  PlanRecords \subseteq Org \X ResourceHeader
  <1>1. SUFFICES ASSUME NEW r \in records PROVE r.org \in Org /\ r.says \in ResourceHeader
    BY DEF PlanRecords
  <1>2. text \in Text /\ r.org \in Org /\ r.first \in DOMAIN text
    BY DEF ParserInv, Parser!TypeOK
  <1>3. Parser!Opens(text[r.first]) /\ r.says = text[r.first].says
    BY DEF ParserInv, Sound, Parser!IsBlock
  <1>4. QED
    BY <1>2, <1>3, DryRunAssumption

\* Once the text is parsed, the records are the changes of the text.
LEMMA RecordsAreChanges ==
    ASSUME ParserInv, Parser!Parsed
    PROVE  PlanRecords = {f \in Org \X ResourceHeader : Changes(f[1], f[2])}
  <1>1. Parser!RecordsAreBlocks /\ text \in Text
    BY RecordsTell DEF RecordsAreBlocks, ParserInv, Parser!TypeOK
  <1>2. DOMAIN text \subseteq Nat
    BY <1>1, DryRunAssumption DEF Parser!TextAssumption
  <1>3. ASSUME NEW r \in records PROVE Changes(r.org, r.says)
    <2>1. r.first \in DOMAIN text
      BY DEF ParserInv, Parser!TypeOK
    <2>2. QED
      BY <1>1, <2>1 DEF Parser!RecordsAreBlocks, Parser!IsBlock, Changes
  <1>4. ASSUME NEW o \in Org, NEW c \in ResourceHeader, Changes(o, c)
        PROVE  <<o, c>> \in PlanRecords
    <2>1. PICK i \in DOMAIN text :
             /\ Parser!Opens(text[i]) /\ Parser!Clear(text, i)
             /\ text[i].says = c /\ Parser!InForce(text, o, i)
      BY <1>4 DEF Changes
    <2>2. PICK r \in records : r.first = i
      BY <1>1, <2>1 DEF Parser!RecordsAreBlocks
    <2>3. r.says = c /\ Parser!InForce(text, r.org, i)
      BY <1>1, <2>1, <2>2 DEF Parser!RecordsAreBlocks
    <2>4. r.org = o
      BY <1>2, <2>1, <2>3, InForceOnce
    <2>5. QED
      BY <2>2, <2>3, <2>4 DEF PlanRecords
  <1>5. QED
    BY <1>3, <1>4, RecordsName DEF PlanRecords

\* What is opened, without issues to compare with.
Opening(leg, f) == [kind |-> "open", leg |-> leg, fp |-> f, number |-> 0]

LEMMA LegOpens ==
    ASSUME NEW leg \in {"plan", "inventory"}, NEW found, NEW expected
    PROVE  Drift!ReconcileLeg(leg, found, expected, Drift!Population(leg, {}, {}))
              = {Opening(leg, f) : f \in found \ expected}
  <1>1. Drift!Population(leg, {}, {}) = {}
    BY DEF Drift!Population
  <1>2. Drift!Current({}) = {}
    BY DEF Drift!Current
  <1>3. QED
    BY <1>1, <1>2 DEF Drift!ReconcileLeg, Opening

\* The two legs find in namespaces of their own.
LEMMA Namespaces ==
    /\ \A found \in SUBSET (Org \X ResourceHeader) :
          /\ found \cap Drift!FingerprintsOf("plan") = found
          /\ found \cap Drift!FingerprintsOf("inventory") = {}
    /\ \A found \in SUBSET (Org \X SweepResource) :
          /\ found \cap Drift!FingerprintsOf("plan") = {}
          /\ found \cap Drift!FingerprintsOf("inventory") = found
  <1>1. \A f \in Org \X ResourceHeader : f \in Fingerprint /\ f[2] \notin SweepResource
    BY DryRunAssumption DEF Fingerprint
  <1>2. \A f \in Org \X SweepResource : f \in Fingerprint /\ f[2] \in SweepResource
    BY DEF Fingerprint
  <1>3. \A f \in Fingerprint : LegOf[f] = IF f[2] \in SweepResource THEN "inventory" ELSE "plan"
    BY DEF LegOf
  <1>4. QED
    BY <1>1, <1>2, <1>3 DEF Drift!FingerprintsOf

\* What stays while a text is previewed.
Settled ==
    /\ existing \in (SUBSET RepoName) \cup {NoFile} /\ config \in Config
    /\ printed # NotPrinted => Parser!Parsed

Declared == Repositories(config)

Strays ==
    IF existing = NoFile THEN {}
    ELSE {<<"undeclared", r>> : r \in {s \in existing : s \notin Declared \cup Unmanaged}}
         \cup {<<"missing", r>> : r \in {s \in Declared : s \notin existing \cup Unmanaged}}

Told == {f \in PlanRecords : f[2] \notin Expected} \cup ({DefaultOrg} \X Strays)

\* The sweep finds what is on one side only.
LEMMA SweepFinds ==
    ASSUME Settled, existing # NoFile
    PROVE  SweepRecords = {DefaultOrg} \X Strays /\ SweepRecords \subseteq Org \X SweepResource
  <1>1. existing \subseteq RepoName /\ Declared \subseteq RepoName
    <2>1. existing \in SUBSET RepoName /\ config \in Config
      BY DEF Settled
    <2>2. \A c \in Config : Repositories(c) \subseteq RepoName
      BY DryRunAssumption
    <2>3. QED
      BY <2>1, <2>2 DEF Declared
  <1>2. Sweep(Declared, existing, Unmanaged) = Strays
    BY DEF Sweep, Strays
  <1>5. DeclaredRepos(config) = Declared
    BY DryRunAssumption, DeclaredAre DEF Settled, Declared
  <1>3. Strays \subseteq SweepResource
    BY <1>1 DEF Strays, SweepResource
  <1>4. DefaultOrg \in Org
    BY DryRunAssumption DEF Parser!TextAssumption
  <1>6. QED
    BY <1>2, <1>3, <1>4, <1>5 DEF SweepRecords

\* What is shown: each finding is opened, and only once.
LEMMA ShownOnce ==
    ASSUME ParserInv, Settled, Show
    PROVE  \E leg \in [Told -> {"plan", "inventory"}] :
              printed' = {Opening(leg[f], f) : f \in Told}
  <1> DEFINE changed == {f \in PlanRecords : f[2] \notin Expected}
             swept == {DefaultOrg} \X Strays
             leg == [f \in Told |-> IF f \in PlanRecords THEN "plan" ELSE "inventory"]
  <1>1. PlanRecords \subseteq Org \X ResourceHeader /\ PlanRecords \ ExpectedRecords = changed
    BY RecordsName DEF ExpectedRecords
  <1>2. CASE existing = NoFile
    <2>1. printed' = Drift!ReconcileLeg("plan", PlanRecords \cap Drift!FingerprintsOf("plan"),
                                        ExpectedRecords, Drift!Population("plan", {}, {}))
      BY <1>2 DEF Show, Drift!ReconcilePopulations
    <2>2. printed' = {Opening("plan", f) : f \in changed}
      BY <1>1, <2>1, LegOpens, Namespaces
    <2>3. Told = changed
      BY <1>2 DEF Told, Strays
    <2>4. leg \in [Told -> {"plan", "inventory"}] /\ \A f \in Told : leg[f] = "plan"
      BY <2>3
    <2> HIDE DEF leg, changed
    <2>5. printed' = {Opening(leg[f], f) : f \in Told}
      BY <2>2, <2>3, <2>4
    <2>6. QED
      BY <2>4, <2>5
  <1>3. CASE existing # NoFile
    <2> DEFINE found == PlanRecords \cup SweepRecords
    <2>1. SweepRecords = swept /\ SweepRecords \subseteq Org \X SweepResource
      BY <1>3, SweepFinds
    <2>2. /\ found \cap Drift!FingerprintsOf("plan") = PlanRecords
          /\ found \cap Drift!FingerprintsOf("inventory") = SweepRecords
      BY <1>1, <2>1, Namespaces
    <2>3. SweepRecords \cap PlanRecords = {}
      BY <1>1, <2>1, DryRunAssumption
    <2>4. SweepRecords \ ExpectedRecords = swept
      BY <2>1, <2>3 DEF ExpectedRecords
    <2>5. printed' = Drift!ReconcilePopulations({"plan", "inventory"}, found, ExpectedRecords, {}, {})
      BY <1>3 DEF Show
    <2> HIDE DEF found, swept, changed
    <2>6. printed' = Drift!ReconcileLeg("plan", PlanRecords, ExpectedRecords,
                                        Drift!Population("plan", {}, {}))
                     \cup Drift!ReconcileLeg("inventory", SweepRecords, ExpectedRecords,
                                             Drift!Population("inventory", {}, {}))
      BY <2>2, <2>5 DEF Drift!ReconcilePopulations
    <2>7. printed' = {Opening("plan", f) : f \in changed} \cup {Opening("inventory", f) : f \in swept}
      BY <1>1, <2>4, <2>6, LegOpens
    <2>8. Told = changed \cup swept /\ changed \subseteq PlanRecords /\ swept \cap PlanRecords = {}
      BY <2>1, <2>3 DEF Told, changed, swept
    <2>9. (\A f \in changed : leg[f] = "plan") /\ \A f \in swept : leg[f] = "inventory"
      BY <2>8
    <2>10. leg \in [Told -> {"plan", "inventory"}]
      OBVIOUS
    <2> HIDE DEF leg
    <2>11. printed' = {Opening(leg[f], f) : f \in Told}
      BY <2>7, <2>8, <2>9
    <2>12. QED
      BY <2>10, <2>11
  <1>4. QED
    BY <1>2, <1>3

\* A preview that is shown is of the whole text and of both sides of the sweep.
LEMMA ShownWhole ==
    ASSUME ParserInv, Settled, Show
    PROVE  PreviewIsWhole'
  <1>1. UNCHANGED <<text, pos, block, org, summary, records, config, existing>> /\ Parser!Parsed
    BY DEF Show
  <1>2. PICK leg \in [Told -> {"plan", "inventory"}] : printed' = {Opening(leg[f], f) : f \in Told}
    BY ShownOnce
  <1>3. {a.fp : a \in printed'} = Told
    <2>1. \A f \in Told : Opening(leg[f], f) \in printed' /\ Opening(leg[f], f).fp = f
      BY <1>2 DEF Opening
    <2>2. \A a \in printed' : \E f \in Told : a = Opening(leg[f], f)
      BY <1>2
    <2>3. \A a \in printed' : a.fp \in Told
      BY <2>2 DEF Opening
    <2>4. Told \subseteq {a.fp : a \in printed'}
      <3>1. SUFFICES ASSUME NEW f \in Told PROVE \E a \in printed' : f = a.fp
        OBVIOUS
      <3>2. QED
        BY <2>1
    <2>5. QED
      BY <2>3, <2>4
  <1>4. /\ \A a \in printed' : a.kind = "open"
        /\ \A a, b \in printed' : a.fp = b.fp => a = b
    BY <1>2 DEF Opening
  <1>5. Told = {f \in Org \X ResourceHeader : Changes(f[1], f[2]) /\ f[2] \notin Expected}
               \cup ({DefaultOrg} \X Strays)
    BY <1>1, RecordsAreChanges DEF Told
  <1>6. QED
    BY <1>1, <1>3, <1>4, <1>5 DEF PreviewIsWhole, Strays, Declared, Changes

-----------------------------------------------------------------------------
\* The theorems of the preview.

\* A step of the preview is one of the parser, or leaves it alone.
LEMMA PreviewParses == [PreviewNext]_previewVars => [Parser!Next]_(Parser!vars)
  BY DEF PreviewNext, Parse, Show, previewVars, Parser!vars

\* Whatever the text, once parse_plan is over its records are the blocks of the text,
\* each with its resource and the organization in force at its opener: no resource is
\* lost to a neighbour's block that the text closes, and none is made up.
THEOREM RecordsAreBlocksCorrect == PreviewSpec => []RecordsAreBlocks
  <1>1. PreviewInit => Parser!Init
    BY DEF PreviewInit
  <1>2. PreviewSpec => Parser!Spec
    BY <1>1, PreviewParses, PTL DEF PreviewSpec, Parser!Spec
  <1>3. QED
    BY <1>2, ParserInvariant, RecordsTell, PTL

\* A preview shows all of a plan and of the sweep: for any text, config and list of
\* repositories, one new issue for each change that is not expected and each repository
\* in scope that is on one side only, and nothing else.
THEOREM PreviewIsWholeCorrect == PreviewSpec => []PreviewIsWhole
  <1>1. PreviewInit => ParserInv /\ Settled /\ PreviewIsWhole
    BY ParserInit, DryRunAssumption DEF PreviewInit, Settled, PreviewIsWhole
  <1>2. ParserInv /\ Settled /\ PreviewIsWhole /\ [PreviewNext]_previewVars
           => ParserInv' /\ Settled' /\ PreviewIsWhole'
    <2> SUFFICES ASSUME ParserInv, Settled, PreviewIsWhole, [PreviewNext]_previewVars
                 PROVE  ParserInv' /\ Settled' /\ PreviewIsWhole'
      OBVIOUS
    <2>1. ParserInv'
      BY PreviewParses, ParserStep, ParserStill
    <2>2. CASE Parse
      <3>1. printed = NotPrinted
        <4>1. text \in Text /\ pos \in Nat /\ Len(text) \in Nat
          BY DryRunAssumption DEF ParserInv, Parser!TypeOK, Parser!TextAssumption
        <4>2. ~ Parser!Parsed
          BY <2>2, <4>1 DEF Parse, Parser!Parsed, Parser!Next, Parser!Header, Parser!Trailer,
             Parser!Open, Parser!Skip, Parser!Outside, Parser!Consume, Parser!Close, Parser!CutOff
        <4>3. QED
          BY <4>2 DEF Settled
      <3>2. QED
        BY <2>1, <2>2, <3>1 DEF Parse, Settled, PreviewIsWhole
    <2>3. CASE Show
      <3>1. Settled'
        BY <2>3 DEF Show, Settled, Parser!Parsed
      <3>2. QED
        BY <2>1, <2>3, <3>1, ShownWhole
    <2>4. CASE UNCHANGED previewVars
      BY <2>1, <2>4 DEF previewVars, Settled, PreviewIsWhole, Parser!Parsed, Changes
    <2>5. QED
      BY <2>2, <2>3, <2>4 DEF PreviewNext
  <1>3. QED
    BY <1>1, <1>2, PTL DEF PreviewSpec

-----------------------------------------------------------------------------
\* The braces that are open.

LEMMA MarksFinite ==
    ASSUME NEW t, IsText(t), NEW i \in DOMAIN t, NEW k \in DOMAIN t, NEW kind
    PROVE  IsFiniteSet(Marks(t, i, k, kind)) /\ Cardinality(Marks(t, i, k, kind)) \in Nat
  <1>1. i \in Int /\ k \in Int /\ i .. k \subseteq DOMAIN t
    BY LineIs
  <1> DEFINE f == [l \in i .. k |-> {l} \X DOMAIN t[l]]
             S == {{l} \X DOMAIN t[l] : l \in i .. k}
  <1>2. IsFiniteSet(S)
    <2>1. f \in Surjection(i .. k, S)
      BY DEF Surjection
    <2>2. IsFiniteSet(i .. k)
      BY <1>1, FS_Interval
    <2> HIDE DEF f, S
    <2>3. QED
      BY <2>1, <2>2, FS_Surjection
  <1>3. \A T \in S : IsFiniteSet(T)
    <2>1. SUFFICES ASSUME NEW l \in i .. k PROVE IsFiniteSet({l} \X DOMAIN t[l])
      OBVIOUS
    <2>2. Len(t[l]) \in Nat /\ DOMAIN t[l] = 1 .. Len(t[l])
      BY <1>1, LineIs
    <2>3. IsFiniteSet({l}) /\ IsFiniteSet(DOMAIN t[l])
      <3>1. IsFiniteSet(1 .. Len(t[l]))
        BY <2>2, FS_Interval
      <3>2. QED
        BY <2>2, <3>1, FS_Singleton
    <2>4. QED
      BY <2>3, FS_Product
  <1>4. IsFiniteSet(UNION S)
    BY <1>2, <1>3, FS_UNION
  <1>5. Marks(t, i, k, kind) \in SUBSET (UNION S)
    BY DEF Marks
  <1> HIDE DEF S
  <1>6. QED
    BY <1>4, <1>5, FS_Subset, FS_CardinalityType

LEMMA CountIs ==
    ASSUME NEW t, IsText(t), NEW l \in DOMAIN t, NEW kind
    PROVE  Count(Code(t[l]), kind) = Cardinality(Marks(t, l, l, kind))
  <1> DEFINE c == Code(t[l])
             I == {p \in DOMAIN c : c[p].is = kind}
             f == [q \in Marks(t, l, l, kind) |-> q[2]]
  <1>1. \A q \in Marks(t, l, l, kind) : q = <<l, q[2]>> /\ q[2] \in I
    BY Found
  <1>2. \A p \in I : <<l, p>> \in Marks(t, l, l, kind)
    BY Found
  <1>3. f \in Bijection(Marks(t, l, l, kind), I)
    <2>1. f \in [Marks(t, l, l, kind) -> I]
      BY <1>1
    <2>2. \A a, b \in Marks(t, l, l, kind) : f[a] = f[b] => a = b
      BY <1>1
    <2>3. \A p \in I : \E q \in Marks(t, l, l, kind) : f[q] = p
      BY <1>2
    <2>4. QED
      BY <2>1, <2>2, <2>3 DEF Bijection, Injection, Surjection, IsInjective
  <1>4. IsFiniteSet(Marks(t, l, l, kind))
    BY MarksFinite
  <1> HIDE DEF f, I
  <1>5. Cardinality(I) = Cardinality(Marks(t, l, l, kind))
    BY <1>3, <1>4, FS_Bijection DEF ExistsBijection
  <1>6. QED
    BY <1>5 DEF Count, I

LEMMA DepthOfLine ==
    ASSUME NEW t, IsText(t), NEW l \in DOMAIN t
    PROVE  Braces(Code(t[l])) = Depth(t, l, l) /\ Depth(t, l, l) \in Int
  <1>1. Count(Code(t[l]), "open") = Cardinality(Marks(t, l, l, "open")) /\ Cardinality(Marks(t, l, l, "open")) \in Nat
    BY CountIs, MarksFinite
  <1>2. Count(Code(t[l]), "close") = Cardinality(Marks(t, l, l, "close")) /\ Cardinality(Marks(t, l, l, "close")) \in Nat
    BY CountIs, MarksFinite
  <1>3. QED
    BY <1>1, <1>2 DEF Braces, Depth

LEMMA DepthAdds ==
    ASSUME NEW t, IsText(t), NEW i \in DOMAIN t, NEW k \in DOMAIN t, i < k
    PROVE  Depth(t, i, k) = Depth(t, i, k - 1) + Depth(t, k, k) /\ Depth(t, i, k - 1) \in Int
  <1>1. i \in Int /\ k \in Int /\ k - 1 \in DOMAIN t
    BY LineIs
  <1>2. ASSUME NEW kind
        PROVE  /\ Cardinality(Marks(t, i, k, kind))
                  = Cardinality(Marks(t, i, k - 1, kind)) + Cardinality(Marks(t, k, k, kind))
               /\ Cardinality(Marks(t, i, k - 1, kind)) \in Nat
               /\ Cardinality(Marks(t, k, k, kind)) \in Nat
    <2>1. /\ Marks(t, i, k, kind) = Marks(t, i, k - 1, kind) \cup Marks(t, k, k, kind)
          /\ Marks(t, i, k - 1, kind) \cap Marks(t, k, k, kind) = {}
      BY <1>1, MarksSplit
    <2>2. /\ IsFiniteSet(Marks(t, i, k - 1, kind)) /\ IsFiniteSet(Marks(t, k, k, kind))
          /\ Cardinality(Marks(t, i, k - 1, kind)) \in Nat
          /\ Cardinality(Marks(t, k, k, kind)) \in Nat
      BY <1>1, MarksFinite
    <2>3. QED
      <3>1. Cardinality(Marks(t, i, k, kind))
               = Cardinality(Marks(t, i, k - 1, kind)) + Cardinality(Marks(t, k, k, kind)) - Cardinality({})
        BY <2>1, <2>2, FS_Union
      <3>2. Cardinality({}) = 0
        BY FS_EmptySet
      <3>3. QED
        BY <2>2, <3>1, <3>2
  <1>3. /\ Cardinality(Marks(t, i, k, "open"))
           = Cardinality(Marks(t, i, k - 1, "open")) + Cardinality(Marks(t, k, k, "open"))
        /\ Cardinality(Marks(t, i, k, "close"))
           = Cardinality(Marks(t, i, k - 1, "close")) + Cardinality(Marks(t, k, k, "close"))
        /\ Cardinality(Marks(t, i, k - 1, "open")) \in Nat /\ Cardinality(Marks(t, k, k, "open")) \in Nat
        /\ Cardinality(Marks(t, i, k - 1, "close")) \in Nat /\ Cardinality(Marks(t, k, k, "close")) \in Nat
    BY <1>2
  <1>4. QED
    BY <1>3 DEF Depth

-----------------------------------------------------------------------------
\* The lists of readers.

\* A list that begins on line i or after goes on after line k.
OpenList(t, i, k) ==
    \E r \in Marks(t, i, k, "readers") : \A e \in Marks(t, i, k, "end") : ~ Before(r, e)

\* The marks of a line come after those of the lines before it.
LEMMA Sides ==
    ASSUME NEW t, NEW i \in Int, NEW k \in Int, i < k, NEW f, NEW g,
           NEW a \in Marks(t, i, k - 1, f), NEW b, b[1] = k
    PROVE  Before(a, b) /\ ~ Before(b, a)
  <1>1. k - 1 \in Int /\ \A n \in i .. k - 1 : n \in Int /\ n < k
    OBVIOUS
  <1>2. a[1] \in Int /\ a[1] < k
    BY <1>1, MarkIs
  <1>3. QED
    BY <1>2 DEF Before

LEMMA OnLine ==
    ASSUME NEW t, NEW k \in Int, NEW f, NEW a \in Marks(t, k, k, f)
    PROVE  a[1] = k
  <1>1. \A n \in k .. k : n = k
    OBVIOUS
  <1>2. QED
    BY <1>1, MarkIs

\* What is listed on a line is in a list that went on before it, or that begins on it.
LEMMA ListedOnLine ==
    ASSUME NEW t, NEW i \in Int, NEW k \in Int, i < k, NEW q, q[1] = k
    PROVE  Listed(t, i, q) <=>
              \/ OpenList(t, i, k - 1) /\ \A e \in Marks(t, k, k, "end") : ~ Before(e, q)
              \/ \E r \in Marks(t, k, k, "readers") :
                    /\ Before(r, q)
                    /\ \A e \in Marks(t, k, k, "end") : ~ (Before(r, e) /\ Before(e, q))
  <1> DEFINE old(kind) == Marks(t, i, k - 1, kind)
             new(kind) == Marks(t, k, k, kind)
  <1>1. \A kind : Marks(t, i, k, kind) = old(kind) \cup new(kind)
    BY MarksSplit
  <1>2. \A kind : \A a \in old(kind) : Before(a, q) /\ ~ Before(q, a)
    BY Sides
  <1>3. \A f, g : \A a \in old(f), b \in new(g) : Before(a, b) /\ ~ Before(b, a)
    BY Sides, OnLine
  <1> HIDE DEF old, new
  <1>4. Listed(t, i, q) <=>
           \E r \in old("readers") \cup new("readers") :
              Before(r, q) /\ \A e \in old("end") \cup new("end") : ~ (Before(r, e) /\ Before(e, q))
    BY <1>1 DEF Listed
  <1>5. OpenList(t, i, k - 1) <=> \E r \in old("readers") : \A e \in old("end") : ~ Before(r, e)
    BY DEF OpenList, old
  <1>6. QED
    BY <1>2, <1>3, <1>4, <1>5 DEF new

LEMMA OpenListStep ==
    ASSUME NEW t, NEW i \in Int, NEW k \in Int, i < k
    PROVE  OpenList(t, i, k) <=>
              \/ OpenList(t, i, k - 1) /\ Marks(t, k, k, "end") = {}
              \/ \E r \in Marks(t, k, k, "readers") : \A e \in Marks(t, k, k, "end") : ~ Before(r, e)
  <1> DEFINE old(kind) == Marks(t, i, k - 1, kind)
             new(kind) == Marks(t, k, k, kind)
  <1>1. \A kind : Marks(t, i, k, kind) = old(kind) \cup new(kind)
    BY MarksSplit
  <1>2. \A f, g : \A a \in old(f), b \in new(g) : Before(a, b) /\ ~ Before(b, a)
    BY Sides, OnLine
  <1> HIDE DEF old, new
  <1>3. OpenList(t, i, k) <=>
           \E r \in old("readers") \cup new("readers") :
              \A e \in old("end") \cup new("end") : ~ Before(r, e)
    BY <1>1 DEF OpenList
  <1>4. OpenList(t, i, k - 1) <=> \E r \in old("readers") : \A e \in old("end") : ~ Before(r, e)
    BY DEF OpenList, old
  <1>5. QED
    BY <1>2, <1>3, <1>4 DEF new

LEMMA ListedStep ==
    ASSUME NEW t, NEW i \in Int, NEW k \in Int, i < k
    PROVE  ListedIn(t, i, k) = ListedIn(t, i, k - 1) \cup {q \in Marks(t, k, k, "string") : Listed(t, i, q)}
  BY MarksSplit DEF ListedIn

\* What follows the list's opener on its line.
LEMMA AfterIs ==
    ASSUME NEW t, IsText(t), NEW l \in DOMAIN t, NEW r \in Marks(t, l, l, "readers"),
           \A a \in Marks(t, l, l, "readers") : a = r
    PROVE  LET tail == After(Code(t[l]), "readers")
           IN  /\ \A kind : Has(tail, kind) <=> \E q \in Marks(t, l, l, kind) : Before(r, q)
               /\ \A kinds : Texts(tail, kinds)
                     = UNION {Says(t, {q \in Marks(t, l, l, kind) : Before(r, q)}) : kind \in kinds}
  <1> DEFINE c == Code(t[l])
             n == Place(c, "readers")
             tail == After(c, "readers")
  <1>1. Len(c) \in Nat /\ DOMAIN c = 1 .. Len(c)
    BY CodeIs
  <1>2. Has(c, "readers")
    BY HasIs
  <1>3. n \in 1 .. Len(c) /\ <<l, n>> = r
    <2>1. n \in 1 .. Len(c)
      BY <1>1, <1>2, PlaceIs DEF Has
    <2>2. <<l, n>> \in Marks(t, l, l, "readers")
      BY <1>2, FirstIs
    <2>3. QED
      BY <2>1, <2>2
  <1>4. \A p \in 1 .. Len(c) : Before(r, <<l, p>>) <=> n < p
    <2>1. l \in Int
      BY LineIs
    <2>2. QED
      BY <1>3, <2>1 DEF Before
  <1> HIDE DEF n
  <1>5. /\ DOMAIN tail = 1 .. Len(c) - n
        /\ \A p \in 1 .. Len(c) - n : tail[p] = c[n + p]
    <2>1. tail = [p \in 1 .. Len(c) - n |-> c[n + p]]
      <3>1. tail = SubSeq(c, n + 1, Len(c))
        BY DEF After, n
      <3> HIDE DEF tail, c
      <3>2. SubSeq(c, n + 1, Len(c)) = [p \in 1 .. Len(c) - n |-> c[n + p]]
        BY <1>1, <1>3
      <3>3. QED
        BY <3>1, <3>2
    <2> HIDE DEF tail
    <2>2. QED
      BY <2>1
  <1> HIDE DEF tail
  <1>6. ASSUME NEW p \in DOMAIN tail
        PROVE  /\ <<l, n + p>> \in Marks(t, l, l, tail[p].is)
               /\ Before(r, <<l, n + p>>)
               /\ tail[p] = Token(t, <<l, n + p>>)
    <2>1. n + p \in 1 .. Len(c) /\ n < n + p
      BY <1>1, <1>3, <1>5
    <2>2. tail[p] = c[n + p]
      BY <1>5
    <2>3. QED
      BY <1>1, <1>4, <2>1, <2>2, Found
  <1>7. ASSUME NEW kind, NEW q \in Marks(t, l, l, kind), Before(r, q)
        PROVE  \E p \in DOMAIN tail : tail[p].is = kind /\ tail[p] = Token(t, q)
    <2>1. q = <<l, q[2]>>
      BY Found
    <2>2. q[2] \in DOMAIN c /\ c[q[2]].is = kind /\ c[q[2]] = Token(t, q)
      <3>1. q[2] \in DOMAIN c /\ c[q[2]].is = kind
        BY <2>1, Found
      <3>2. c[q[2]] = Token(t, <<l, q[2]>>)
        BY <3>1, Found
      <3>3. QED
        BY <2>1, <3>1, <3>2
    <2>3. n < q[2]
      BY <1>1, <1>4, <1>7, <2>1, <2>2
    <2>4. q[2] - n \in DOMAIN tail /\ tail[q[2] - n] = c[q[2]]
      <3>1. q[2] - n \in 1 .. Len(c) - n /\ n + (q[2] - n) = q[2]
        BY <1>1, <1>3, <2>2, <2>3
      <3>2. QED
        BY <1>5, <3>1
    <2>5. QED
      BY <2>2, <2>4
  <1>8. ASSUME NEW kind
        PROVE  Has(tail, kind) <=> \E q \in Marks(t, l, l, kind) : Before(r, q)
    BY <1>6, <1>7 DEF Has
  <1>9. ASSUME NEW kinds
        PROVE  Texts(tail, kinds)
                  = UNION {Says(t, {q \in Marks(t, l, l, kind) : Before(r, q)}) : kind \in kinds}
    <2>1. ASSUME NEW s \in Texts(tail, kinds)
          PROVE  \E kind \in kinds : s \in Says(t, {q \in Marks(t, l, l, kind) : Before(r, q)})
      <3>1. PICK p \in DOMAIN tail : tail[p].is \in kinds /\ s = tail[p].str
        BY DEF Texts
      <3>2. QED
        BY <1>6, <3>1 DEF Says
    <2>2. ASSUME NEW kind \in kinds, NEW q \in Marks(t, l, l, kind), Before(r, q)
          PROVE  Token(t, q).str \in Texts(tail, kinds)
      BY <1>7, <2>2 DEF Texts
    <2>3. QED
      BY <2>1, <2>2 DEF Says
  <1>10. QED
    BY <1>8, <1>9 DEF tail

-----------------------------------------------------------------------------
\* What a line of a constructor says, one field per line.

\* The parts of what a line adds to a secret that was read up to it.
LEMMA DeclaresStep ==
    ASSUME NEW t, NEW i \in Int, NEW k \in Int, i < k, NEW old, NEW new,
           Declares(t, i, k - 1, old),
           \/ Marks(t, k, k, "visibility") = {} /\ new.visibility = old.visibility
           \/ new.visibility \in Says(t, Marks(t, k, k, "visibility")),
           \/ Marks(t, k, k, "value") = {} /\ new.dummy = old.dummy
           \/ \E s \in Says(t, Marks(t, k, k, "value")) : new.dummy = (s = Dummy),
           new.readers = old.readers \cup Says(t, {q \in Marks(t, k, k, "string") : Listed(t, i, q)})
    PROVE  Declares(t, i, k, new)
  <1> DEFINE was(kind) == Marks(t, i, k - 1, kind)
             now(kind) == Marks(t, k, k, kind)
  <1>1. \A kind : Marks(t, i, k, kind) = was(kind) \cup now(kind)
    BY MarksSplit
  <1>2. \A A, B : Says(t, A \cup B) = Says(t, A) \cup Says(t, B)
    BY DEF Says
  <1>3. Says(t, {}) = {}
    BY DEF Says
  <1>4. \A A : Says(t, A) # {} => A # {}
    BY <1>3
  <1>5. new.readers = Says(t, ListedIn(t, i, k))
    <2>1. old.readers = Says(t, ListedIn(t, i, k - 1))
      BY DEF Declares
    <2>2. QED
      BY <1>2, <2>1, ListedStep
  <1> HIDE DEF was, now
  <1>6. LET marks == Marks(t, i, k, "visibility")
        IN  IF marks = {} THEN new.visibility = "public" ELSE new.visibility \in Says(t, marks)
    <2>1. IF was("visibility") = {} THEN old.visibility = "public" ELSE old.visibility \in Says(t, was("visibility"))
      BY DEF Declares, was
    <2>2. \/ now("visibility") = {} /\ new.visibility = old.visibility
          \/ new.visibility \in Says(t, now("visibility"))
      BY DEF now
    <2>3. QED
      BY <1>1, <1>2, <1>4, <2>1, <2>2
  <1>7. LET marks == Marks(t, i, k, "value")
        IN  IF marks = {} THEN new.dummy = FALSE ELSE \E s \in Says(t, marks) : new.dummy = (s = Dummy)
    <2>1. IF was("value") = {} THEN old.dummy = FALSE ELSE \E s \in Says(t, was("value")) : old.dummy = (s = Dummy)
      BY DEF Declares, was
    <2>2. \/ now("value") = {} /\ new.dummy = old.dummy
          \/ \E s \in Says(t, now("value")) : new.dummy = (s = Dummy)
      BY DEF now
    <2>3. QED
      BY <1>1, <1>2, <1>4, <2>1, <2>2
  <1>8. QED
    BY <1>5, <1>6, <1>7 DEF Declares

\* A line that is not over, of a constructor as jsonnetfmt leaves it.
LEMMA TidyLine ==
    ASSUME NEW t, IsText(t), NEW i \in Constructors(t), Tidy(t, i),
           NEW k \in DOMAIN t, i <= k, Within(t, i, k)
    PROVE  /\ i \in Int /\ k \in Int /\ i \in DOMAIN t /\ k - 1 \in Int
           /\ k # i => Marks(t, k, k, "secret") = {}
           /\ \A f, g \in Field : \A a \in Marks(t, k, k, f), b \in Marks(t, k, k, g) : a = b
           /\ \A f \in Quoting \cup {"readers"} : \A q \in Marks(t, k, k, f) :
                 /\ f # "string" => ~ Listed(t, i, q)
                 /\ \A e \in Marks(t, k, k, "end") : ~ Before(e, q)
  <1>1. i \in DOMAIN t /\ DOMAIN t = 1 .. Len(t) /\ Len(t) \in Nat
    BY LineIs DEF Constructors
  <1>2. i \in Int /\ k \in Int /\ k - 1 \in Int /\ k \in i .. Len(t)
    BY <1>1
  <1>3. QED
    BY <1>1, <1>2 DEF Tidy

\* One field alone on a line.
LEMMA Alone ==
    ASSUME NEW t, NEW k \in Int,
           \A f, g \in Field : \A a \in Marks(t, k, k, f), b \in Marks(t, k, k, g) : a = b,
           NEW f \in Field, Marks(t, k, k, f) # {}
    PROVE  \A g \in Field \ {f} : Marks(t, k, k, g) = {}
  <1>1. SUFFICES ASSUME NEW g \in Field \ {f}, NEW b \in Marks(t, k, k, g) PROVE FALSE
    OBVIOUS
  <1>2. PICK a \in Marks(t, k, k, f) : TRUE
    OBVIOUS
  <1>3. a = b
    BY <1>1, <1>2
  <1>4. Token(t, a).is = f /\ Token(t, b).is = g
    BY MarkIs
  <1>5. QED
    BY <1>3, <1>4

\* A line of a list that goes on.
LEMMA ListLine ==
    ASSUME NEW t, IsText(t), NEW i \in Constructors(t), Tidy(t, i),
           NEW k \in DOMAIN t, i < k, Within(t, i, k), OpenList(t, i, k - 1)
    PROVE  /\ \A f \in (Quoting \ {"string"}) \cup {"readers"} : Marks(t, k, k, f) = {}
           /\ Quoted(Code(t[k])) = Says(t, {q \in Marks(t, k, k, "string") : Listed(t, i, q)})
           /\ OpenList(t, i, k) <=> ~ Has(Code(t[k]), "end")
  <1>1. i \in Int /\ k \in Int /\ i <= k
    BY LineIs DEF Constructors
  <1>2. \A f \in Quoting \cup {"readers"} : \A q \in Marks(t, k, k, f) : f = "string" /\ Listed(t, i, q)
    <2>1. SUFFICES ASSUME NEW f \in Quoting \cup {"readers"}, NEW q \in Marks(t, k, k, f)
                   PROVE  f = "string" /\ Listed(t, i, q)
      OBVIOUS
    <2>2. (f # "string" => ~ Listed(t, i, q)) /\ \A e \in Marks(t, k, k, "end") : ~ Before(e, q)
      BY <1>1, TidyLine
    <2>3. q[1] = k
      BY <1>1, OnLine
    <2>4. Listed(t, i, q)
      BY <1>1, <2>2, <2>3, ListedOnLine
    <2>5. QED
      BY <2>2, <2>4
  <1>3. \A f \in (Quoting \ {"string"}) \cup {"readers"} : Marks(t, k, k, f) = {}
    BY <1>2 DEF Quoting
  <1>4. {q \in Marks(t, k, k, "string") : Listed(t, i, q)} = Marks(t, k, k, "string")
    BY <1>2 DEF Quoting
  <1>5. Quoted(Code(t[k])) = Says(t, Marks(t, k, k, "string"))
    <2>1. Quoted(Code(t[k])) = UNION {Says(t, Marks(t, k, k, f)) : f \in Quoting}
      BY TextsAre DEF Quoted
    <2>2. \A f \in Quoting \ {"string"} : Says(t, Marks(t, k, k, f)) = {}
      BY <1>3 DEF Says
    <2>3. "string" \in Quoting
      BY DEF Quoting
    <2>4. QED
      BY <2>1, <2>2, <2>3
  <1>6. OpenList(t, i, k) <=> Marks(t, k, k, "end") = {}
    BY <1>1, <1>3, OpenListStep
  <1>7. QED
    BY <1>3, <1>4, <1>5, <1>6, HasIs

\* A line on which a list begins.
LEMMA ListOpensLine ==
    ASSUME NEW t, IsText(t), NEW i \in Constructors(t), Tidy(t, i),
           NEW k \in DOMAIN t, i < k, Within(t, i, k), ~ OpenList(t, i, k - 1),
           Has(Code(t[k]), "readers")
    PROVE  /\ \A f \in Field \ {"readers"} : Marks(t, k, k, f) = {}
           /\ Quoted(After(Code(t[k]), "readers"))
                 = Says(t, {q \in Marks(t, k, k, "string") : Listed(t, i, q)})
           /\ OpenList(t, i, k) <=> ~ Has(After(Code(t[k]), "readers"), "end")
  <1>1. i \in Int /\ k \in Int /\ i <= k
    BY LineIs DEF Constructors
  <1>2. /\ \A f, g \in Field : \A a \in Marks(t, k, k, f), b \in Marks(t, k, k, g) : a = b
        /\ \A f \in Quoting \cup {"readers"} : \A q \in Marks(t, k, k, f) :
              (f # "string" => ~ Listed(t, i, q)) /\ \A e \in Marks(t, k, k, "end") : ~ Before(e, q)
    BY <1>1, TidyLine
  <1>3. PICK r \in Marks(t, k, k, "readers") : TRUE
    BY HasIs
  <1>4. Marks(t, k, k, "readers") = {r}
    BY <1>2 DEF Field
  <1>5. \A f \in Field \ {"readers"} : Marks(t, k, k, f) = {}
    <2>1. "readers" \in Field /\ Marks(t, k, k, "readers") # {}
      BY <1>4 DEF Field
    <2>2. QED
      BY <1>1, <1>2, <2>1, Alone
  <1>6. \A f \in Quoting : \A q \in Marks(t, k, k, f) : Listed(t, i, q) <=> Before(r, q)
    <2>1. SUFFICES ASSUME NEW f \in Quoting, NEW q \in Marks(t, k, k, f)
                   PROVE  Listed(t, i, q) <=> Before(r, q)
      OBVIOUS
    <2>2. q[1] = k
      BY <1>1, OnLine
    <2>3. \A e \in Marks(t, k, k, "end") : ~ Before(e, q)
      BY <1>2
    <2>4. QED
      BY <1>1, <1>4, <2>2, <2>3, ListedOnLine
  <1>7. \A f \in Quoting \ {"string"} : {q \in Marks(t, k, k, f) : Before(r, q)} = {}
    BY <1>2, <1>6
  <1>8. Quoted(After(Code(t[k]), "readers")) = Says(t, {q \in Marks(t, k, k, "string") : Before(r, q)})
    <2> DEFINE said(f) == Says(t, {q \in Marks(t, k, k, f) : Before(r, q)})
    <2>1. Quoted(After(Code(t[k]), "readers")) = UNION {said(f) : f \in Quoting}
      BY <1>4, AfterIs DEF Quoted
    <2>2. \A f \in Quoting \ {"string"} : said(f) = {}
      BY <1>7 DEF Says
    <2>3. "string" \in Quoting
      BY DEF Quoting
    <2> HIDE DEF said
    <2>4. Quoted(After(Code(t[k]), "readers")) = said("string")
      BY <2>1, <2>2, <2>3
    <2>5. QED
      BY <2>4 DEF said
  <1>9. {q \in Marks(t, k, k, "string") : Before(r, q)} = {q \in Marks(t, k, k, "string") : Listed(t, i, q)}
    BY <1>6 DEF Quoting
  <1>10. OpenList(t, i, k) <=> ~ \E e \in Marks(t, k, k, "end") : Before(r, e)
    BY <1>1, <1>4, OpenListStep
  <1>11. Has(After(Code(t[k]), "readers"), "end") <=> \E e \in Marks(t, k, k, "end") : Before(r, e)
    BY <1>4, AfterIs
  <1>12. QED
    BY <1>5, <1>8, <1>9, <1>10, <1>11

\* A line outside of the lists.
LEMMA FieldLine ==
    ASSUME NEW t, IsText(t), NEW i \in Constructors(t), Tidy(t, i),
           NEW k \in DOMAIN t, i < k, Within(t, i, k), ~ OpenList(t, i, k - 1),
           ~ Has(Code(t[k]), "readers")
    PROVE  /\ {q \in Marks(t, k, k, "string") : Listed(t, i, q)} = {}
           /\ ~ OpenList(t, i, k)
  <1>1. i \in Int /\ k \in Int /\ i <= k
    BY LineIs DEF Constructors
  <1>2. Marks(t, k, k, "readers") = {}
    BY HasIs
  <1>3. ~ OpenList(t, i, k)
    BY <1>1, <1>2, OpenListStep
  <1>4. \A q \in Marks(t, k, k, "string") : ~ Listed(t, i, q)
    BY <1>1, <1>2, ListedOnLine, OnLine
  <1>5. QED
    BY <1>3, <1>4

\* The line of a constructor: its name, and none of its fields.
LEMMA ConstructorLine ==
    ASSUME NEW t, IsText(t), NEW i \in DOMAIN t, Has(Code(t[i]), "secret"), Formatted(t)
    PROVE  /\ i \in Constructors(t)
           /\ First(Code(t[i]), "secret") = NameAt(t, i)
           /\ \E q \in Marks(t, i, i, "secret") : NameAt(t, i) = Token(t, q).str
           /\ Declares(t, i, i, DefaultSecret)
           /\ ~ OpenList(t, i, i)
  <1>1. i \in Int /\ i - 1 \in Int
    BY LineIs
  <1>2. i \in Constructors(t) /\ Marks(t, i, i, "secret") # {}
    BY HasIs DEF Constructors
  <1>3. Within(t, i, i)
    BY <1>1 DEF Within
  <1>4. \A f, g \in Field : \A a \in Marks(t, i, i, f), b \in Marks(t, i, i, g) : a = b
    BY <1>1, <1>2, <1>3, TidyLine DEF Formatted
  <1>5. /\ First(Code(t[i]), "secret") = NameAt(t, i)
        /\ \E q \in Marks(t, i, i, "secret") : NameAt(t, i) = Token(t, q).str
    <2>1. PICK q \in Marks(t, i, i, "secret") : First(Code(t[i]), "secret") = Token(t, q).str
      BY FirstIs
    <2>2. (CHOOSE p \in Marks(t, i, i, "secret") : TRUE) \in Marks(t, i, i, "secret")
      BY <1>2
    <2>3. (CHOOSE p \in Marks(t, i, i, "secret") : TRUE) = q
      BY <1>4, <2>2 DEF Field
    <2>4. QED
      BY <2>1, <2>3 DEF NameAt
  <1>6. Marks(t, i, i, "visibility") = {} /\ Marks(t, i, i, "value") = {} /\ Marks(t, i, i, "readers") = {}
    BY <1>1, <1>2, <1>4, Alone DEF Field
  <1>7. ListedIn(t, i, i) = {}
    <2>1. \A q \in Marks(t, i, i, "string") : ~ Listed(t, i, q)
      BY <1>1, <1>6, OnLine DEF Listed
    <2>2. QED
      BY <2>1 DEF ListedIn
  <1>8. Declares(t, i, i, DefaultSecret)
    BY <1>6, <1>7 DEF Declares, DefaultSecret, Says
  <1>9. ~ OpenList(t, i, i)
    BY <1>6 DEF OpenList
  <1>10. QED
    BY <1>2, <1>5, <1>8, <1>9

-----------------------------------------------------------------------------
\* The constructors that are over, and what is kept of them.

\* The constructors that ended before line k + 1.
Over(t, k) == {i \in Constructors(t) : \E l \in i .. k : Ends(t, i, l)}

\* What e keeps of them: the names, and what the last of a name says.
Kept(t, k, e) ==
    /\ DOMAIN e = {NameAt(t, i) : i \in Over(t, k)}
    /\ \A i \in Over(t, k) :
          (\A j \in Over(t, k) : NameAt(t, j) = NameAt(t, i) => j <= i) =>
              \E l \in i .. k : Ends(t, i, l) /\ Declares(t, i, l, e[NameAt(t, i)])

LEMMA OverStep ==
    ASSUME NEW t, IsText(t), NEW k \in DOMAIN t
    PROVE  /\ k \in Int /\ k - 1 \in Int /\ Constructors(t) \subseteq Int
           /\ Over(t, k - 1) \subseteq Over(t, k)
           /\ \A i \in Over(t, k) : i <= k /\ (i \in Over(t, k - 1) \/ Ends(t, i, k))
           /\ \A i \in Constructors(t) : i <= k /\ Ends(t, i, k) => i \in Over(t, k)
           /\ \A i \in Over(t, k - 1) : i < k
  <1>1. k \in Int /\ k - 1 \in Int /\ Constructors(t) \subseteq Int
    BY LineIs DEF Constructors
  <1>2. \A i \in Int : \A l \in i .. k - 1 : l \in i .. k /\ i <= k - 1 /\ i < k
    BY <1>1
  <1>3. \A i \in Int : \A l \in i .. k : i <= k /\ (l \in i .. k - 1 \/ l = k)
    BY <1>1
  <1>4. \A i \in Int : i <= k => k \in i .. k
    BY <1>1
  <1>5. QED
    BY <1>1, <1>2, <1>3, <1>4 DEF Over

\* A constructor that goes on after line k - 1 is not over.
LEMMA NotOver ==
    ASSUME NEW t, IsText(t), NEW i \in Constructors(t), NEW k \in Int, k <= Len(t) + 1, Within(t, i, k)
    PROVE  i \notin Over(t, k - 1)
  <1>1. SUFFICES ASSUME NEW l \in i .. k - 1, Ends(t, i, l) PROVE FALSE
    BY DEF Over
  <1>2. Depth(t, i, l) > 0 /\ Depth(t, i, l) <= 0
    BY <1>1 DEF Within, Ends
  <1>3. Depth(t, i, l) \in Int
    <2>1. Len(t) \in Nat /\ i \in 1 .. Len(t) /\ DOMAIN t = 1 .. Len(t)
      BY LineIs DEF Constructors
    <2>2. i \in DOMAIN t /\ l \in DOMAIN t
      BY <2>1
    <2>3. Cardinality(Marks(t, i, l, "open")) \in Nat /\ Cardinality(Marks(t, i, l, "close")) \in Nat
      BY <2>2, MarksFinite
    <2>4. QED
      BY <2>3 DEF Depth
  <1>4. QED
    BY <1>2, <1>3

LEMMA WithinStep ==
    ASSUME NEW t, NEW i \in Int, NEW k \in Int, i <= k
    PROVE  Within(t, i, k + 1) <=> Within(t, i, k) /\ Depth(t, i, k) > 0
  <1>1. i .. (k + 1) - 1 = (i .. k - 1) \cup {k}
    OBVIOUS
  <1>2. QED
    BY <1>1 DEF Within

LEMMA WithinBefore ==
    ASSUME NEW t, NEW i \in Int, NEW j \in Int, NEW k \in Int, j <= k, Within(t, i, k)
    PROVE  Within(t, i, j)
  <1>1. i .. j - 1 \subseteq i .. k - 1
    OBVIOUS
  <1>2. QED
    BY <1>1 DEF Within

\* Constructors are not nested.
LEMMA OthersBefore ==
    ASSUME NEW t, IsText(t), NEW i \in Constructors(t), Tidy(t, i), NEW k \in DOMAIN t, i <= k, Within(t, i, k)
    PROVE  \A j \in Constructors(t) : j <= k => j <= i
  <1>1. SUFFICES ASSUME NEW j \in Constructors(t), j <= k, ~ (j <= i) PROVE FALSE
    OBVIOUS
  <1>2. i \in Int /\ j \in Int /\ k \in Int /\ j \in DOMAIN t
    BY LineIs DEF Constructors
  <1>3. Within(t, i, j) /\ i <= j /\ j # i
    BY <1>1, <1>2, WithinBefore
  <1>4. Marks(t, j, j, "secret") = {}
    BY <1>2, <1>3, TidyLine
  <1>5. QED
    BY <1>1, <1>4 DEF Constructors

LEMMA KeptOn ==
    ASSUME NEW t, IsText(t), NEW k \in DOMAIN t, NEW e, Kept(t, k - 1, e), Over(t, k) = Over(t, k - 1)
    PROVE  Kept(t, k, e)
  <1>1. \A i \in Over(t, k) : i .. k - 1 \subseteq i .. k
    BY OverStep DEF Over
  <1>2. QED
    BY <1>1 DEF Kept

LEMMA KeptPut ==
    ASSUME NEW t, IsText(t), NEW k \in DOMAIN t, NEW e, Kept(t, k - 1, e),
           NEW i \in Constructors(t), i <= k, Ends(t, i, k), NEW s, Declares(t, i, k, s),
           Over(t, k) = Over(t, k - 1) \cup {i},
           \A j \in Over(t, k - 1) : j < i,
           NEW f, DOMAIN f = DOMAIN e \cup {NameAt(t, i)}, f[NameAt(t, i)] = s,
           \A m \in DOMAIN e : m # NameAt(t, i) => f[m] = e[m]
    PROVE  Kept(t, k, f)
  <1> DEFINE n == NameAt(t, i)
  <1>1. k \in Int /\ k - 1 \in Int /\ Over(t, k) \subseteq Int /\ i \in Int
    BY OverStep DEF Over
  <1>2. DOMAIN f = {NameAt(t, j) : j \in Over(t, k)}
    BY DEF Kept
  <1>3. ASSUME NEW j \in Over(t, k),
               \A o \in Over(t, k) : NameAt(t, o) = NameAt(t, j) => o <= j
        PROVE  \E l \in j .. k : Ends(t, j, l) /\ Declares(t, j, l, f[NameAt(t, j)])
    <2>1. CASE j = i
      <3>1. k \in i .. k /\ f[n] = s
        BY <1>1
      <3>2. QED
        BY <2>1, <3>1
    <2>2. CASE j # i
      <3>1. j \in Over(t, k - 1) /\ j < i
        BY <2>2
      <3>2. NameAt(t, j) # n
        BY <1>1, <1>3, <3>1
      <3>3. f[NameAt(t, j)] = e[NameAt(t, j)]
        BY <3>1, <3>2 DEF Kept
      <3>4. PICK l \in j .. k - 1 : Ends(t, j, l) /\ Declares(t, j, l, e[NameAt(t, j)])
        BY <1>3, <3>1 DEF Kept
      <3>5. l \in j .. k
        BY <1>1
      <3>6. QED
        BY <3>3, <3>4, <3>5
    <2>3. QED
      BY <2>1, <2>2
  <1>4. QED
    BY <1>2, <1>3 DEF Kept

-----------------------------------------------------------------------------
\* The invariant of the scan.

ScanType ==
    /\ config \in Config
    /\ line \in 1 .. Len(config) + 1
    /\ inList \in BOOLEAN

\* The constructor on line i is under way, and what the scan has of it is what the lines
\* before the next one say.
UnderWay(i) ==
    /\ i \in Constructors(config) /\ i < line
    /\ Within(config, i, line)
    /\ name = NameAt(config, i)
    /\ depth = Depth(config, i, line - 1)
    /\ inList <=> OpenList(config, i, line - 1)
    /\ Declares(config, i, line - 1, [visibility |-> visibility, readers |-> selected, dummy |-> dummy])

\* All others before the next line are over.
InText ==
    IF name = NoSecret
    THEN \A j \in Constructors(config) : j < line => j \in Over(config, line - 1)
    ELSE \E i \in Constructors(config) :
            /\ UnderWay(i)
            /\ \A j \in Constructors(config) : j < line /\ j # i => j \in Over(config, line - 1)

ScanInv ==
    /\ ScanType
    /\ Formatted(config) => InText /\ Kept(config, line - 1, extracted)

LEMMA ScanTyped ==
    ASSUME ScanType
    PROVE  /\ IsText(config) /\ Len(config) \in Nat /\ DOMAIN config = 1 .. Len(config)
           /\ line \in Nat /\ Constructors(config) \subseteq Int
  <1>1. IsText(config)
    BY ScanAssumption DEF ScanType
  <1>2. Len(config) \in Nat /\ DOMAIN config = 1 .. Len(config)
    BY <1>1 DEF IsText
  <1>3. QED
    BY <1>1, <1>2 DEF ScanType, Constructors

LEMMA Named ==
    ASSUME ScanType, NEW i \in Constructors(config)
    PROVE  NameAt(config, i) # NoSecret
  <1>1. i \in DOMAIN config /\ i \in Int /\ Marks(config, i, i, "secret") # {}
    BY ScanTyped DEF Constructors
  <1>2. PICK q \in Marks(config, i, i, "secret") : NameAt(config, i) = Token(config, q).str
    BY <1>1 DEF NameAt
  <1>3. q[1] = i /\ q[2] \in DOMAIN config[i] /\ Token(config, q).is = "secret"
    BY <1>1, OnLine, MarkIs
  <1>4. QED
    BY <1>1, <1>2, <1>3, ScanAssumption DEF ScanType, Token

LEMMA ScanTypeStep ==
    ASSUME ScanType, ScanNext
    PROVE  ScanType'
  <1>1. line \in Nat /\ Len(config) \in Nat
    BY ScanTyped
  <1>2. config' = config /\ line <= Len(config) /\ line' = line + 1
    BY DEF ScanNext, Pass, Enter, ContinueList, StartList, ReadFields, Reading
  <1>3. inList' \in BOOLEAN
    BY DEF ScanType, ScanNext, Pass, Enter, ContinueList, StartList, ReadFields, Has
  <1>4. QED
    BY <1>1, <1>2, <1>3 DEF ScanType

\* What every step finds.
LEMMA NextLine ==
    ASSUME ScanType, NEW inside, Reading(inside)
    PROVE  /\ line \in DOMAIN config /\ line \in Int /\ line' - 1 = line /\ line' = line + 1
           /\ config' = config /\ Len(config) \in Nat /\ line <= Len(config)
  <1>1. line <= Len(config) /\ line' = line + 1 /\ config' = config
    BY DEF Reading
  <1>2. line \in 1 .. Len(config) + 1 /\ Len(config) \in Nat /\ DOMAIN config = 1 .. Len(config)
    BY ScanTyped DEF ScanType
  <1>3. QED
    BY <1>1, <1>2

LEMMA PassKeeps ==
    ASSUME ScanType, Formatted(config), InText, Kept(config, line - 1, extracted), Pass
    PROVE  InText' /\ Kept(config, line - 1, extracted)'
  <1>1. /\ line \in DOMAIN config /\ line \in Int /\ line' - 1 = line /\ line' = line + 1 /\ config' = config
        /\ name = NoSecret /\ name' = name /\ extracted' = extracted /\ IsText(config)
    BY NextLine, ScanTyped DEF Pass, Reading
  <1>2. line \notin Constructors(config)
    BY <1>1, HasIs DEF Pass, Current, Constructors
  <1>3. \A j \in Constructors(config) : j < line + 1 => j \in Over(config, line - 1)
    BY <1>1, <1>2, ScanTyped DEF InText
  <1>4. Over(config, line) = Over(config, line - 1)
    <2>1. \A j \in Over(config, line) : j \in Constructors(config) /\ j < line + 1
      BY <1>1, OverStep DEF Over
    <2>2. QED
      BY <1>1, <1>3, <2>1, OverStep
  <1>5. InText'
    BY <1>1, <1>3, <1>4 DEF InText
  <1>6. Kept(config, line, extracted)
    BY <1>1, <1>4, KeptOn
  <1>7. QED
    BY <1>1, <1>5, <1>6

LEMMA PutIs ==
    ASSUME NEW n, NEW secret, Put(n, secret)
    PROVE  /\ DOMAIN extracted' = DOMAIN extracted \cup {n}
           /\ extracted'[n] = secret
           /\ \A m \in DOMAIN extracted : m # n => extracted'[m] = extracted[m]
  BY DEF Put

LEMMA EnterKeeps ==
    ASSUME ScanType, Formatted(config), InText, Kept(config, line - 1, extracted), Enter
    PROVE  InText' /\ Kept(config, line - 1, extracted)'
  <1>1. /\ line \in DOMAIN config /\ line \in Int /\ line' - 1 = line /\ line' = line + 1 /\ config' = config
        /\ name = NoSecret /\ IsText(config)
    BY NextLine, ScanTyped DEF Enter, Reading
  <1>2. /\ line \in Constructors(config)
        /\ First(Current, "secret") = NameAt(config, line)
        /\ Declares(config, line, line, DefaultSecret)
        /\ ~ OpenList(config, line, line)
    BY <1>1, ConstructorLine DEF Enter, Current
  <1>3. \A j \in Constructors(config) : j < line => j \in Over(config, line - 1)
    BY <1>1 DEF InText
  <1>4. \A j \in Over(config, line - 1) : j < line
    BY <1>1, OverStep
  <1>5. depth' = Depth(config, line, line) /\ Depth(config, line, line) \in Int
    BY <1>1, DepthOfLine DEF Enter, Current
  <1>6. Within(config, line, line)
    BY <1>1 DEF Within
  <1>7. \A j \in Over(config, line) : j \in Over(config, line - 1) \/ (j = line /\ Ends(config, line, line))
    <2>1. SUFFICES ASSUME NEW j \in Over(config, line), j \notin Over(config, line - 1)
                   PROVE  j = line /\ Ends(config, line, line)
      OBVIOUS
    <2>2. j \in Constructors(config) /\ j \in Int /\ j <= line /\ Ends(config, j, line)
      BY <1>1, <2>1, OverStep DEF Over
    <2>3. ~ (j < line)
      BY <1>3, <2>1, <2>2
    <2>4. QED
      BY <1>1, <2>2, <2>3
  <1>8. CASE depth' > 0
    <2>1. name' = NameAt(config, line) /\ extracted' = extracted
      BY <1>2, <1>5, <1>8 DEF Enter
    <2>2. Over(config, line) = Over(config, line - 1)
      <3>1. ~ Ends(config, line, line)
        BY <1>5, <1>8 DEF Ends
      <3>2. QED
        BY <1>1, <1>7, <3>1, OverStep
    <2>3. Within(config, line, line + 1)
      BY <1>1, <1>5, <1>6, <1>8, WithinStep
    <2>4. [visibility |-> visibility', readers |-> selected', dummy |-> dummy'] = DefaultSecret /\ inList' = FALSE
      BY DEF Enter, DefaultSecret
    <2> PICK i \in Constructors(config) : i = line
      BY <1>2
    <2>5. UnderWay(i)'
      BY <1>1, <1>2, <1>5, <2>1, <2>3, <2>4 DEF UnderWay
    <2>6. \A j \in Constructors(config) : j < line + 1 /\ j # line => j \in Over(config, line)
      BY <1>1, <1>3, <2>2, ScanTyped
    <2>7. name' # NoSecret
      BY <1>2, <2>1, Named
    <2>8. InText'
      BY <1>1, <1>2, <2>5, <2>6, <2>7 DEF InText
    <2>9. Kept(config, line, extracted)
      BY <1>1, <2>2, KeptOn
    <2>10. QED
      BY <1>1, <2>1, <2>8, <2>9
  <1>9. CASE depth' <= 0
    <2>1. name' = NoSecret /\ Put(NameAt(config, line), DefaultSecret)
      BY <1>1, <1>2, <1>5, <1>9 DEF Enter
    <2>2. Ends(config, line, line)
      BY <1>1, <1>5, <1>6, <1>9 DEF Ends
    <2>3. Over(config, line) = Over(config, line - 1) \cup {line}
      BY <1>1, <1>2, <1>7, <2>2, OverStep
    <2>4. \A j \in Constructors(config) : j < line + 1 => j \in Over(config, line)
      BY <1>1, <1>3, <2>3, ScanTyped
    <2>5. InText'
      BY <1>1, <2>1, <2>4 DEF InText
    <2>6. Kept(config, line, extracted')
      <3>1. /\ DOMAIN extracted' = DOMAIN extracted \cup {NameAt(config, line)}
            /\ extracted'[NameAt(config, line)] = DefaultSecret
            /\ \A m \in DOMAIN extracted : m # NameAt(config, line) => extracted'[m] = extracted[m]
        BY <2>1, PutIs
      <3>2. line <= line
        BY <1>1
      <3>3. QED
        BY <1>1, <1>2, <1>4, <2>2, <2>3, <3>1, <3>2, KeptPut
    <2>7. QED
      BY <1>1, <2>5, <2>6
  <1>10. QED
    BY <1>5, <1>8, <1>9

\* A line of the body, once what is read on it is what it says.
LEMMA BodyKeeps ==
    ASSUME ScanType, Formatted(config), Kept(config, line - 1, extracted), Reading(TRUE), EndOfLine,
           NEW i \in Constructors(config), UnderWay(i),
           \A j \in Constructors(config) : j < line /\ j # i => j \in Over(config, line - 1),
           Declares(config, i, line, [visibility |-> visibility', readers |-> selected', dummy |-> dummy']),
           inList' <=> OpenList(config, i, line)
    PROVE  InText' /\ Kept(config, line - 1, extracted)'
  <1>1. /\ line \in DOMAIN config /\ line \in Int /\ line' - 1 = line /\ line' = line + 1 /\ config' = config
        /\ line <= Len(config) /\ Len(config) \in Nat
        /\ i \in DOMAIN config /\ i \in Int /\ i < line /\ i <= line /\ IsText(config)
    <2>1. /\ line \in DOMAIN config /\ line \in Int /\ line' - 1 = line /\ line' = line + 1 /\ config' = config
          /\ line <= Len(config) /\ Len(config) \in Nat
      BY NextLine
    <2>2. i \in DOMAIN config /\ i \in Int /\ IsText(config)
      BY ScanTyped DEF Constructors
    <2>3. QED
      BY <2>1, <2>2 DEF UnderWay
  <1>2. Within(config, i, line) /\ name = NameAt(config, i)
    BY DEF UnderWay
  <1>3. depth' = Depth(config, i, line) /\ Depth(config, i, line) \in Int
    <2>1. Braces(Current) = Depth(config, line, line) /\ Depth(config, line, line) \in Int
      BY <1>1, DepthOfLine DEF Current
    <2>2. depth' = Depth(config, i, line - 1) + Braces(Current)
      BY DEF EndOfLine, UnderWay
    <2>3. QED
      BY <1>1, <2>1, <2>2, DepthAdds
  <1>4. i \notin Over(config, line - 1)
    BY <1>1, <1>2, NotOver
  <1>5. \A j \in Constructors(config) : j <= line => j <= i
    BY <1>1, <1>2, OthersBefore DEF Formatted
  <1>6. \A j \in Over(config, line - 1) : j < i
    <2>1. SUFFICES ASSUME NEW j \in Over(config, line - 1) PROVE j < i
      OBVIOUS
    <2>2. j \in Constructors(config) /\ j \in Int /\ j < line /\ j # i
      BY <1>1, <1>4, OverStep DEF Over
    <2>3. QED
      BY <1>1, <1>5, <2>2
  <1>7. \A j \in Over(config, line) : j \in Over(config, line - 1) \/ (j = i /\ Ends(config, i, line))
    <2>1. SUFFICES ASSUME NEW j \in Over(config, line), j \notin Over(config, line - 1)
                   PROVE  j = i /\ Ends(config, i, line)
      OBVIOUS
    <2>2. j \in Constructors(config) /\ j \in Int /\ j <= line /\ Ends(config, j, line)
      BY <1>1, <2>1, OverStep DEF Over
    <2>3. j < line
      BY <1>1, <1>5, <2>2
    <2>4. QED
      BY <2>1, <2>2, <2>3
  <1>8. \A j \in Constructors(config) : j < line + 1 /\ j # i => j \in Over(config, line - 1)
    <2>1. SUFFICES ASSUME NEW j \in Constructors(config), j < line + 1, j # i PROVE j < line
      OBVIOUS
    <2>2. j \in Int /\ j <= line
      BY <1>1, <2>1, ScanTyped
    <2>3. QED
      BY <1>1, <1>5, <2>2
  <1>9. CASE depth' > 0
    <2>1. name' = name /\ extracted' = extracted
      BY <1>3, <1>9 DEF EndOfLine
    <2>2. Over(config, line) = Over(config, line - 1)
      <3>1. ~ Ends(config, i, line)
        BY <1>3, <1>9 DEF Ends
      <3>2. QED
        BY <1>1, <1>7, <3>1, OverStep
    <2>3. Within(config, i, line + 1)
      BY <1>1, <1>2, <1>3, <1>9, WithinStep
    <2>4. UnderWay(i)'
      BY <1>1, <1>2, <1>3, <2>1, <2>3 DEF UnderWay
    <2>5. name' # NoSecret
      BY <1>2, <2>1, Named
    <2>6. InText'
      BY <1>1, <1>8, <2>2, <2>4, <2>5 DEF InText
    <2>7. Kept(config, line, extracted)
      BY <1>1, <2>2, KeptOn
    <2>8. QED
      BY <1>1, <2>1, <2>6, <2>7
  <1>10. CASE depth' <= 0
    <2>1. /\ name' = NoSecret
          /\ Put(NameAt(config, i), [visibility |-> visibility', readers |-> selected', dummy |-> dummy'])
      BY <1>2, <1>3, <1>10 DEF EndOfLine
    <2>2. Ends(config, i, line)
      BY <1>1, <1>2, <1>3, <1>10 DEF Ends
    <2>3. Over(config, line) = Over(config, line - 1) \cup {i}
      BY <1>1, <1>7, <2>2, OverStep
    <2>4. InText'
      BY <1>1, <1>8, <2>1, <2>3 DEF InText
    <2>5. Kept(config, line, extracted')
      <3> DEFINE s == [visibility |-> visibility', readers |-> selected', dummy |-> dummy']
      <3>1. /\ DOMAIN extracted' = DOMAIN extracted \cup {NameAt(config, i)}
            /\ extracted'[NameAt(config, i)] = s
            /\ \A m \in DOMAIN extracted : m # NameAt(config, i) => extracted'[m] = extracted[m]
        BY <2>1, PutIs
      <3>2. Declares(config, i, line, s)
        OBVIOUS
      <3> HIDE DEF s
      <3>3. QED
        BY <1>1, <1>6, <2>2, <2>3, <3>1, <3>2, KeptPut
    <2>6. QED
      BY <1>1, <2>4, <2>5
  <1>11. QED
    BY <1>3, <1>9, <1>10

\* What a line of the body adds to what was read of its constructor.
LEMMA ReadBody ==
    ASSUME ScanType, Formatted(config), ContinueList \/ StartList \/ ReadFields,
           NEW i \in Constructors(config), UnderWay(i)
    PROVE  /\ Declares(config, i, line, [visibility |-> visibility', readers |-> selected', dummy |-> dummy'])
           /\ inList' <=> OpenList(config, i, line)
  <1> DEFINE old == [visibility |-> visibility, readers |-> selected, dummy |-> dummy]
             new == [visibility |-> visibility', readers |-> selected', dummy |-> dummy']
             listed == Says(config, {q \in Marks(config, line, line, "string") : Listed(config, i, q)})
  <1>1. line \in DOMAIN config /\ line \in Int
    BY NextLine DEF ContinueList, StartList, ReadFields
  <1>2. IsText(config) /\ i \in Int
    BY ScanTyped
  <1>3. Tidy(config, i) /\ i < line /\ Within(config, i, line)
    BY DEF Formatted, UnderWay
  <1>4. Declares(config, i, line - 1, old) /\ (inList <=> OpenList(config, i, line - 1))
    BY DEF UnderWay
  <1>5. /\ old.visibility = visibility /\ old.readers = selected /\ old.dummy = dummy
        /\ new.visibility = visibility' /\ new.readers = selected' /\ new.dummy = dummy'
    OBVIOUS
  <1> HIDE DEF old, new
  <1>6. CASE ContinueList
    <2>1. /\ inList /\ visibility' = visibility /\ dummy' = dummy
          /\ selected' = selected \cup Quoted(Code(config[line]))
          /\ inList' = ~ Has(Code(config[line]), "end")
      BY <1>6 DEF ContinueList, Current
    <2>2. OpenList(config, i, line - 1)
      BY <1>4, <2>1
    <2>3. /\ \A f \in (Quoting \ {"string"}) \cup {"readers"} : Marks(config, line, line, f) = {}
          /\ Quoted(Code(config[line])) = listed
          /\ OpenList(config, i, line) <=> ~ Has(Code(config[line]), "end")
      BY <1>1, <1>2, <1>3, <2>2, ListLine
    <2>4. Marks(config, line, line, "visibility") = {} /\ Marks(config, line, line, "value") = {}
      BY <2>3 DEF Quoting
    <2>5. new.readers = old.readers \cup listed
      BY <1>5, <2>1, <2>3
    <2>6. Declares(config, i, line, new)
      BY <1>1, <1>2, <1>3, <1>4, <1>5, <2>1, <2>4, <2>5, DeclaresStep
    <2>7. QED
      BY <2>1, <2>3, <2>6 DEF new
  <1>7. CASE StartList
    <2>1. /\ ~ inList /\ Has(Code(config[line]), "readers") /\ visibility' = visibility /\ dummy' = dummy
          /\ selected' = selected \cup Quoted(After(Code(config[line]), "readers"))
          /\ inList' = ~ Has(After(Code(config[line]), "readers"), "end")
      BY <1>7 DEF StartList, Current
    <2>2. ~ OpenList(config, i, line - 1)
      BY <1>4, <2>1
    <2>3. /\ \A f \in Field \ {"readers"} : Marks(config, line, line, f) = {}
          /\ Quoted(After(Code(config[line]), "readers")) = listed
          /\ OpenList(config, i, line) <=> ~ Has(After(Code(config[line]), "readers"), "end")
      BY <1>1, <1>2, <1>3, <2>1, <2>2, ListOpensLine
    <2>4. Marks(config, line, line, "visibility") = {} /\ Marks(config, line, line, "value") = {}
      BY <2>3 DEF Field
    <2>5. new.readers = old.readers \cup listed
      BY <1>5, <2>1, <2>3
    <2>6. Declares(config, i, line, new)
      BY <1>1, <1>2, <1>3, <1>4, <1>5, <2>1, <2>4, <2>5, DeclaresStep
    <2>7. QED
      BY <2>1, <2>3, <2>6 DEF new
  <1>8. CASE ReadFields
    <2> DEFINE s == Code(config[line])
    <2>1. /\ ~ inList /\ ~ Has(s, "readers") /\ selected' = selected /\ inList' = inList
          /\ visibility' = IF Has(s, "visibility") THEN First(s, "visibility") ELSE visibility
          /\ dummy' = IF Has(s, "value") THEN First(s, "value") = Dummy ELSE dummy
      BY <1>8 DEF ReadFields, Current
    <2>2. ~ OpenList(config, i, line - 1)
      BY <1>4, <2>1
    <2>3. /\ {q \in Marks(config, line, line, "string") : Listed(config, i, q)} = {}
          /\ ~ OpenList(config, i, line)
      BY <1>1, <1>2, <1>3, <2>1, <2>2, FieldLine
    <2>4. new.readers = old.readers \cup listed
      BY <1>5, <2>1, <2>3 DEF Says
    <2>5. ASSUME NEW kind
          PROVE  IF Has(s, kind) THEN First(s, kind) \in Says(config, Marks(config, line, line, kind))
                 ELSE Marks(config, line, line, kind) = {}
      BY <1>1, <1>2, HasIs, FirstIs DEF Says
    <2> HIDE DEF s
    <2>6. \/ Marks(config, line, line, "visibility") = {} /\ new.visibility = old.visibility
          \/ new.visibility \in Says(config, Marks(config, line, line, "visibility"))
      BY <1>5, <2>1, <2>5
    <2>7. \/ Marks(config, line, line, "value") = {} /\ new.dummy = old.dummy
          \/ \E v \in Says(config, Marks(config, line, line, "value")) : new.dummy = (v = Dummy)
      <3>1. CASE Has(s, "value")
        <4>1. new.dummy = (First(s, "value") = Dummy)
          BY <1>5, <2>1, <3>1
        <4>2. First(s, "value") \in Says(config, Marks(config, line, line, "value"))
          BY <2>5, <3>1
        <4>3. QED
          BY <4>1, <4>2
      <3>2. CASE ~ Has(s, "value")
        BY <1>5, <2>1, <2>5, <3>2
      <3>3. QED
        BY <3>1, <3>2
    <2>8. Declares(config, i, line, new)
      BY <1>1, <1>2, <1>3, <1>4, <2>4, <2>6, <2>7, DeclaresStep
    <2>9. QED
      BY <2>1, <2>3, <2>8 DEF new
  <1>9. QED
    BY <1>6, <1>7, <1>8

LEMMA ScanInvStep ==
    ASSUME ScanInv, ScanNext
    PROVE  ScanInv'
  <1>1. ScanType /\ ScanType'
    BY ScanTypeStep DEF ScanInv
  <1>2. SUFFICES ASSUME Formatted(config)'
                 PROVE  InText' /\ Kept(config, line - 1, extracted)'
    BY <1>1 DEF ScanInv
  <1>3. config' = config
    BY DEF ScanNext, Pass, Enter, ContinueList, StartList, ReadFields, Reading
  <1>4. Formatted(config) /\ InText /\ Kept(config, line - 1, extracted)
    BY <1>2, <1>3 DEF ScanInv
  <1>5. CASE Pass
    BY <1>1, <1>4, <1>5, PassKeeps
  <1>6. CASE Enter
    BY <1>1, <1>4, <1>6, EnterKeeps
  <1>7. CASE ContinueList \/ StartList \/ ReadFields
    <2>1. Reading(TRUE) /\ EndOfLine
      BY <1>7 DEF ContinueList, StartList, ReadFields
    <2>2. PICK i \in Constructors(config) :
             /\ UnderWay(i)
             /\ \A j \in Constructors(config) : j < line /\ j # i => j \in Over(config, line - 1)
      BY <1>4, <2>1 DEF InText, Reading
    <2>3. QED
      BY <1>1, <1>4, <1>7, <2>1, <2>2, ReadBody, BodyKeeps
  <1>8. QED
    BY <1>5, <1>6, <1>7 DEF ScanNext

THEOREM ScanInvariant == ScanSpec => []ScanInv
  <1>1. ScanInit => ScanInv
    <2>1. SUFFICES ASSUME ScanInit PROVE ScanInv
      OBVIOUS
    <2>2. IsText(config) /\ Len(config) \in Nat
      <3>1. config \in Config
        BY <2>1 DEF ScanInit
      <3>2. IsText(config)
        BY <3>1, ScanAssumption
      <3>3. Len(config) \in Nat
        BY <3>2 DEF IsText
      <3>4. QED
        BY <3>2, <3>3
    <2>3. ScanType
      <3>1. config \in Config /\ line = 1 /\ inList = FALSE
        BY <2>1 DEF ScanInit
      <3>2. line \in 1 .. Len(config) + 1
        BY <2>2, <3>1
      <3>3. inList \in BOOLEAN
        BY <3>1
      <3>4. QED
        BY <3>1, <3>2, <3>3 DEF ScanType
    <2>4. \A j \in Constructors(config) : ~ (j < line) /\ \A l \in j .. line - 1 : FALSE
      <3>1. SUFFICES ASSUME NEW j \in Constructors(config) PROVE ~ (j < 1) /\ \A l \in j .. 0 : FALSE
        BY <2>1 DEF ScanInit
      <3>2. j \in 1 .. Len(config)
        BY <2>3, ScanTyped DEF Constructors
      <3>3. QED
        BY <2>2, <3>2
    <2>5. InText
      BY <2>1, <2>4 DEF ScanInit, InText
    <2>6. Over(config, line - 1) = {} /\ extracted = <<>>
      BY <2>1, <2>4 DEF Over, ScanInit
    <2>7. Kept(config, line - 1, extracted)
      BY <2>6 DEF Kept
    <2>8. QED
      BY <2>3, <2>5, <2>7 DEF ScanInv
  <1>2. ScanInv /\ [ScanNext]_scanVars => ScanInv'
    <2>1. SUFFICES ASSUME ScanInv, [ScanNext]_scanVars PROVE ScanInv'
      OBVIOUS
    <2>2. CASE ScanNext
      BY <2>1, <2>2, ScanInvStep
    <2>3. CASE UNCHANGED scanVars
      BY <2>1, <2>3 DEF scanVars, ScanInv, ScanType, InText, UnderWay
    <2>4. QED
      BY <2>1, <2>2, <2>3
  <1>3. QED
    BY <1>1, <1>2, PTL DEF ScanSpec

\* Of a text of one field per line, exactly the secrets are extracted whose constructor
\* ends, and of each what its last constructor says.
THEOREM DeclaredAsCommittedCorrect == ScanSpec => []DeclaredAsCommitted
  <1>1. ScanInv => DeclaredAsCommitted
    <2>1. SUFFICES ASSUME ScanInv, Scanned, Formatted(config)
                   PROVE  Kept(config, Len(config), extracted)
      BY DEF DeclaredAsCommitted, Kept, Over
    <2>2. line \in 1 .. Len(config) + 1 /\ Len(config) \in Nat
      BY <2>1, ScanTyped DEF ScanInv, ScanType
    <2>3. line - 1 = Len(config)
      BY <2>1, <2>2 DEF Scanned
    <2>4. QED
      BY <2>1, <2>3 DEF ScanInv
  <1>2. QED
    BY <1>1, ScanInvariant, PTL
=============================================================================
