----------------------------- MODULE PlanParser -----------------------------
(***************************************************************************)
(* parse_plan: the text of an otterdog plan, line by line, into records.   *)
(*                                                                         *)
(* A line is reduced to what the three patterns of the parser tell of it.  *)
(* Only an indentation of two spaces makes a line open or close a          *)
(* resource's block; within a block nothing but its closer is looked at.   *)
(***************************************************************************)
EXTENDS Naturals, Sequences

CONSTANTS
    Text,           \* the captured outputs: sequences of lines
    Org,            \* organizations a project header can name
    DefaultOrg,     \* --org
    NoSummary       \* the plan ended without its tally

Kind == {"project", "summary", "open", "close", "other"}

\* What a line says: the organization, the tally, or the resource and its change.
TextAssumption ==
    /\ \A t \in Text : t \in Seq([kind : Kind, indent : Nat, says : {t[i].says : i \in DOMAIN t}])
    /\ \A t \in Text : \A i \in DOMAIN t : t[i].kind = "project" => t[i].says \in Org
    /\ DefaultOrg \in Org

VARIABLES
    text,           \* what is parsed
    pos,            \* the next line
    block,          \* the line that opened the block under way, or 0
    org,            \* of the last project header
    summary,        \* of the last trailer
    records         \* first and last line of each resource's block, and its header

vars == <<text, pos, block, org, summary, records>>

Opens(line) == line.kind = "open" /\ line.indent = 2

Closes(line) == line.kind = "close" /\ line.indent = 2

TypeOK ==
    /\ text \in Text
    /\ pos \in 1 .. Len(text) + 1
    /\ block \in 0 .. pos - 1
    /\ org \in Org
    /\ summary \in {NoSummary} \cup {text[i].says : i \in DOMAIN text}
    /\ records \subseteq [first : DOMAIN text, last : DOMAIN text, org : Org,
                          says : {text[i].says : i \in DOMAIN text}]

Init ==
    /\ text \in Text
    /\ pos = 1
    /\ block = 0
    /\ org = DefaultOrg
    /\ summary = NoSummary
    /\ records = {}

-----------------------------------------------------------------------------

\* A line outside of every block.
Outside(kind) ==
    /\ block = 0
    /\ pos <= Len(text)
    /\ kind = IF Opens(text[pos]) THEN "opener"
              ELSE IF text[pos].kind \in {"project", "summary"} THEN text[pos].kind
              ELSE "noise"
    /\ pos' = pos + 1
    /\ UNCHANGED text

Header ==
    /\ Outside("project")
    /\ org' = text[pos].says
    /\ UNCHANGED <<block, summary, records>>

Trailer ==
    /\ Outside("summary")
    /\ summary' = text[pos].says
    /\ UNCHANGED <<block, org, records>>

Open ==
    /\ Outside("opener")
    /\ block' = pos
    /\ UNCHANGED <<org, summary, records>>

Skip ==
    /\ Outside("noise")
    /\ UNCHANGED <<block, org, summary, records>>

\* The record of the block under way, whose last line is given.
Emit(last) ==
    /\ records' = records \cup
          {[first |-> block, last |-> last, org |-> org, says |-> text[block].says]}
    /\ block' = 0
    /\ UNCHANGED <<text, org, summary>>

\* _consume_block: any line but the closer belongs to the body, another
\* resource's opener and the project's header included.
Consume ==
    /\ block # 0
    /\ pos <= Len(text)
    /\ ~ Closes(text[pos])
    /\ pos' = pos + 1
    /\ UNCHANGED <<text, block, org, summary, records>>

\* Mutant of Close: a nested closer ends the block as well.
CloseAnywhere ==
    /\ block # 0
    /\ pos <= Len(text)
    /\ text[pos].kind = "close"
    /\ Emit(pos)
    /\ pos' = pos + 1

Close ==
    /\ block # 0
    /\ pos <= Len(text)
    /\ Closes(text[pos])
    /\ Emit(pos)
    /\ pos' = pos + 1

\* Mutant of CutOff: a block without its closer is dropped.
CutOffDropped ==
    /\ block # 0
    /\ pos > Len(text)
    /\ block' = 0
    /\ UNCHANGED <<text, pos, org, summary, records>>

\* The text ends within a block: the resource has its record all the same.
CutOff ==
    /\ block # 0
    /\ pos > Len(text)
    /\ Emit(Len(text))
    /\ UNCHANGED pos

Next == Header \/ Trailer \/ Open \/ Skip \/ Consume \/ Close \/ CutOff

Spec == Init /\ [][Next]_vars

Parsed == pos > Len(text) /\ block = 0

-----------------------------------------------------------------------------
\* The blocks of a text t, without scanning it.

\* No block is open before line i: every opener has a closer in between.
Clear(t, i) ==
    \A j \in 1 .. i - 1 : Opens(t[j]) => \E k \in j + 1 .. i - 1 : Closes(t[k])

IsBlock(t, first, last) ==
    /\ Opens(t[first])
    /\ Clear(t, first)
    /\ \A k \in first + 1 .. last - 1 : ~ Closes(t[k])
    /\ \/ first < last /\ Closes(t[last])
       \/ last = Len(t)

\* A header that the parser sees.
Heads(t, j) == t[j].kind = "project" /\ Clear(t, j)

\* o is the organization in force at line i: of the last header before it.
InForce(t, o, i) ==
    \/ \E j \in 1 .. i - 1 :
          /\ Heads(t, j)
          /\ o = t[j].says
          /\ \A k \in j + 1 .. i - 1 : ~ Heads(t, k)
    \/ o = DefaultOrg /\ \A j \in 1 .. i - 1 : ~ Heads(t, j)

\* Every resource that opens outside of another one's block yields its record, with
\* its own body and organization, and nothing else does: for any text, cut off or
\* badly indented ones included.
RecordsAreBlocks ==
    Parsed =>
        /\ \A r \in records :
              /\ IsBlock(text, r.first, r.last)
              /\ r.says = text[r.first].says
              /\ InForce(text, r.org, r.first)
        /\ \A i \in DOMAIN text :
              Opens(text[i]) /\ Clear(text, i) => \E r \in records : r.first = i
=============================================================================
