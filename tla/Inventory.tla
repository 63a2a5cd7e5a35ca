----------------------------- MODULE Inventory ------------------------------
(***************************************************************************)
(* inventory.py: the repositories that the committed config declares, read *)
(* literally from its text, and their comparison with the live ones; and   *)
(* what the patterns of both extractions find on a line.                   *)
(*                                                                         *)
(* A line of the text is the sequence of the tokens the patterns look for, *)
(* [is |-> kind, str |-> quoted text].  The kinds of a token are           *)
(*   "repo", "secret"          newRepo('..'), newOrgSecret('..')           *)
(*   "visibility", "value"     the fields, with their quoted text          *)
(*   "readers"                 selected_repositories[+]: [                 *)
(*   "string"                  any other quoted text                       *)
(*   "open", "close", "end"    the braces, and the bracket that ends a list *)
(*   "comment"                 where a comment starts                      *)
(***************************************************************************)
EXTENDS Naturals, Integers, Sequences, SequencesExt

CONSTANT Config     \* texts of the committed config

VARIABLE config     \* the committed config

Quoting == {"repo", "secret", "visibility", "value", "string"}

Kind == Quoting \cup {"readers", "end", "open", "close", "comment"}

IsText(t) ==
    /\ t \in Seq({t[l] : l \in DOMAIN t})
    /\ \A l \in DOMAIN t : t[l] \in Seq([is : Kind, str : {t[l][p].str : p \in DOMAIN t[l]}])

-----------------------------------------------------------------------------
\* What the patterns find on a line.

Count(line, kind) == Cardinality({i \in DOMAIN line : line[i].is = kind})

Has(line, kind) == \E i \in DOMAIN line : line[i].is = kind

\* The first token of a kind on a line that has one, and what follows it.
Place(line, kind) == SelectInSeq(line, LAMBDA token : token.is = kind)

First(line, kind) == line[Place(line, kind)].str

After(line, kind) == SubSeq(line, Place(line, kind) + 1, Len(line))

\* Mutant of Code: comments are read.
CodeCommented(line) == line

\* _LINE_COMMENT_RE: the line up to its comment.
Code(line) == IF Has(line, "comment") THEN SubSeq(line, 1, Place(line, "comment") - 1) ELSE line

Texts(line, kinds) == {line[i].str : i \in {j \in DOMAIN line : line[j].is \in kinds}}

\* _QUOTED_RE: every quoted text, whichever field it belongs to.
Quoted(line) == Texts(line, Quoting)

Braces(line) == Count(line, "open") - Count(line, "close")

-----------------------------------------------------------------------------
\* extract_declared_repos.
DeclaredRepos(t) == UNION {Texts(Code(t[l]), {"repo"}) : l \in DOMAIN t}

\* Mutant of Sweep: an unmanaged repository is exempt in one direction only.
SweepOneWay(declared, existing, unmanaged) ==
    {<<"undeclared", r>> : r \in (existing \ declared) \ unmanaged}
    \cup {<<"missing", r>> : r \in declared \ existing}

\* sweep_inventory: the resources it records.
Sweep(declared, existing, unmanaged) ==
    {<<"undeclared", r>> : r \in (existing \ declared) \ unmanaged}
    \cup {<<"missing", r>> : r \in (declared \ existing) \ unmanaged}

-----------------------------------------------------------------------------
\* What a text t has, without reading it line by line.  A mark is the place
\* <<line, token>> of a token that no comment hides.

Token(t, q) == t[q[1]][q[2]]

Marks(t, first, last, kind) ==
    {q \in UNION {{l} \X DOMAIN t[l] : l \in first .. last} :
        Token(t, q).is = kind /\ \A p \in 1 .. q[2] : t[q[1]][p].is # "comment"}

Says(t, marks) == {Token(t, q).str : q \in marks}

Before(a, b) == a[1] < b[1] \/ (a[1] = b[1] /\ a[2] < b[2])

\* The repositories that the text has a constructor of.
Repositories(t) == Says(t, Marks(t, 1, Len(t), "repo"))
=============================================================================
