------------------------------ MODULE MCConfig ------------------------------
(* Texts of a committed config, in each of the layouts that jsonnetfmt leaves. *)
EXTENDS Sequences, SequencesExt, TLC

\* A text is a sequence of lines, a line the tokens that inventory.py looks for.
MCTok(is, str) == [is |-> is, str |-> str]

MCMark(is) == MCTok(is, "")

MCString(s) == MCTok("string", s)

MCOrder == <<"r1", "r2", "r3">>

\* A list of readers: on one line, or an entry on each.
MCList(selected, wide) ==
    LET chosen == SelectSeq(MCOrder, LAMBDA r : r \in selected)
        names == [i \in DOMAIN chosen |-> MCString(chosen[i])]
    IN  IF wide THEN <<<<MCMark("readers")>> \o names \o <<MCMark("end")>>>>
        ELSE <<<<MCMark("readers")>>>> \o [i \in DOMAIN names |-> <<names[i]>>] \o <<<<MCMark("end")>>>>

MCVisible(secret) ==
    IF secret.visibility = "public" THEN <<>> ELSE <<<<MCTok("visibility", secret.visibility)>>>>

MCValue(secret) == <<<<MCTok("value", IF secret.dummy THEN "***" ELSE "pass:x")>>>>

\* The fields of a secret, in one of their orders.
MCBody(secret, layout) ==
    LET list == MCList(secret.readers, layout.wide)
    IN  CASE layout.first = "readers" -> list \o MCValue(secret) \o MCVisible(secret)
          [] layout.first = "value" -> MCValue(secret) \o list \o MCVisible(secret)
          [] layout.first = "visibility" -> MCVisible(secret) \o MCValue(secret) \o list

MCOpen(kind, name) == <<<<MCTok(kind, name), MCMark("open")>>>>

MCShut == <<<<MCMark("close")>>>>

\* A repository with a secret of its own, whose fields are not an org secret's.
MCRepoBlock(r) ==
    MCOpen("repo", r) \o <<<<MCString("CACHE"), MCMark("open")>>, <<MCTok("value", "***")>>>> \o MCShut \o MCShut

\* Commented-out constructors and fields.
MCCommented ==
    <<<<MCMark("comment"), MCTok("repo", "r3"), MCMark("open")>>, <<MCMark("comment"), MCTok("secret", "OLD"), MCMark("open")>>>>

MCRepoLines(declared) ==
    FlattenSeq([i \in DOMAIN MCOrder |-> IF MCOrder[i] \in declared THEN MCRepoBlock(MCOrder[i]) ELSE <<>>])

MCConfigText(declared, secret, layout) ==
    (IF layout.commented THEN MCCommented ELSE <<>>)
    \o MCOpen("secret", "S")
    \o (IF layout.commented THEN <<<<MCMark("comment"), MCTok("visibility", "private")>>>> ELSE <<>>)
    \o MCBody(secret, layout) \o MCShut
    \o <<<<MCTok("secret", "P"), MCMark("open"), MCMark("close")>>>>
    \o MCRepoLines(declared)

MCSecret == [visibility : {"public", "private", "selected"}, readers : SUBSET {"r1", "r2"}, dummy : BOOLEAN]

MCLayout == [first : {"readers", "value", "visibility"}, wide : BOOLEAN, commented : BOOLEAN]

MCPlain == [first |-> "readers", wide |-> FALSE, commented |-> TRUE]

MCOne == [visibility |-> "selected", readers |-> {"r1"}, dummy |-> TRUE]

MCSecretsOf(secret) ==
    [s \in {"S", "P"} |->
        IF s = "S" THEN secret ELSE [visibility |-> "public", readers |-> {}, dummy |-> FALSE]]
=============================================================================
