----------------------------- MODULE MCPreview ------------------------------
(* Instances of DryRun and of SecretScan for TLC: previews of any short text,  *)
(* and of plans with their sweep; scans of any short text of a config, and of  *)
(* a config in each of its layouts.                                            *)
EXTENDS DryRun, SecretScan, MCConfig

MCScanVars == <<line, name, depth, inList, visibility, selected, dummy, extracted>>

-----------------------------------------------------------------------------
\* Texts of a plan.
MCLine(kind, indent, says) == [kind |-> kind, indent |-> indent, says |-> says]

MCResource(r) == <<"repository", r>>

MCHeader == {MCResource("r1"), MCResource("r2")}

MCOther == MCLine("other", 6, <<"field">>)

MCO1 == <<"org", "o1">>

MCO2 == <<"org", "o2">>

MCLines ==
    {MCLine("project", 0, MCO2), MCLine("summary", 2, <<"tally">>), MCOther,
     MCLine("open", 2, MCResource("r1")), MCLine("open", 2, MCResource("r2")),
     MCLine("open", 4, MCResource("r2")), MCLine("close", 2, <<"end">>), MCLine("close", 4, <<"end">>)}

MCBadText == UNION {[1 .. n -> MCLines] : n \in 0 .. 4}

MCChange(r, nested) ==
    <<MCLine("open", 2, MCResource(r)), MCOther>>
    \o (IF nested THEN <<MCLine("open", 4, <<"list">>), MCLine("close", 4, <<"end">>)>> ELSE <<>>)
    \o <<MCLine("close", 2, <<"end">>)>>

\* An output of otterdog: noise, the project, the changes, the tally.
MCPlanText(changes, nested, headed) ==
    <<MCOther>> \o (IF headed THEN <<MCLine("project", 0, MCO2)>> ELSE <<>>)
    \o (IF "r1" \in changes THEN MCChange("r1", nested) ELSE <<>>)
    \o (IF "r2" \in changes THEN MCChange("r2", nested) ELSE <<>>)
    \o <<MCLine("summary", 2, <<"tally">>)>>

MCPlan == [changes : SUBSET {"r1", "r2"}, nested : BOOLEAN, headed : BOOLEAN]

MCPlanTextOf(plan) == MCPlanText(plan.changes, plan.nested, plan.headed)

MCText == MCBadText \cup {MCPlanTextOf(plan) : plan \in MCPlan}

-----------------------------------------------------------------------------
MCSwept == {"r1", "r2", "r3"}

MCConfigLines ==
    {<<MCTok("secret", "S"), MCMark("open")>>, <<MCTok("secret", "S"), MCMark("open"), MCMark("close")>>,
     <<MCMark("readers"), MCString("r1")>>, <<MCString("r2"), MCMark("end")>>,
     <<MCTok("visibility", "private")>>, <<MCTok("value", "***"), MCMark("comment"), MCMark("close")>>,
     <<MCMark("close")>>}

MCShortConfigs == UNION {[1 .. n -> MCConfigLines] : n \in 0 .. 4}

MCPlainConfig(declared) == MCConfigText(declared, MCOne, MCPlain)

MCConfigs ==
    MCShortConfigs
    \cup {MCPlainConfig(declared) : declared \in SUBSET MCSwept}
    \cup {MCConfigText({"r1", "r2"}, secret, layout) : secret \in MCSecret, layout \in MCLayout}

\* What a text that was generated declares is what it was generated from.
ASSUME LayoutAssumption ==
    \A secret \in MCSecret, layout \in MCLayout :
        LET t == MCConfigText({"r1", "r2"}, secret, layout)
            ends(i) == \E k \in i .. Len(t) : Ends(t, i, k)
            declares(i, s) == \E k \in i .. Len(t) : Ends(t, i, k) /\ Declares(t, i, k, s)
        IN  /\ Formatted(t)
            /\ Repositories(t) = {"r1", "r2"}
            /\ {NameAt(t, i) : i \in {c \in Constructors(t) : ends(c)}} = {"S", "P"}
            /\ \A i \in Constructors(t), s \in MCSecret :
                  declares(i, s) <=> s = MCSecretsOf(secret)[NameAt(t, i)]

MCOrg == {MCO1, MCO2}

MCExpected == {MCResource("r2")}

MCReady(t, c, e) ==
    /\ text = t /\ config = c /\ existing = e
    /\ pos = 1 /\ block = 0 /\ org = DefaultOrg /\ summary = NoSummary /\ records = {}

MCUnscanned ==
    /\ line = 1 /\ name = NoSecret /\ depth = 0 /\ inList = FALSE
    /\ visibility = "public" /\ selected = {} /\ dummy = FALSE /\ extracted = <<>>

\* Any text at all; a plan and its sweep.
MCPreview ==
    /\ printed = NotPrinted
    /\ MCUnscanned
    /\ \/ \E t \in MCBadText : MCReady(t, <<>>, NoFile)
       \/ \E plan \in MCPlan, declared \in SUBSET MCSwept, e \in (SUBSET MCSwept) \cup {NoFile} :
             MCReady(MCPlanTextOf(plan), MCPlainConfig(declared), e)

\* No preview, or one that is over, and a config.
MCOnlyConfig(configs) ==
    /\ printed = {}
    /\ MCUnscanned
    /\ \E c \in configs : MCReady(<<>>, c, NoFile)

MCNoPreview == MCOnlyConfig({<<>>})

\* A preview; or, beside an empty plan, a scan of the config.
MCReadNext ==
    \/ PreviewNext /\ UNCHANGED MCScanVars
    \/ text = <<>> /\ ScanNext /\ UNCHANGED previewVars
=============================================================================
