--------------------------- MODULE MCApplyTracker ---------------------------
(* A tracker with two resources: one whose setting changes and one that goes   *)
(* and comes back.                                                             *)
EXTENDS ApplyTracker

MCConfig(first, second) == [r \in {"r1", "r2"} |-> IF r = "r1" THEN first ELSE second]

MCTree ==
    {MCConfig("s1", "s1"), MCConfig("s2", "absent")}
=============================================================================
