----------------------------- MODULE MCPipeline -----------------------------
EXTENDS Pipeline

MCProfile == {"fuzz1", "fuzz2", "inv", "scen", "end"}

MCConfig == [p \in MCProfile |->
    CASE p = "fuzz1" -> [mode |-> "fuzz", cases |-> 1, shrink |-> TRUE, exports |-> FALSE]
      [] p = "fuzz2" -> [mode |-> "fuzz", cases |-> 2, shrink |-> FALSE, exports |-> FALSE]
      [] p = "inv"   -> [mode |-> "invariant", cases |-> 0, shrink |-> FALSE, exports |-> FALSE]
      [] p = "end"   -> [mode |-> "endurance", cases |-> 0, shrink |-> TRUE, exports |-> FALSE]
      [] p = "scen"  -> [mode |-> "scenario", cases |-> 0, shrink |-> FALSE, exports |-> TRUE]]

Ph(p, n, w, x) == [profile |-> p, needs |-> n, world |-> w, params |-> x]

Worlds == {"fresh", "inherit"}

(* Every suite of up to three phases over three orders of the profiles. *)
Orders == {<<"fuzz1", "inv", "scen">>, <<"scen", "fuzz1", "inv">>, <<"fuzz2", "inv", "fuzz1">>}

Suites(o) ==
    {<<Ph(o[1], <<>>, "fresh", x)>> : x \in BOOLEAN}
      \cup
    {<<Ph(o[1], <<>>, "fresh", FALSE), Ph(o[2], n2, w2, FALSE), Ph(o[3], n3, w3, x)>> :
       w2 \in Worlds, w3 \in Worlds, x \in BOOLEAN,
       n2 \in {<<>>, <<o[1]>>}, n3 \in {<<>>, <<o[1]>>, <<o[2]>>, <<o[1], o[2]>>}}

(* Four phases in which the two heirs inherit from the phases named. *)
Four(n3, n4) ==
    <<Ph("fuzz1", <<>>, "fresh", FALSE), Ph("inv", <<>>, "fresh", FALSE),
      Ph("scen", <<n3>>, "inherit", FALSE), Ph("end", <<n4>>, "inherit", FALSE)>>

Pairs ==
    <<Ph("fuzz1", <<>>, "fresh", FALSE), Ph("inv", <<"fuzz1">>, "inherit", FALSE),
      Ph("scen", <<>>, "fresh", FALSE), Ph("end", <<"scen">>, "inherit", TRUE)>>

AllSuites == UNION {Suites(o) : o \in Orders} \cup {Four("inv", "scen"), Pairs}

Selected(phases, stops, cases) ==
    [phases : phases, stopOnFailure : stops, cases : cases, json : {TRUE},
     persistent : {TRUE}, patchable : {TRUE}]

(* A donor whose heir is not the next phase to use the slot. *)
Interleaved ==
    Selected({Four("fuzz1", "inv"), Four("inv", "fuzz1")}, BOOLEAN, {Unset})

MCInvocations ==
    Interleaved
      \cup Selected({s \in AllSuites : ValidSuite(s)}, BOOLEAN, {Unset})
      \cup Selected({Four("inv", "scen"), Pairs}, {FALSE}, {2})
      \cup Selected({<<FreshPhase("fuzz2"), FreshPhase("inv")>>}, {FALSE}, {Unset, 0, 3})
      \cup [phases : {<<FreshPhase("scen")>>, Pairs}, stopOnFailure : {FALSE}, cases : {Unset},
            json : {FALSE}, persistent : BOOLEAN, patchable : {FALSE}]
=============================================================================
