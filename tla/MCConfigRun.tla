---------------------------- MODULE MCConfigRun ----------------------------
(***************************************************************************)
(* Files in eight families, each varying one concern and keeping the rest  *)
(* plain: what defaults do to a mode, who decides a target, texts with     *)
(* expressions, declarations and suites the loader refuses, profiles for   *)
(* the four harnesses of a binary, what a driver is handed, files that     *)
(* tests are expanded from, and the commands and attributes without one.   *)
(***************************************************************************)
EXTENDS ConfigRun

Subfunctions(f) == UNION {{[k \in S |-> f[k]] : S \in SUBSET DOMAIN f}}

(* "dud" decodes to an op that says it is of another kind. *)
OpDefs == <<OpDefOf("dud", <<>>, {NoData}), OpDefOf("inc", <<>>, {NoData}),
            OpDefOf("note", <<>>, {Plain("x"), Plain("y"), Plain("z"), Ref("A", None)})>>
MCRegistered ==
    [full |-> RegisterPersistentWithPatch([OpDefs EXCEPT ![1].reports = "inc"]),
     plain |-> Register(<<OpDefs[2]>>),
     patched |-> RegisterWithPatch(<<OpDefs[2]>>),
     exported |-> RegisterPersistent(<<OpDefs[2]>>)]

NoFlags == [command |-> "run", suite |-> None, profiles |-> {}, seed |-> None, cases |-> None,
            ops |-> None, duration |-> None, every |-> None, noShrink |-> FALSE,
            target |-> None, targetChain |-> Empty]
NoEnviron == [vars |-> [v \in {"A", "B"} |-> None], seed |-> None, profile |-> None, cases |-> None,
              proptest |-> None, ops |-> None]

Bare(n) == [key |-> NoData, value |-> Plain(n)]
Table(n, d) == [key |-> n, value |-> d]

File == [harness |-> "full", unknown |-> FALSE, defaults |-> Empty, env |-> Empty, suite |-> Empty,
         chain |-> <<>>, profile |-> "p" :> [mode |-> "invariant", ops |-> 1]]

Defaults == {d @@ m : d \in Subfunctions([kinds |-> <<"inc">>, ops |-> 2, max_ops |-> 4, typo |-> 0, seed |-> 0 - 1]),
                      m \in {Empty, [mode |-> "endurance"], [mode |-> "fuzz"]}}
ModeProfiles ==
    {[mode |-> "fuzz", cases |-> c, ops |-> o] : c \in 0 .. 2, o \in 0 .. 1}
      \cup {[mode |-> "scenario", steps |-> s] : s \in {<<>>, <<Bare("inc")>>}}
      \cup {[mode |-> "invariant", ops |-> 1, weights |-> "inc" :> 2], [mode |-> "invariant"],
            [mode |-> "endurance"], [mode |-> "soak"], [ops |-> 1], [cases |-> 1],
            [mode |-> "invariant", ops |-> 1, typo |-> 0], NotATable,
            [mode |-> "invariant", ops |-> 1, env |-> NotATable]}

ModeFiles == {[File EXCEPT !.defaults = d, !.profile["p"] = t] : d \in Defaults \cup {NotATable}, t \in ModeProfiles}

Decl(l, k) ==
    [label |-> l, kind |-> k, target |-> None, rpc_url |-> Plain("u"), transport |-> None,
     batched |-> FALSE, denominated |-> TRUE, adjustment |-> None, symbol |-> None,
     dialect |-> None]

Tables(n) ==
    {Empty} \cup [target : Targets]
      \cup {[targets |-> "c" :> "rpc"], [targets |-> "d" :> "rpc", target |-> "mock"],
            [chains |-> <<"d">>, targets |-> [l \in {"c", "d"} |-> "mock"]]}

TargetFiles ==
    {[File EXCEPT !.chain = <<[Decl("c", "cosmwasm") EXCEPT !.target = t, !.rpc_url = u], Decl("d", "evm")>>,
                  !.env = top,
                  !.defaults = IF base = None THEN Empty ELSE [env |-> base],
                  !.profile["p"] = IF own = None THEN @ ELSE [env |-> own] @@ @]
       : t \in {None, "mock", "rpc"}, u \in {None, Plain("u")}, top \in Tables(0),
         own \in Tables(0) \cup {None}, base \in {None, [target |-> "rpc"]}}

Flags ==
    {NoFlags, [NoFlags EXCEPT !.target = "rpc"], [NoFlags EXCEPT !.targetChain = "c" :> "rpc"],
     [NoFlags EXCEPT !.target = "mock", !.targetChain = "d" :> "rpc"]}

Words == {Plain("x"), Ref("A", None), Ref("A", "x"), Ref("B", None), Escaped("A"), Open}

TextFiles ==
    {[File EXCEPT !.chain = <<[Decl("c", "svm") EXCEPT !.rpc_url = u]>>,
                  !.env = IF t = None THEN Empty ELSE [params |-> t]] : u \in Words, t \in Words \cup {None}}

Environs ==
    {[NoEnviron EXCEPT !.vars["A"] = a, !.vars["B"] = Plain("z"), !.seed = s]
       : a \in {None, Plain("y"), Ref("B", None), Open}, s \in {None, 7}}

DeclFiles ==
    {[File EXCEPT !.chain = <<[Decl("c", k) EXCEPT !.transport = t, !.batched = b, !.denominated = d,
                                 !.adjustment = a, !.dialect = n, !.target = g]>>]
       : k \in {"cosmwasm", "evm", "move", ""}, t \in {None, "http", "batch-http"}, b \in BOOLEAN,
         d \in BOOLEAN, a \in {None, 9, 20}, n \in {None, "unknown"}, g \in {"rpc", "bogus"}}
      \cup
    {[File EXCEPT !.chain = <<[Decl("c", k) EXCEPT !.dialect = n, !.symbol = y, !.target = g]>>]
       : k \in Kinds, n \in {None, "muir", "constantinople", "prague", "confirmed"}, y \in {None, "TST"},
         g \in Targets}
      \cup
    {[File EXCEPT !.chain = <<Decl("c", "evm"), Decl("c", "evm")>>], [File EXCEPT !.harness = None],
     [File EXCEPT !.unknown = TRUE], [File EXCEPT !.env = NotATable], [File EXCEPT !.env = [typo |-> 0]],
     [File EXCEPT !.env = [targets |-> "x" :> "rpc"]], [File EXCEPT !.env = [target |-> "bogus"]],
     [File EXCEPT !.chain = <<Decl("c", "evm")>>, !.env = [targets |-> "c" :> "bogus"]],
     [File EXCEPT !.chain = <<Decl("c", "evm")>>, !.env = [chains |-> <<"x">>]]}

Ph(p, n, w) == [profile |-> p, needs |-> n, world |-> w, params |-> FALSE]
Given(ph) == [ph EXCEPT !.params = TRUE]
SuiteFiles ==
    {[File EXCEPT !.suite = "s" :> [profiles |-> l, phases |-> f],
                  !.profile = [x \in {"p", "q"} |-> [mode |-> "fuzz", ops |-> 1, cases |-> IF x = "p" THEN 1 ELSE n]]]
       : n \in {1, 2}, l \in {<<>>, <<"p", "q">>, <<"p", "x">>, <<"p", "p">>},
         f \in {<<>>, <<Ph("p", <<>>, "fresh"), Ph("q", <<"p">>, "inherit")>>, <<Ph("q", <<"p">>, "fresh")>>,
                <<Ph("p", <<>>, "inherit")>>}}
      \cup
    {[File EXCEPT !.harness = h, !.suite = "s" :> [profiles |-> <<>>, phases |-> <<Given(Ph("p", <<>>, "fresh"))>>],
                  !.profile["p"] = [mode |-> "fuzz", ops |-> 1, cases |-> n]]
       : h \in {"plain", "patched"}, n \in {1, 2}}

Scenario(steps) == [mode |-> "scenario", steps |-> steps]
HarnessFiles ==
    {[File EXCEPT !.harness = h, !.profile["p"] = t]
       : h \in {"full", "plain", "exported", "none"},
         t \in {[mode |-> m, ops |-> 1, cases |-> 1] : m \in {"fuzz"}}
              \cup {[mode |-> "invariant", ops |-> 1, kinds |-> k] : k \in {<<>>, <<"inc", "note">>, <<"typo">>}}
              \cup {[mode |-> "endurance", max_ops |-> 1, weights |-> w]
                     : w \in {Empty, "inc" :> 0, [note |-> 1, inc |-> 2], "typo" :> 1}}
              \cup {Scenario(<<s>>) : s \in {Bare("inc"), Bare("note"), Bare("dud"), Table("inc", NoData),
                                             Table("note", Plain("x")), Table("note", Ref("A", None)),
                                             Table("inc", Plain("x")), [Bare("x") EXCEPT !.value = Ref("B", "inc")],
                                             [Bare("x") EXCEPT !.value = Escaped("A")]}}
              \cup {Scenario(<<Bare("inc")>>) @@ [export_world |-> "w"]}}

Durations == {Zero, [Zero EXCEPT !.length = 5], [Zero EXCEPT !.reads = FALSE], [Zero EXCEPT !.form = "integer"]}

DriverFiles ==
    {[File EXCEPT !.defaults = b, !.profile["p"] = t @@ own]
       : b \in {Empty, [check_every |-> 3, ops |-> 5, max_ops |-> 6]}, own \in {Empty, [check_every |-> 0, shrink |-> TRUE]},
         t \in {[mode |-> "fuzz", ops |-> 2, cases |-> 1], [mode |-> "fuzz", cases |-> 1],
                [mode |-> "endurance", max_ops |-> 4], [mode |-> "endurance", advance_blocks |-> 2, max_ops |-> 1],
                [mode |-> "invariant", ops |-> 1, shrink_limit |-> 9]}
              \cup {[mode |-> "endurance", duration |-> d, heartbeat |-> d] : d \in Durations}
              \cup {[mode |-> "scenario", steps |-> <<st @@ Bare("inc")>>]
                     : st \in {[delay |-> d] : d \in Durations} \cup {[expect |-> x] : x \in {"any", "maybe"}}
                              \cup {[check |-> FALSE], [typo |-> 1]}}}

DriverFlags ==
    {[NoFlags EXCEPT !.ops = o, !.every = e, !.noShrink = n, !.duration = d]
       : o \in {None, 7}, e \in {None, 2}, n \in BOOLEAN, d \in {None, [Zero EXCEPT !.length = 8]}}

Fuzz(c) == [mode |-> "fuzz", ops |-> 1, cases |-> c]
TestFiles ==
    {[File EXCEPT !.defaults = d, !.profile["p"] = t]
       : d \in {Empty, "cases" :> 2, [cases |-> 2, mode |-> "fuzz"], [mode |-> "invariant"], NotATable},
         t \in {Fuzz(c) : c \in {1, 3}}
              \cup {[mode |-> "fuzz", ops |-> 1], [ops |-> 1], [ops |-> 1, seed |-> 0 - 1, cases |-> 1],
                    NotATable, Scenario(<<Bare("inc")>>) @@ [export_world |-> "w"],
                    [mode |-> "invariant", ops |-> 1, kinds |-> <<"note">>]}}
MCRevisions ==
    {[File EXCEPT !.profile["p"] = t] : t \in {Fuzz(1), Fuzz(2), [Fuzz(2) EXCEPT !.ops = 2],
                                              [mode |-> "invariant", ops |-> 1], NotATable}}
      \cup {[File EXCEPT !.profile = "q" :> Fuzz(1)]}

Commands == {[NoFlags EXCEPT !.command = c] : c \in {"run", "validate", "list"}}

FilelessArgs ==
    {[name |-> n] @@ [NoFlags EXCEPT !.command = "describe"] : n \in {None, "full", "typo"}}
      \cup {[attribute |-> [mode |-> m, seed |-> s, cases |-> c, async |-> y, marked |-> k]]
               @@ [NoFlags EXCEPT !.command = "attribute"]
             : m \in {"fuzz", "invariant", "endurance"}, s \in {0 - 1, 3}, c \in {None, 0, 3},
               y \in BOOLEAN, k \in 0 .. 2}
TestArgs ==
    {[harness |-> h] @@ [NoFlags EXCEPT !.command = "test", !.profiles = {p}]
       : h \in {"full", "plain"}, p \in {"p", "q"}}

CaseEnvirons ==
    {[NoEnviron EXCEPT !.cases = c, !.proptest = p, !.seed = s]
       : c \in {None, 0, 2, Unparsable}, p \in {None, 0, 3}, s \in {None, Unparsable}}

MCInputs ==
    {[doc |-> f, args |-> NoFlags, environ |-> NoEnviron] : f \in ModeFiles \cup DeclFiles}
      \cup {[doc |-> f, args |-> a, environ |-> NoEnviron] : f \in TargetFiles, a \in Flags}
      \cup {[doc |-> f, args |-> NoFlags, environ |-> e] : f \in TextFiles, e \in Environs}
      \cup {[doc |-> f, args |-> [NoFlags EXCEPT !.suite = s, !.profiles = p, !.seed = d],
             environ |-> [NoEnviron EXCEPT !.profile = e, !.seed = 7]]
              : f \in SuiteFiles, s \in {None, "s", "x"}, p \in {{}, {"p", "q"}, {"x"}},
                d \in {None, 2}, e \in {None, "q", "x"}}
      \cup {[doc |-> f, args |-> a, environ |-> NoEnviron] : f \in HarnessFiles \cup SuiteFiles, a \in Commands}
      \cup {[doc |-> f, args |-> [NoFlags EXCEPT !.suite = "s", !.cases = c], environ |-> NoEnviron]
              : f \in SuiteFiles, c \in {1, 2}}
      \cup {[doc |-> f, args |-> a, environ |-> [NoEnviron EXCEPT !.ops = o]]
              : f \in DriverFiles, a \in DriverFlags, o \in {None, 9, Unparsable}}
      \cup {[doc |-> File, args |-> a, environ |-> NoEnviron] : a \in FilelessArgs}
      \cup {[doc |-> [File EXCEPT !.profile["p"] = Fuzz(2)], args |-> [NoFlags EXCEPT !.cases = c],
             environ |-> e] : c \in {None, 0, 1}, e \in CaseEnvirons}
      \cup {[doc |-> f, args |-> a, environ |-> [NoEnviron EXCEPT !.seed = 7, !.cases = 3]]
              : f \in TestFiles, a \in TestArgs}

MCHistories == {<<>>, <<Op("note", Plain("x")), Op("inc", NoData)>>, <<Op("note", Ref("A", None))>>}
MCRandomSeeds == {4, 5}
=============================================================================
