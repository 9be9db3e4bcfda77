----------------------------- MODULE ConfigRun -----------------------------
(***************************************************************************)
(* A config file from disk to the driver, and back.  `run` loads it,       *)
(* selects a profile, looks its harness up, resolves it with the flags and *)
(* the environment into the SetupRequest of a setup fn, which builds the   *)
(* chains, and hands a mix or a decoded scenario to the driver; a failing  *)
(* generative run writes a replay artifact, itself a config file, and      *)
(* `replay` takes that through the same stages.  `validate` stops before   *)
(* the chains.  A #[config_runner] test was expanded from the file at      *)
(* compile time and takes it through the same loader later, when it may    *)
(* have been edited.  One behaviour follows one invocation (of `run`, one  *)
(* phase of it) and at most one replay of its artifact.                    *)
(*                                                                         *)
(* The other commands are here too: `list`, `describe`, and a test that a  *)
(* mode attribute makes without any file.  given and first are history     *)
(* variables: the document as read, and what the first run resolved to.    *)
(***************************************************************************)
EXTENDS Profiles

CONSTANTS
    Inputs,     \* the files, command lines and environments: [doc, args, environ]
    Revisions,  \* what a file may be edited to between a build and a test run
    Histories,  \* the op histories a failing run may report
    RandomSeeds,\* what SeedSpec::Random may resolve to
    Unparsable  \* a variable that is set to something that is not a number

(* A table keeps no key that is not set.  Where a number belongs the files  *)
(* have one: serde would refuse another value.                              *)
Told(t) == \A key \in DOMAIN t : t[key] # None

EnvShaped(env) == env # NotATable => Told(env) /\ ("targets" \in DOMAIN env => Told(env.targets))

TableShaped(t) ==
    t # NotATable =>
      /\ Told(t)
      /\ "seed" \in DOMAIN t => t.seed \in Int
      /\ "cases" \in DOMAIN t => t.cases \in Nat
      /\ "env" \in DOMAIN t => EnvShaped(t.env)

(* A file with every section, an absent one being empty, and what its       *)
(* declarations keep.                                                       *)
DocFields == {"harness", "unknown", "defaults", "env", "suite", "chain", "profile"}
ChainFields ==
    {"label", "kind", "target", "rpc_url", "transport", "batched", "denominated", "adjustment",
     "symbol", "dialect"}

Shaped(d) ==
    /\ DOMAIN d = DocFields
    /\ d.chain \in Seq(ToSet(d.chain))
    /\ \A i \in DOMAIN d.chain : DOMAIN d.chain[i] = ChainFields /\ d.chain[i].label # None
    /\ EnvShaped(d.env) /\ TableShaped(d.defaults)
    /\ \A p \in DOMAIN d.profile : TableShaped(d.profile[p])

(* A command line; a test has none, and only says what it runs.             *)
ArgsShaped(a) ==
    /\ a.command \in {"run", "validate", "list", "describe", "test", "attribute"}
    /\ a.target \in Targets \cup {None}
    /\ \A label \in DOMAIN a.targetChain : a.targetChain[label] \in Targets
    /\ a.seed \in Int \cup {None} /\ a.cases \in Nat \cup {None}
    /\ a.command = "test" =>
         /\ a.harness \in DOMAIN Registered /\ Cardinality(a.profiles) = 1
         /\ a.target = None /\ a.targetChain = Empty

EnvironShaped(e) ==
    /\ e.seed \in Int \cup {None, Unparsable}
    /\ {e.cases, e.proptest} \subseteq Nat \cup {None, Unparsable}

ASSUME ConfigAssumption ==
    /\ RandomSeeds \subseteq Nat /\ RandomSeeds # {}
    /\ None # NotATable /\ None \notin Int \cup Modes \cup Targets
    /\ \A d \in {in.doc : in \in Inputs} \cup Revisions : Shaped(d)
    /\ \A in \in Inputs :
         in.doc.profile # Empty /\ ArgsShaped(in.args) /\ EnvironShaped(in.environ)
    /\ \A h \in Histories : \A i \in DOMAIN h :
         h[i] = Op(h[i].kind, h[i].data) /\ h[i].kind # NoData

VARIABLES
    doc, args, environ,
    pc,
    test,       \* of a test: its case, of how many expanded, and whether the
                \* file was edited since
    warnings,
    phase,      \* the selected phase
    request,    \* the SetupRequest
    chains,     \* what the setup fn built
    drive,      \* what the driver is handed; of an attribute, what its tests were
    round,      \* 1: run, 2: replay
    given, first

vars == <<doc, args, environ, pc, test, warnings, phase, request, chains, drive, round, given, first>>

Init ==
    /\ \E in \in Inputs : doc = in.doc /\ args = in.args /\ environ = in.environ
    /\ pc = CASE args.command = "test" -> "source" [] args.command = "describe" -> "asked"
              [] args.command = "attribute" -> "attribute" [] OTHER -> "parsed"
    /\ test = None
    /\ warnings = {} /\ phase = None /\ request = None /\ chains = <<>> /\ drive = None
    /\ round = 1 /\ given = doc /\ first = None

Tested == CHOOSE p \in args.profiles : TRUE

(* read_profile_mode reads the file as TOML and merges two keys by itself.  *)
Listed == Tested \in DOMAIN doc.profile /\ doc.profile[Tested] # NotATable

(* Seeded defect: a default wins over the profile's own key. *)
OwnOrDefaultFirst(key) ==
    LET default == IF doc.defaults = NotATable THEN None ELSE Get(doc.defaults, key)
    IN  IF default # None THEN default ELSE Get(doc.profile[Tested], key)

OwnOrDefault(key) ==
    LET own == Get(doc.profile[Tested], key)
    IN  IF own # None THEN own
        ELSE IF doc.defaults = NotATable THEN None ELSE Get(doc.defaults, key)

Expandable ==
    /\ Listed
    /\ OwnOrDefault("mode") # None
    /\ OwnOrDefault("mode") = "fuzz" => OwnOrDefault("cases") \notin {None, 0}

(* One test per case of a fuzz profile, one for any other. *)
Tests ==
    IF OwnOrDefault("mode") = "fuzz"
      THEN [fan : {OwnOrDefault("cases")}, case : 0 .. (OwnOrDefault("cases") - 1)]
      ELSE {[fan |-> None, case |-> None]}

(* The attribute is expanded, the file is edited or not, and one of the     *)
(* tests starts.                                                            *)
Expand ==
    /\ pc = "source"
    /\ \/ /\ Expandable
          /\ \E t \in Tests, d \in Revisions \cup {doc} :
               /\ test' = [fan |-> t.fan, case |-> t.case, edited |-> d # doc]
               /\ doc' = d /\ given' = d
          /\ pc' = "parsed"
       \/ /\ ~Expandable
          /\ pc' = "refused at source"
          /\ UNCHANGED <<test, doc, given>>
    /\ UNCHANGED <<args, environ, warnings, phase, request, chains, drive, round, first>>

(* A stage of load_from_value, or one after it: it goes on with the         *)
(* document it leaves, or ends the invocation with a config error.          *)
Stage(from, to, refused, fits, left) ==
    /\ pc = from
    /\ IF fits THEN doc' = left /\ pc' = to
               ELSE pc' = refused /\ UNCHANGED doc
    /\ UNCHANGED <<args, environ, test, phase, request, chains, drive, round, given, first>>

Interpolate ==
    /\ Stage("parsed", "interpolated", "refused at interpolated",
             \A t \in TextsOfDoc(doc) : Resolvable(t, environ.vars),
             InterpolatedDoc(doc, environ.vars))
    /\ UNCHANGED warnings

Merge ==
    /\ Stage("interpolated", "merged", "refused at merged", Mergeable(doc), Merged(doc))
    /\ warnings' = IF Mergeable(doc) THEN Warnings(doc) ELSE warnings

Deserialize ==
    /\ Stage("merged", "typed", "refused at typed", Deserializable(doc), doc)
    /\ UNCHANGED warnings

Validate ==
    /\ Stage("typed", "loaded", "refused at loaded",
             SuitesValid(doc) /\ ProfilesValid(doc) /\ ChainsValid(doc),
             NormalizedSuites(doc))
    /\ UNCHANGED warnings
-----------------------------------------------------------------------------
(* The profile of the phase that is run. *)
profile == phase.profile

(* A phase takes part in a handoff when it inherits a world or a later one  *)
(* inherits its own.                                                        *)
PlanOf(phases, i) ==
    [profile |-> phases[i].profile, params |-> phases[i].params,
     inherits |-> phases[i].world = "inherit",
     handsOff |-> phases[i].world = "inherit" \/
                    \E j \in (i + 1) .. Len(phases) :
                      phases[j].world = "inherit" /\ phases[j].needs[1] = phases[i].profile]

Alone(p) == PlanOf(<<FreshPhase(p)>>, 1)

(* select_phases: the phases it answers, {} for a usage error.              *)
Known(names) == IF names \subseteq DOMAIN doc.profile THEN {Alone(p) : p \in names} ELSE {}

SelectPhases ==
    IF args.suite # None
      THEN IF args.suite \in DOMAIN doc.suite
             THEN LET phases == doc.suite[args.suite].phases
                  IN  {PlanOf(phases, i) : i \in DOMAIN phases}
             ELSE {}
    ELSE IF args.profiles # {} THEN Known(args.profiles)
    ELSE IF environ.profile # None THEN Known({environ.profile})
    ELSE IF Cardinality(DOMAIN doc.profile) = 1 THEN Known(DOMAIN doc.profile)
    ELSE {}

(* The harness of a test is the one the attribute names, and plainly        *)
(* registered.                                                              *)
Harnessed ==
    IF args.command = "test" THEN Register(Registered[args.harness].ops) ELSE Registered[doc.harness]

Select ==
    /\ pc = "loaded" /\ args.command = "run"
    /\ \/ \E p \in SelectPhases :
            doc.harness \in DOMAIN Registered /\ phase' = p /\ pc' = "selected"
       \/ /\ doc.harness \notin DOMAIN Registered \/ SelectPhases = {}
          /\ pc' = "refused at selected" /\ UNCHANGED phase
    /\ UNCHANGED <<doc, args, environ, test, warnings, request, chains, drive, round, given, first>>

(* list needs no harness it knows; describe reads no config at all. *)
List ==
    /\ pc = "loaded" /\ args.command = "list"
    /\ pc' = "listed"
    /\ UNCHANGED <<doc, args, environ, test, warnings, phase, request, chains, drive, round, given,
                   first>>

Describe ==
    /\ pc = "asked"
    /\ pc' = IF args.name \in DOMAIN Registered \cup {None} THEN "described" ELSE "refused at described"
    /\ UNCHANGED <<doc, args, environ, test, warnings, phase, request, chains, drive, round, given,
                   first>>

(* validate_with_config *)
ValidateWithConfig ==
    /\ pc = "loaded" /\ args.command = "validate"
    /\ pc' = IF /\ doc.harness \in DOMAIN Registered
                /\ \A p \in DOMAIN doc.profile : Validates(Harnessed, doc.profile[p])
             THEN "valid" ELSE "refused at validated"
    /\ UNCHANGED <<doc, args, environ, test, warnings, phase, request, chains, drive, round,
                   given, first>>

SameCases == test.case # None => doc.profile[Tested].cases = test.fan

(* run_profile_for_test: the profile is there, and a case is one of a fuzz  *)
(* profile of as many as were expanded.                                     *)
Testable ==
    /\ Tested \in DOMAIN doc.profile
    /\ test.case # None => doc.profile[Tested].mode = "fuzz"

RunForTest ==
    /\ pc = "loaded" /\ args.command = "test"
    /\ \/ Testable /\ SameCases /\ pc' = "selected" /\ phase' = Alone(Tested)
       \/ Testable /\ ~SameCases /\ pc' = "refused at counted" /\ UNCHANGED phase
       \/ ~Testable /\ pc' = "refused at selected" /\ UNCHANGED phase
    /\ UNCHANGED <<doc, args, environ, test, warnings, request, chains, drive, round, given, first>>
-----------------------------------------------------------------------------
Parsed(v) == IF v = Unparsable THEN None ELSE v

(* build_run_options: a flag, else the variable.  The general case count is *)
(* not looked at when the prefixed one is set, to whatever.  A test has     *)
(* RunOptions::default().                                                   *)
RunOptions ==
    IF args.command = "test"
      THEN [seed |-> None, cases |-> None, ops |-> None, duration |-> None, every |-> None,
            noShrink |-> FALSE]
    ELSE [seed |-> First(<<args.seed, Parsed(environ.seed)>>),
          cases |-> First(<<args.cases, Parsed(IF environ.cases # None THEN environ.cases
                                               ELSE environ.proptest)>>),
          ops |-> First(<<args.ops, Parsed(environ.ops)>>),
          duration |-> args.duration, every |-> args.every, noShrink |-> args.noShrink]

(* D::Args::default() in a test. *)
Overrides == IF args.command = "test" THEN NoOverrides ELSE args

Cases ==
    IF RunOptions.cases # None THEN RunOptions.cases ELSE Get(doc.profile[profile], "cases")

(* What run_profile and run_profile_for_test refuse before any setup.  A    *)
(* phase that inherits its world has no setup either: Pipeline follows it.  *)
Admit ==
    /\ pc = "selected"
    /\ pc' = IF ~Admits(Harnessed, doc.profile[profile], Cases, phase.params \/ phase.handsOff)
               THEN "refused at admitted"
             ELSE IF phase.inherits THEN "inherits" ELSE "admitted"
    /\ UNCHANGED <<doc, args, environ, test, warnings, phase, request, chains, drive, round,
                   given, first>>

(* resolve_profile, for the seed: option, profile key, 0; a negative seed   *)
(* asks for a random one.  A fuzz case runs under a sub-seed of it.         *)
BaseSeeds ==
    LET asked == First(<<RunOptions.seed, Get(doc.profile[profile], "seed"), 0>>)
    IN  IF asked < 0 THEN RandomSeeds ELSE {asked}

RunSeeds ==
    IF doc.profile[profile].mode # "fuzz" THEN BaseSeeds
    ELSE IF test # None /\ test.case # None THEN {SubSeed(s, test.case) : s \in BaseSeeds}
    ELSE {SubSeed(s, c) : s \in BaseSeeds, c \in 0 .. (Cases - 1)}

(* CrossVmDomain::build_setup. *)
Resolve ==
    /\ pc = "admitted"
    /\ LET env == EffectiveEnv(doc, profile)
       IN  IF Resolves(env, doc.chain, Overrides)
             THEN /\ \E s \in RunSeeds : request' = SetupRequest(env, doc.chain, Overrides, s)
                  /\ pc' = "resolved"
             ELSE pc' = "refused at resolved" /\ UNCHANGED request
    /\ UNCHANGED <<doc, args, environ, test, warnings, phase, chains, drive, round, given, first>>

(* The setup fn builds every chain it is handed. *)
Build ==
    /\ pc = "resolved"
    /\ IF \A i \in DOMAIN request.specs : Buildable(request.specs[i])
         THEN /\ chains' = [i \in DOMAIN request.specs |-> BuildChain(request.specs[i])]
              /\ pc' = "built"
         ELSE pc' = "refused at built" /\ UNCHANGED chains
    /\ UNCHANGED <<doc, args, environ, test, warnings, phase, request, drive, round, given, first>>

(* The driver gets its arguments once the world is patched (by a patch fn   *)
(* taken to succeed) and the steps of a scenario are decoded: only now that *)
(* the setup has touched the chains.                                        *)
Drive ==
    /\ pc = "built"
    /\ LET t == doc.profile[profile]
       IN  IF ~Patches(Harnessed, phase.params) THEN pc' = "refused at patched" /\ UNCHANGED drive
           ELSE IF t.mode = "scenario" /\ ~StepsDecode(Harnessed, t)
             THEN pc' = "refused at driven" /\ UNCHANGED drive
           ELSE /\ drive' = [seed |-> request.seed, resolved |-> ResolvedProfile(t, RunOptions),
                             args |-> DriverArgs(Harnessed, t, RunOptions)]
                /\ pc' = "driven"
    /\ UNCHANGED <<doc, args, environ, test, warnings, phase, request, chains, round, given, first>>

Pass ==
    /\ pc = "driven" /\ round = 1
    /\ pc' = "done"
    /\ UNCHANGED <<doc, args, environ, test, warnings, phase, request, chains, drive, round, given,
                   first>>

(* build_artifact; [replay] is dropped when it is read back.                *)
BuildArtifact(history) ==
    [harness |-> doc.harness, unknown |-> FALSE, defaults |-> Empty, suite |-> Empty,
     env |-> EffectiveEnv(doc, profile), chain |-> <<>>,
     profile |-> [replay |->
       [mode |-> "scenario", seed |-> request.seed,
        steps |-> [i \in DOMAIN history |-> EncodeOp(history[i])]]]]

(* write_replay_artifact: the domain's sections go in over the generic      *)
(* ones, [env] included.                                                    *)
Artifact(history) ==
    [BuildArtifact(history) EXCEPT !.env = ArtifactEnv(request), !.chain = ArtifactChains(request)]

(* A run's history has ops the harness generates; each op's to_data and its *)
(* decoder are the harness's own and taken to agree.                        *)
Reportable(history) == \A i \in DOMAIN history : Decodable(Harnessed.ops, EncodeOp(history[i]))

(* A generative run fails and leaves an artifact, which `replay` is given,  *)
(* with the target flags repeated or without.  A test leaves none.          *)
FailAndReplay ==
    /\ pc = "driven" /\ round = 1 /\ args.command = "run"
    /\ doc.profile[profile].mode # "scenario"
    /\ \E h \in Histories :
         /\ Reportable(h)
         /\ doc' = Artifact(h) /\ given' = Artifact(h)
         /\ first' = [given |-> given, request |-> request, chains |-> chains, history |-> h]
    /\ \E flags \in {NoOverrides, [target |-> args.target, targetChain |-> args.targetChain]} :
         args' = [command |-> "run", suite |-> None, profiles |-> {"replay"},
                  seed |-> None, cases |-> None, ops |-> None, duration |-> None,
                  every |-> None, noShrink |-> FALSE,
                  target |-> flags.target, targetChain |-> flags.targetChain]
    /\ pc' = "parsed" /\ round' = 2
    /\ warnings' = {} /\ phase' = None /\ request' = None /\ chains' = <<>> /\ drive' = None
    /\ UNCHANGED <<environ, test>>

-----------------------------------------------------------------------------
(* A mode attribute is expanded; then its tests run, in one process and in  *)
(* any order.  Those of a fuzz attribute share the cell that holds a random *)
(* base seed: the first to run fills it.                                    *)
ExpandAttribute ==
    /\ pc = "attribute"
    /\ IF AttributeExpands(args.attribute)
         THEN pc' = "tests" /\ drive' = [cell |-> None, seeds |-> Empty]
         ELSE pc' = "refused at expanded" /\ UNCHANGED drive
    /\ UNCHANGED <<doc, args, environ, test, warnings, phase, request, chains, round, given, first>>

RunAttributeTest(case) ==
    /\ pc = "tests" /\ case \notin DOMAIN drive.seeds
    /\ LET a == args.attribute
       IN  \E base \in IF drive.cell # None THEN {drive.cell} ELSE AttributeSeeds(a, RandomSeeds) :
             drive' = IF FansOut(a)
                        THEN [cell |-> base,
                              seeds |-> Shallow(drive.seeds, [c \in {case} |-> SubSeed(base, c)])]
                        ELSE [drive EXCEPT !.seeds = [c \in {case} |-> base]]
    /\ UNCHANGED <<doc, args, environ, pc, test, warnings, phase, request, chains, round, given, first>>

RunAttributeTests == pc = "tests" /\ \E case \in AttributeTests(args.attribute) : RunAttributeTest(case)
-----------------------------------------------------------------------------
Refusals ==
    {"refused at source", "refused at interpolated", "refused at merged", "refused at typed",
     "refused at loaded", "refused at selected", "refused at validated", "refused at counted",
     "refused at admitted", "refused at resolved", "refused at built", "refused at patched",
     "refused at driven", "refused at described", "refused at expanded"}

Done ==
    /\ \/ pc \in Refusals \cup {"valid", "listed", "described", "inherits", "done"}
       \/ pc = "driven" /\ round = 2
       \/ pc = "tests" /\ DOMAIN drive.seeds = AttributeTests(args.attribute)
    /\ UNCHANGED vars

Next ==
    \/ Expand \/ Interpolate \/ Merge \/ Deserialize \/ Validate
    \/ Select \/ ValidateWithConfig \/ List \/ Describe \/ RunForTest \/ Admit
    \/ Resolve \/ Build \/ Drive \/ Pass \/ FailAndReplay
    \/ ExpandAttribute \/ RunAttributeTests \/ Done

Spec == Init /\ [][Next]_vars
-----------------------------------------------------------------------------
(* The merge's allowlist and the four wire structs are two tables of the    *)
(* same keys: a default reaches exactly the profiles whose mode has a field *)
(* for it.  One too many and every such file is refused, one too few and    *)
(* the default is silently lost.  Whatever the stages in between made of    *)
(* the file, the driver's cadence and length are then the first of flag,    *)
(* variable (length only), the profile's own key, and the default as        *)
(* written.                                                                 *)
DefaultsReachTheirModes ==
    /\ pc = "merged" =>
         \A p \in DOMAIN doc.profile :
           LET mode == Get(doc.profile[p], "mode")
           IN  mode \in Modes =>
                 \A key \in DOMAIN given.defaults \ (DOMAIN given.profile[p] \cup {"mode", "env"}) :
                   key \in DOMAIN doc.profile[p] <=> key \in Wire(mode)
    /\ pc = "driven" /\ args.command = "run" =>
         LET written(key) == First(<<Get(given.profile[profile], key), Get(given.defaults, key)>>)
         IN  /\ drive.resolved.every = First(<<args.every, written("check_every"), 1>>)
             /\ "ops" \in DOMAIN drive.args =>
                  drive.args.ops = First(<<args.ops, Parsed(environ.ops),
                                      written(IF doc.profile[profile].mode = "endurance"
                                                THEN "max_ops" ELSE "ops")>>)

(* What the load-time checks accept, resolving without target flags does    *)
(* not refuse: they walk the same precedence over the same effective env.   *)
(* (An unknown kind is left to the framework on purpose.)                   *)
LoadedConfigsResolve ==
    pc = "refused at resolved" =>
      \/ args.target # None \/ DOMAIN args.targetChain # {}
      \/ \E i \in DOMAIN doc.chain : doc.chain[i].kind \notin Kinds

(* The env a profile wrote, or took from [defaults]. *)
OwnEnv(p) ==
    LET d == given.defaults
        t == given.profile[p]
    IN  IF "env" \in DOMAIN t THEN t.env ELSE IF "env" \in DOMAIN d THEN d.env ELSE Empty

In(env, label) == IF "targets" \in DOMAIN env THEN Get(env.targets, label) ELSE None

(* Which chain is live is decided in six places.  Whatever the merges made  *)
(* of the file, the outcome is the first that speaks, read off the file as  *)
(* written: flag for the chain, the profile's label, the top-level label,   *)
(* the declaration, the blanket flag, the profile's default, the top-level  *)
(* default, mock.                                                           *)
TargetsFollowThePrecedence ==
    pc = "resolved" =>
      \A i \in DOMAIN request.specs :
        LET spec == request.specs[i]
            decl == CHOOSE j \in DOMAIN given.chain : given.chain[j].label = spec.label
            order == <<Get(args.targetChain, spec.label), In(OwnEnv(profile), spec.label),
                       In(given.env, spec.label), given.chain[decl].target, args.target,
                       Get(OwnEnv(profile), "target"), Get(given.env, "target"), "mock">>
            speaks == CHOOSE n \in DOMAIN order :
                        order[n] # None /\ \A k \in 1 .. (n - 1) : order[k] = None
        IN  spec.target = order[speaks]

Literal(d) == \A t \in TextsOfDoc(d) : t.form = "plain"

(* An artifact is a config that loads, resolves, builds and decodes back to *)
(* the recorded ops, whatever flags chose the chains of the failing run;    *)
(* unless the history is empty or a text in it reads as an expression,      *)
(* since the loader interpolates again.                                     *)
ArtifactsLoad ==
    round = 2 =>
      /\ pc \in Refusals => given.profile["replay"].steps = <<>> \/ ~Literal(given)
      /\ pc = "driven" /\ Literal(given) =>
           drive.args.steps = [i \in DOMAIN first.history |->
                            [op |-> first.history[i], expect |-> "accepted", delay |-> Zero,
                             check |-> TRUE]]

(* The replay of an artifact meets the chains of the failing run: the same  *)
(* labels in the same order, each as live as it was, under the same seed    *)
(* (unless the environment sets one).                                       *)
ReplayMeetsTheSameChains ==
    round = 2 /\ pc = "built" =>
      /\ request.target = first.request.target
      /\ Parsed(environ.seed) = None => request.seed = first.request.seed
      /\ Len(request.specs) = Len(first.request.specs)
      /\ \A i \in DOMAIN request.specs :
           LET now == request.specs[i] then == first.request.specs[i]
           IN  /\ now.label = then.label /\ now.target = then.target
               /\ \A it \in {"vm", "adjustment", "symbol", "rules"} : chains[i][it] = first.chains[i][it]
               /\ chains[i].via = "mock" <=> first.chains[i].via = "mock"

(* `validate` and the run check a profile twice, in code of their own and   *)
(* in another order: what the run refuses for the profile, before it sets   *)
(* anything up or after, `validate` refuses (but for a case count of 0,     *)
(* which a flag or a variable can ask for, as it can for several of a phase *)
(* that has one world to hand over or to patch), and what it drives,        *)
(* `validate` accepts.                                                      *)
ValidateForetellsRun ==
    /\ pc = "refused at admitted" =>
         \/ Cases = 0 \/ (Cases # 1 /\ (phase.handsOff \/ phase.params))
         \/ ~Validates(Harnessed, doc.profile[profile])
    /\ pc = "refused at driven" => ~Validates(Harnessed, doc.profile[profile])
    /\ pc = "driven" => Validates(Harnessed, doc.profile[profile])

(* The macro counts the cases of a file with a merge of its own, and the    *)
(* test loads the file anew.  A case that drives is a case of the file as   *)
(* it is now, under a seed the plain run of that file would use; all of its *)
(* cases were expanded; and a test of a file nobody edited never asks for a *)
(* rebuild.  The tests of an attribute run under the sub-seeds of one base, *)
(* whichever ran first.                                                     *)
TestsRunCasesOfTheRun ==
    /\ pc = "tests" /\ FansOut(args.attribute) =>
         \E base \in AttributeSeeds(args.attribute, RandomSeeds) :
           \A case \in DOMAIN drive.seeds : drive.seeds[case] = SubSeed(base, case)
    /\ test # None =>
         /\ pc = "driven" /\ test.case # None =>
              LET t == doc.profile[profile]
              IN  /\ test.fan = t.cases
                  /\ \E s \in BaseSeeds, c \in 0 .. (t.cases - 1) : drive.seed = SubSeed(s, c)
         /\ pc = "refused at counted" => test.edited

(* The replay resolves the same environment: the setup fn is handed the     *)
(* same [env.params].  The artifact writer promises it and does not hold    *)
(* it, since the domain's [env] section replaces the one with the params.   *)
ReplayMeetsTheSameEnvironment ==
    round = 2 /\ pc = "resolved" => request.params = first.request.params
=============================================================================
