------------------------------ MODULE Pipeline ------------------------------
(***************************************************************************)
(* One `run` invocation: run_selected (crates/harness-cli/src/cli.rs)      *)
(* walks the selected phases in order, gates each on the outcomes of its   *)
(* needs, drives it through Registry::run / run_profile (registry.rs), and *)
(* folds the codes.  Worlds pass from phase to phase through the one       *)
(* session slot a registered harness has.                                  *)
(*                                                                         *)
(* A world is its lineage, the profiles that drove it (see Handoff).  What *)
(* a phase's run does inside is Drive, Endurance or Scenario; here it ends *)
(* in a verdict.  origin and found are history variables.                  *)
(***************************************************************************)
EXTENDS Suites

CONSTANTS
    Profile,
    Config,         \* [profile.*]: [mode, cases, shrink, exports]
    Invocations,    \* the `run` command lines to consider
    NoWorld,
    Unset           \* the None of opts.cases

Modes == {"fuzz", "invariant", "endurance", "scenario"}

Phase == Phases(Profile)

(* What select_phases answers, with what else matters here: --cases,        *)
(* whether a JSON report was asked for, and whether the harness was         *)
(* registered with register_persistent* and register_*_with_patch.          *)
Invocation == [phases : Seq(Phase), stopOnFailure : BOOLEAN,
               cases : Nat \cup {Unset}, json : BOOLEAN,
               persistent : BOOLEAN, patchable : BOOLEAN]

(* is_single_setup, over the configured cases. *)
SingleSetup(p) == Config[p].mode = "fuzz" => Config[p].cases = 1

ValidSuite(s) == ValidPhases(s, {p \in Profile : SingleSetup(p)})

(* A suite the loader let through, or --profile A --profile B: fresh_phase *)
(* for each, whatever the names.                                           *)
Selectable(v) ==
    \/ ValidSuite(v.phases)
    \/ /\ ~v.stopOnFailure
       /\ \A j \in DOMAIN v.phases : v.phases[j] = FreshPhase(v.phases[j].profile)

ASSUME PipelineAssumption ==
    /\ Config \in [Profile -> [mode : Modes, cases : Nat, shrink : BOOLEAN, exports : BOOLEAN]]
    /\ Invocations \subseteq Invocation /\ \A v \in Invocations : Selectable(v)
    /\ NoWorld \notin Seq(Profile) /\ Unset \notin Nat

VARIABLES
    run,            \* the invocation
    i,              \* the phase at hand
    pc,
    outcomes,       \* PhaseOutcome by profile name, "none" when absent
    code,
    session,        \* the SessionSlot
    world,          \* the runner's (Ctx, World)
    case,           \* the fuzz case at hand
    verdict,        \* how the drive ended
    stop,           \* opts.stop
    origin,         \* the world each profile's last drive started from
    found           \* the exit codes the phases ended with

vars == <<run, i, pc, outcomes, code, session, world, case, verdict, stop, origin, found>>

Init ==
    /\ run \in Invocations
    /\ i = 1
    /\ pc = "between"
    /\ outcomes = [p \in Profile |-> "none"]
    /\ code = 0
    /\ session = NoWorld /\ world = NoWorld
    /\ case = 0
    /\ verdict = "none"
    /\ stop = FALSE
    /\ origin = [p \in Profile |-> NoWorld]
    /\ found = {}
-----------------------------------------------------------------------------
Current == run.phases[i]
Profiled == Config[Current.profile]

Cases == IF run.cases = Unset THEN Profiled.cases ELSE run.cases

(* Seeded defect: only the next phase is looked at. *)
StashesForTheNext ==
    /\ i < Len(run.phases)
    /\ run.phases[i + 1].world = "inherit" /\ run.phases[i + 1].needs[1] = Current.profile

(* resolved.stash_world: a later phase inherits from this one. *)
Stashes ==
    \E j \in (i + 1) .. Len(run.phases) :
      run.phases[j].world = "inherit" /\ run.phases[j].needs[1] = Current.profile

HandsOff == Current.world = "inherit" \/ Stashes \/ Current.params

(* The runs run_profile refuses before it has a world. *)
Degenerate ==
    \/ Profiled.mode = "fuzz" /\ (Cases = 0 \/ (HandsOff /\ Cases # 1))
    \/ Profiled.mode = "scenario" /\ Profiled.exports /\ ~run.persistent

SeverityRank(c) == CASE c = 0 -> 0 [] c = 2 -> 1 [] c = 1 -> 2 [] c = 3 -> 3

(* Seeded defect: the numerically largest code wins. *)
CombineLargest(worst, c) == IF c > worst THEN c ELSE worst

Combine(worst, c) == IF SeverityRank(c) > SeverityRank(worst) THEN c ELSE worst

ExitCodeFor(v) == CASE v = "passed" -> 0 [] v \in {"bug", "invariant"} -> 1 [] v = "infra" -> 2

StopsAfter(c) == run.stopOnFailure /\ c # 0

(* The phase is over with code c: outcomes.insert, combine, and the break   *)
(* under stop_on_failure.                                                   *)
Settle(c) ==
    /\ outcomes' = [outcomes EXCEPT ![Current.profile] = IF c = 0 THEN "passed" ELSE "failed"]
    /\ code' = Combine(code, c)
    /\ found' = found \cup {c}
    /\ i' = i + 1
    /\ pc' = IF StopsAfter(c) THEN "report" ELSE "between"
    /\ world' = NoWorld
    /\ verdict' = "none"
    /\ UNCHANGED <<run, stop, origin>>
-----------------------------------------------------------------------------
Over == {"done", "panicked", "killed"}

(* Ctrl-c, at any time. *)
Interrupt ==
    /\ ~stop /\ pc \notin Over
    /\ stop' = TRUE
    /\ UNCHANGED <<run, i, pc, outcomes, code, session, world, case, verdict, origin, found>>

(* A second one exits at once, with 130. *)
Kill ==
    /\ stop /\ pc \notin Over
    /\ pc' = "killed"
    /\ UNCHANGED <<run, i, outcomes, code, session, world, case, verdict, stop, origin, found>>

(* The loop ends: no phase is left, or a stop was asked for. *)
Leave ==
    /\ pc = "between"
    /\ i > Len(run.phases) \/ stop
    /\ pc' = "report"
    /\ UNCHANGED <<run, i, outcomes, code, session, world, case, verdict, stop, origin, found>>

AtPhase == pc = "between" /\ i <= Len(run.phases) /\ ~stop

(* Seeded defect: a skipped phase gates nothing. *)
GatedByFailure == \E n \in ToSet(Current.needs) : outcomes[n] = "failed"

Gated == \E n \in ToSet(Current.needs) : outcomes[n] # "passed"

(* Seeded defect: the loop stays at the phase it skipped. *)
SkipInPlace ==
    /\ AtPhase /\ Gated
    /\ outcomes' = [outcomes EXCEPT ![Current.profile] = "skipped"]
    /\ UNCHANGED <<run, i, pc, code, session, world, case, verdict, stop, origin, found>>

(* PhaseOutcome::Skipped: nothing is driven and the code is not touched. *)
Skip ==
    /\ AtPhase /\ Gated
    /\ outcomes' = [outcomes EXCEPT ![Current.profile] = "skipped"]
    /\ i' = i + 1
    /\ UNCHANGED <<run, pc, code, session, world, case, verdict, stop, origin, found>>

(* A usage error: the profile does not resolve, its kinds do not parse, or  *)
(* the run is degenerate.                                                   *)
Refuse ==
    /\ AtPhase /\ ~Gated
    /\ Settle(3)
    /\ UNCHANGED <<session, case>>

Enter ==
    /\ AtPhase /\ ~Gated /\ ~Degenerate
    /\ case' = 1
    /\ pc' = "obtain"
    /\ UNCHANGED <<run, i, outcomes, code, session, world, verdict, stop, origin, found>>

Obtain(w) ==
    /\ world' = w
    /\ origin' = [origin EXCEPT ![Current.profile] = w]
    /\ pc' = "start"

(* obtain_start_state, or the fresh setup of one fuzz case. *)
ObtainFresh ==
    /\ pc = "obtain" /\ Current.world = "fresh"
    /\ Obtain(<<>>)
    /\ UNCHANGED <<run, i, outcomes, code, session, case, verdict, stop, found>>

(* make_setup is a usage or an infra error; the setup fn an infra error. *)
SetupFails ==
    /\ pc = "obtain" /\ Current.world = "fresh"
    /\ \E c \in {2, 3} : Settle(c)
    /\ UNCHANGED <<session, case>>

(* session.take(). *)
ObtainInherited ==
    /\ pc = "obtain" /\ Current.world = "inherit"
    /\ session # NoWorld
    /\ Obtain(session)
    /\ session' = NoWorld
    /\ UNCHANGED <<run, i, outcomes, code, case, verdict, stop, found>>

NoDonorWorld ==
    /\ pc = "obtain" /\ Current.world = "inherit"
    /\ session = NoWorld
    /\ Settle(3)
    /\ UNCHANGED <<session, case>>

(* apply_phase_patch, and the decoding of a scenario's steps: whatever      *)
(* world was taken from the slot is lost with the error.                    *)
Spoil ==
    /\ pc = "start"
    /\ \/ Current.params /\ Settle(IF run.patchable THEN 2 ELSE 3)
       \/ Profiled.mode = "scenario" /\ (Current.params => run.patchable) /\ Settle(3)
    /\ UNCHANGED <<session, case>>

(* The run itself.  A passing fuzz case that is not the last is followed by *)
(* a fresh one.                                                             *)
Drive ==
    /\ pc = "start" /\ (Current.params => run.patchable)
    /\ \E v \in {"passed", "bug", "invariant", "infra"} :
         IF Profiled.mode = "fuzz" /\ v = "passed" /\ case < Cases
           THEN /\ pc' = "obtain" /\ case' = case + 1 /\ world' = NoWorld
                /\ UNCHANGED verdict
           ELSE /\ pc' = "driven" /\ verdict' = v
                /\ world' = Append(world, Current.profile)
                /\ UNCHANGED case
    /\ UNCHANGED <<run, i, outcomes, code, session, stop, origin, found>>

(* maybe_shrink's guards.  Scenarios never get there. *)
Shrinks ==
    /\ Profiled.mode # "scenario" /\ Profiled.shrink
    /\ verdict # "passed"
    /\ Current.world = "fresh" /\ ~Current.params

(* A shrink rebuild whose setup fails: .expect() ends the process. *)
ShrinkPanics ==
    /\ pc = "driven" /\ Shrinks
    /\ pc' = "panicked"
    /\ UNCHANGED <<run, i, outcomes, code, session, world, case, verdict, stop, origin, found>>

(* A passing run hands its world over; Ok(report) then settles the phase. *)
Report ==
    /\ pc = "driven"
    /\ session' = IF verdict = "passed" /\ Stashes THEN world ELSE session
    /\ Settle(ExitCodeFor(verdict))
    /\ UNCHANGED case

(* RunError::Export: a world that cannot be written is not handed over.     *)
ReportFails ==
    /\ pc = "driven" /\ Profiled.mode = "scenario" /\ Profiled.exports
    /\ Settle(2)
    /\ UNCHANGED <<session, case>>

(* The JSON envelope, written once. *)
WriteReport ==
    /\ pc = "report"
    /\ \E c \in IF run.json THEN {0, 3} ELSE {0} :
         code' = Combine(code, c) /\ found' = found \cup {c}
    /\ pc' = "done"
    /\ UNCHANGED <<run, i, outcomes, session, world, case, verdict, stop, origin>>

Done == pc \in Over /\ UNCHANGED vars

Step ==
    \/ Leave \/ Skip \/ Refuse \/ Enter \/ ObtainFresh \/ SetupFails
    \/ ObtainInherited \/ NoDonorWorld \/ Spoil \/ Drive \/ ShrinkPanics
    \/ Report \/ ReportFails \/ WriteReport

Next == Interrupt \/ Kill \/ Step \/ Done

Spec == Init /\ [][Next]_vars /\ WF_vars(Step)
-----------------------------------------------------------------------------
(* The exit code is the worst any phase or the report writer ended with: 3  *)
(* before 1 before 2 before 0, whatever the order they came in.  And green  *)
(* means green: skipped phases add nothing to it, yet an invocation that    *)
(* exits 0 has passed every phase, except those a ctrl-c kept from starting.*)
(* Under stop_on_failure no phase is so much as skipped after a failed one. *)
ExitIsTheWorst ==
    /\ pc = "done" =>
         /\ (code = 3) <=> (3 \in found)
         /\ (code = 1) <=> (1 \in found /\ 3 \notin found)
         /\ (code = 2) <=> (2 \in found /\ found \cap {1, 3} = {})
         /\ code = 0 =>
              \A j \in DOMAIN run.phases :
                \/ outcomes[run.phases[j].profile] = "passed"
                \/ stop /\ outcomes[run.phases[j].profile] = "none"
    /\ run.stopOnFailure =>
         \A j, k \in DOMAIN run.phases :
           j < k /\ outcomes[run.phases[j].profile] = "failed"
             => outcomes[run.phases[k].profile] = "none"

(* An inheriting phase starts from the world its donor finished with: not   *)
(* from a fresh one, nor from one another phase left.                       *)
HeirStartsWhereItsDonorEnded ==
    \A j \in DOMAIN run.phases :
      LET heir == run.phases[j]
          donor == heir.needs[1]
      IN  heir.world = "inherit" /\ origin[heir.profile] # NoWorld =>
            origin[heir.profile] = Append(origin[donor], donor)

Promise == INSTANCE Handoff WITH suite <- run.phases, outcome <- outcomes

(* The slot hands every world on, and once: an heir whose donor passed      *)
(* finds one, unless another donor or heir came between them, and a world   *)
(* lies there only while the phase that left it has passed and nobody has   *)
(* started from it.                                                         *)
SlotHandsOn ==
    /\ pc = "obtain" /\ Current.world = "inherit" /\ ~Promise!Contended(i) =>
         session # NoWorld
    /\ session # NoWorld =>
         /\ session # <<>> /\ outcomes[Last(session)] = "passed"
         /\ \A p \in Profile : origin[p] # session

(* The invocation ends, if only in a panic or at a second ctrl-c.           *)
Terminates == <>(pc \in Over)

(* The invocation ends with one of the documented exit codes, unless a      *)
(* second ctrl-c has forced it to quit.                                     *)
ExitsWithACode == <>(pc \in {"done", "killed"})

(* The suite's promise (Handoff), kept by the slot: a phase runs once all   *)
(* it needs has passed, and an heir whose slot is not contended starts      *)
(* where its donor ended.                                                   *)
Implements == Promise!Spec
=============================================================================
