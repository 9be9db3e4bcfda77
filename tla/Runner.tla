------------------------------- MODULE Runner -------------------------------
(***************************************************************************)
(* What becomes of one profile, from its run to the replay of its failure: *)
(* run_profile (harness-cli registry.rs) hands the start state to the      *)
(* driver of the profile's mode, maybe_shrink minimises a generative       *)
(* failure, the artifact writer turns the history into a scenario, and     *)
(* `replay` runs that from the setup the failing run had.  A test that has *)
(* a list of ops calls Runner::run_and_shrink instead.                     *)
(*                                                                         *)
(* The drivers are Drive, Endurance, Shrink and Scenario; they share one   *)
(* runner, so one world, report, history and position.  mode says which of *)
(* them it is in.  start and failed are what the artifact embeds: the      *)
(* seeded setup, which answers the same world each time, and the failure.  *)
(***************************************************************************)
EXTENDS FixedRun

CONSTANTS
    Starts,         \* by driver, the worlds a setup may build
    Plans, Scripts, Configs, Limits,
    Unbounded, StepBound, Advance(_)

VARIABLES
    mode, start, failed,
    plan,           \* the run's arguments: a Plan, a Config, a script, a failure to shrink
    source, world, op, steps, history, coverage, pc, report, log,
    stop, expired, streak,
    refKind, current, budget, size, at, replays

driven == <<source, world, op, steps, history, coverage, report, log>>
loop == <<stop, expired, streak>>
search == <<refKind, current, budget, size, at, replays>>
vars == <<mode, start, failed, plan, pc, driven, loop, search>>

Sequence == INSTANCE Drive WITH Start <- Starts["sequence"]
Loop == INSTANCE Endurance WITH Start <- Starts["endurance"], config <- plan, remaining <- source
Script == INSTANCE Scenario WITH Start <- Starts["scenario"], script <- plan, count <- steps
Search == INSTANCE Shrink WITH failure <- plan

ASSUME RunnerAssumption ==
    /\ \A m \in {"sequence", "endurance", "scenario"} : Starts[m] \subseteq World
    /\ Plans \subseteq Sequence!Plan
    /\ Configs \subseteq Loop!Config
    /\ Scripts \subseteq [steps : Seq(Script!ScenarioStep), every : Nat]
    /\ Limits \subseteq Nat
    /\ Unbounded \notin Nat /\ StepBound \in Nat
    /\ \A w \in World : Advance(w) # {} /\ Advance(w) \subseteq [ok : BOOLEAN, world : World]
    /\ "mismatch" \notin BugDetail
    /\ Deterministic

NoLoop == stop = FALSE /\ expired = FALSE /\ streak = 0

Init ==
    /\ \/ mode = "sequence" /\ Sequence!Init /\ NoLoop
       \/ mode = "endurance" /\ Loop!Init
       \/ mode = "scenario" /\ Script!Init /\ NoLoop /\ source = 0 /\ op = NoOp
    /\ refKind = NoFailure /\ current = <<>>
    /\ budget = 0 /\ size = 0 /\ at = 0 /\ replays = 0
    /\ start = world
    /\ failed = NoFailure

Drive ==
    /\ mode = "sequence" /\ Sequence!Next
    /\ UNCHANGED <<mode, start, failed, loop, search>>

Endure ==
    /\ mode = "endurance" /\ Loop!Next
    /\ UNCHANGED <<mode, start, failed, search>>

Follow ==
    /\ mode = "scenario" /\ Script!Next
    /\ UNCHANGED <<mode, start, failed, source, op, loop, search>>

Shrink ==
    /\ mode = "shrink" /\ Search!Next
    /\ UNCHANGED <<mode, start, failed, driven, loop>>
-----------------------------------------------------------------------------
(* A run_profile that failed; a fixed list is not a profile. *)
Generative == mode = "endurance" \/ (mode = "sequence" /\ ~plan.fixed)

Failing == pc = "done" /\ report # NoFailure /\ ~report.passed

(* The search starts on the history, from the same setup. *)
BeginSearch(as) ==
    /\ failed' = [mode |-> as, every |-> plan.every, report |-> report]
    /\ mode' = "shrink" /\ pc' = "reference"
    /\ \E l \in Limits :
         /\ plan' = [history |-> report.history, kind |-> report.kind, every |-> plan.every,
                     world |-> start, limit |-> l]
         /\ budget' = l
    /\ current' = report.history
    /\ UNCHANGED <<start, driven, loop, refKind, size, at, replays>>

(* A new runner is loaded with what the same setup answers.                 *)
Setup ==
    /\ world' = start /\ steps' = 0 /\ history' = <<>> /\ coverage' = SeedCoverage
    /\ report' = NoFailure /\ log' = <<>> /\ op' = NoOp
    /\ refKind' = NoFailure /\ current' = <<>>
    /\ budget' = 0 /\ size' = 0 /\ at' = 0 /\ replays' = 0
    /\ UNCHANGED start

(* maybe_shrink *)
Minimize == Failing /\ Generative /\ BeginSearch(mode)

(* run_and_shrink_with, once the fixed list has failed ... *)
ShrinkFixed ==
    /\ Failing /\ mode = "sequence" /\ plan.fixed /\ failed = NoFailure
    /\ BeginSearch("fixed")

(* ... and once it is minimal: it is driven again on a fresh setup, for the *)
(* report that is returned.                                                 *)
Redrive ==
    /\ mode = "shrink" /\ pc = "done" /\ failed.mode = "fixed"
    /\ mode' = "sequence" /\ pc' = "next"
    /\ plan' = [fixed |-> TRUE, mix |-> [shape |-> "Harness", list |-> <<>>], ops |-> 0,
                list |-> current, every |-> plan.every]
    /\ source' = [remaining |-> 0, rest |-> current]
    /\ Setup
    /\ UNCHANGED <<failed, loop>>

(* Seeded defect: the steps are written without their checks. *)
ArtifactStepsUnchecked(ops) ==
    [i \in DOMAIN ops |-> [op |-> ops[i], expect |-> "accepted", check |-> FALSE]]

(* ArtifactStep: only the op is written, so that the rest are the defaults  *)
(* of ScenarioStepRaw.                                                      *)
ArtifactSteps(ops) ==
    [i \in DOMAIN ops |-> [op |-> ops[i], expect |-> "accepted", check |-> TRUE]]

(* The artifact is written and `replay` is given it.  The loader refuses    *)
(* one without steps.                                                       *)
ReplayArtifact ==
    /\ Failing /\ (Generative \/ (mode = "shrink" /\ failed.mode # "fixed"))
    /\ LET ops == IF mode = "shrink" THEN current ELSE report.history
       IN  ops # <<>> /\ plan' = [steps |-> ArtifactSteps(ops), every |-> 1]
    /\ failed' = IF mode = "shrink" THEN failed
                 ELSE [mode |-> mode, every |-> plan.every, report |-> report]
    /\ mode' = "scenario" /\ pc' = "next"
    /\ source' = 0
    /\ stop' = FALSE /\ expired' = FALSE /\ streak' = 0
    /\ Setup

(* What run_and_shrink_with returns: the history of a report of the list    *)
(* that was driven again is the whole minimum, past the op that failed too. *)
Redriven == mode = "sequence" /\ pc = "done" /\ failed # NoFailure

Returned == IF Redriven /\ ~report.passed THEN [report EXCEPT !.history = plan.list] ELSE report

Next == Drive \/ Endure \/ Follow \/ Shrink \/ Minimize \/ ShrinkFixed \/ Redrive \/ ReplayArtifact

(* A driver always takes its next step: what it awaits returns.  Neither    *)
(* the signal nor the deadline of an endurance run is owed to it.           *)
Spec ==
    Init /\ [][Next]_vars
         /\ WF_vars(Drive) /\ WF_vars(Follow) /\ WF_vars(Shrink)
         /\ WF_vars(mode = "endurance" /\ Loop!Loop /\ UNCHANGED <<mode, start, failed, search>>)
-----------------------------------------------------------------------------
(* The report of a fuzz, invariant or fixed run is true to it: no violation *)
(* at the cadence was stepped over, a failure is the first fault and no     *)
(* later one, and the coverage counts the sweeps that ran.                  *)
SequenceReportsTrue ==
    mode = "sequence" =>
      /\ Sequence!NothingStepsOverAViolation
      /\ Sequence!FailureIsTheFirstFault
      /\ Sequence!CoverageCountsTheSweeps

(* Ops come only from kinds with weight, static and dynamic.                *)
DrawsFollowTheWeights == mode = "sequence" => Sequence!DrawsFollowTheWeights

(* Replays in memory (Runner::replay, shrink candidates) report what the    *)
(* driver reported.                                                         *)
ReplayReproduces ==
    mode = "sequence" => Sequence!FixedRunIsRunFixed /\ Sequence!ReplayReproduces

(* An endurance run passes only swept clean, goes on past a due step only   *)
(* if its sweep was clean, and tolerates infra failures in a row exactly up *)
(* to the configured streak.                                                *)
EnduranceReportsTrue ==
    mode = "endurance" =>
      Loop!PassIsSweptClean /\ Loop!DueStepsWereClean /\ Loop!ToleranceIsExact

(* Ctrl-c lets the op in flight finish and begins no other.                 *)
StopIsGraceful ==
    /\ [][mode = "endurance" /\ stop /\ mode' = mode => history' = history]_vars
    /\ [](mode = "endurance" => Loop!NothingIsSevered)

(* A scenario passes only if every expectation was met and every check came *)
(* out clean, and fails at the first step that broke something.             *)
ScriptsAreHonoured ==
    mode = "scenario" => Script!PassMeetsEveryExpectation /\ Script!FailureIsTheFirstBroken

(* Whatever the search has in hand, when it ends or is out of budget too,   *)
(* fails like the reference and is made of the original ops in their order. *)
(* It costs at most shrink_limit replays after the reference.  A minimised  *)
(* fixed list that is driven again fails as the list did, and so does the   *)
(* history of the report that is returned for it.                           *)
ShrinkingKeepsTheFailure ==
    /\ mode = "shrink" =>
         Search!AlwaysReproduces /\ Search!KeepsTheOrder /\ Search!BudgetBoundsReplays
    /\ Redriven =>
         /\ ~Returned.passed /\ SameFailure(Returned.kind, failed.report.kind)
         /\ LET again == RunFixed(Returned.history, failed.every, start)
            IN  again.kind # NoFailure /\ SameFailure(again.kind, failed.report.kind)

(* A failing history, shrunk or not, still fails the same way when its      *)
(* artifact is replayed, if the run swept after every op and the failure is *)
(* an op's; except that the replay stops at an op that was rejected.        *)
ArtifactReplays ==
    mode = "scenario" /\ pc = "done" /\ failed # NoFailure =>
      \/ failed.mode # "sequence" \/ failed.every # 1
      \/ failed.report.kind \in {Infra("mix"), Infra("draw")}
      \/ report.kind = Script!Mismatch
      \/ ~report.passed /\ SameFailure(report.kind, failed.report.kind)

(* Every driver ends in a report: endurance once it is stopped or its       *)
(* deadline is past, the others by themselves.                              *)
EveryRunEnds == (mode # "endurance" \/ stop \/ expired) ~> pc = "done"

(* "A replay just re-runs the recorded sequence and checks invariants": it  *)
(* does not add a failure of its own.                                       *)
ArtifactReplaysTheFailure ==
    mode = "scenario" /\ pc = "done" /\ failed # NoFailure
      /\ failed.mode = "sequence" /\ failed.every = 1
      /\ failed.report.kind \notin {Infra("mix"), Infra("draw")}
    => ~report.passed /\ SameFailure(report.kind, failed.report.kind)
=============================================================================
