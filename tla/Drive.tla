------------------------------- MODULE Drive -------------------------------
(***************************************************************************)
(* drive(): the sequence driver behind fuzz and invariant runs (ops drawn  *)
(* from a mix) and behind run_fixed (replays and shrink candidates, a      *)
(* fixed list).  One behaviour is one run over a loaded (Ctx, World).      *)
(*                                                                         *)
(* log is a history variable: the world each applied op met, its answer    *)
(* and the world it left.  Nothing reads it but the properties.            *)
(***************************************************************************)
EXTENDS FixedRun

CONSTANTS
    Start,      \* the worlds a run may start from
    Plans       \* the runs: [fixed, mix, ops, list, every]

VARIABLES
    plan,       \* the arguments of this run
    source,     \* OpSource: what is left to draw, [remaining, rest]
    world,
    op,         \* the op in flight
    steps,
    history,    \* ReportBuilder.history
    coverage,   \* ReportBuilder.coverage
    pc,
    report,
    log

vars == <<plan, source, world, op, steps, history, coverage, pc, report, log>>

Plan == [fixed : BOOLEAN, mix : Mix, ops : Nat, list : Seq(Operation), every : Nat]

Init ==
    /\ plan \in Plans
    /\ world \in Start
    /\ source = [remaining |-> plan.ops, rest |-> plan.list]
    /\ op = NoOp
    /\ steps = 0
    /\ history = <<>>
    /\ coverage = SeedCoverage
    /\ pc = IF plan.fixed THEN "next" ELSE "resolve"
    /\ report = NoFailure
    /\ log = <<>>

Fail(o, kind) ==
    /\ report' = FailReport(steps, o, history, kind)
    /\ pc' = "done"

Pass ==
    /\ report' = PassReport(steps)
    /\ pc' = "done"

(* run_with: a statically empty mix fails before anything is applied. *)
ResolveMix ==
    /\ pc = "resolve"
    /\ IF StaticallyEmpty(plan.mix)
         THEN Fail(NoOp, Infra("mix"))
         ELSE pc' = "next" /\ UNCHANGED report
    /\ UNCHANGED <<plan, source, world, op, steps, history, coverage, log>>

(* drive, once source.next answered Some(o): history.push, steps += 1. *)
Begin(o) ==
    /\ op' = o
    /\ history' = Append(history, o)
    /\ steps' = steps + 1
    /\ pc' = "apply"

(* OpSource::Generated.  The remaining budget is spent only by a draw that  *)
(* succeeds.                                                                *)
Draw ==
    /\ pc = "next" /\ ~plan.fixed
    /\ source.remaining > 0
    /\ \E k \in Drawable(plan.mix, world) : \E o \in Generate(world, k) : Begin(o)
    /\ source' = [source EXCEPT !.remaining = @ - 1]
    /\ UNCHANGED <<plan, world, coverage, report, log>>

(* Every effective weight is 0: the run fails on the last op it applied. *)
Starve ==
    /\ pc = "next" /\ ~plan.fixed
    /\ source.remaining > 0
    /\ Drawable(plan.mix, world) = {}
    /\ Fail(LastOp(history), Infra("draw"))
    /\ UNCHANGED <<plan, source, world, op, steps, history, coverage, log>>

(* OpSource::Fixed. *)
TakeFixed ==
    /\ pc = "next" /\ plan.fixed
    /\ source.rest # <<>>
    /\ Begin(Head(source.rest))
    /\ source' = [source EXCEPT !.rest = Tail(@)]
    /\ UNCHANGED <<plan, world, coverage, report, log>>

Exhausted == IF plan.fixed THEN source.rest = <<>> ELSE source.remaining = 0

Finish ==
    /\ pc = "next" /\ Exhausted
    /\ Pass
    /\ UNCHANGED <<plan, source, world, op, steps, history, coverage, log>>

(* Seeded defect: an infra failure is logged and the run goes on. *)
ApplyOpForgivingInfra ==
    /\ pc = "apply"
    /\ \E r \in Apply(world, op) :
         /\ world' = r.world
         /\ log' = Append(log, [before |-> world, answer |-> r.answer[1], after |-> r.world])
         /\ \/ /\ r.answer[1] # "bug"
               /\ pc' = IF Due(plan.every, steps) THEN "sweep" ELSE "next"
               /\ UNCHANGED report
            \/ r.answer[1] = "bug" /\ Fail(op, Bug(r.answer[2]))
    /\ UNCHANGED <<plan, source, op, steps, history, coverage>>

(* step: apply_op.  An error ends the run there, before any sweep. *)
ApplyOp ==
    /\ pc = "apply"
    /\ \E r \in Apply(world, op) :
         /\ world' = r.world
         /\ log' = Append(log, [before |-> world, answer |-> r.answer[1], after |-> r.world])
         /\ \/ /\ r.answer[1] \in Verdicts
               /\ pc' = IF Due(plan.every, steps) THEN "sweep" ELSE "next"
               /\ UNCHANGED report
            \/ r.answer[1] = "bug" /\ Fail(op, Bug(r.answer[2]))
            \/ r.answer[1] = "infra" /\ Fail(op, Infra("apply"))
    /\ UNCHANGED <<plan, source, op, steps, history, coverage>>

(* step: sweep. *)
Sweep ==
    /\ pc = "sweep"
    /\ coverage' = SweepCoverage(coverage, world)
    /\ IF Clean(world)
         THEN pc' = "next" /\ UNCHANGED report
         ELSE Fail(op, SweepFailure(world))
    /\ UNCHANGED <<plan, source, world, op, steps, history, log>>

Done == pc = "done" /\ UNCHANGED vars

Next == ResolveMix \/ Draw \/ Starve \/ TakeFixed \/ Finish \/ ApplyOp \/ Sweep \/ Done

-----------------------------------------------------------------------------
Passed == pc = "done" /\ report.passed
Failed == pc = "done" /\ ~report.passed

(* The steps whose sweep lies behind the run. *)
Swept == {i \in 1 .. Len(log) : Due(plan.every, i)
            /\ \/ i < Len(log) \/ pc \in {"next", "apply"} \/ Passed
               \/ Failed /\ report.kind = Infra("draw")}

(* A run gets past a step that is due a check only if every invariant held  *)
(* or was skipped in the world that step left: no violation at the cadence  *)
(* is ever stepped over.                                                    *)
NothingStepsOverAViolation ==
    \A i \in Swept : Clean(log[i].after)

(* A failing report tells the first fault and not a later one: every op     *)
(* before the reported step got a verdict, and the kind is the one the      *)
(* reported step's answer or sweep produced.                                *)
FailureIsTheFirstFault ==
    Failed =>
      /\ \A i \in 1 .. (Len(log) - 1) : log[i].answer \in Verdicts
      /\ report.kind.kind = "Bug" => log[report.steps].answer = "bug"
      /\ report.kind = Infra("apply") => log[report.steps].answer = "infra"
      /\ report.kind.kind = "Invariant" =>
           /\ Due(plan.every, report.steps)
           /\ log[report.steps].answer \in Verdicts
           /\ report.kind = SweepFailure(log[report.steps].after)

Total(n) == coverage[n]["held"] + coverage[n]["skipped"] + coverage[n]["violated"]

(* Coverage tells exactly which sweeps ran: the first invariant was checked *)
(* once per due step that got a verdict, and an invariant falls behind the  *)
(* one before it only in the sweep that failed the run.  (Stated for        *)
(* invariants with names of their own.)                                     *)
CoverageCountsTheSweeps ==
    (\A i, j \in DOMAIN Invariants : Invariants[i] = Invariants[j] => i = j) =>
      \A i \in DOMAIN Invariants :
        Total(Invariants[i]) =
          Cardinality(Swept)
            + IF Failed /\ report.kind.kind = "Invariant" /\ i \in Checked(world)
                THEN 1 ELSE 0

Weighs(w, i) ==
    LET c == Candidates(plan.mix)[i] IN c[2] # 0 /\ Weight(w, c[1]) # 0

(* Only ops of a kind with a non-zero static and a non-zero dynamic weight  *)
(* in the world they were drawn in are ever applied, and a run starves only *)
(* in a world that leaves no such kind.  The product saturates, so two      *)
(* large weights never cancel into an undrawable kind.                      *)
DrawsFollowTheWeights ==
    /\ ~plan.fixed => \A i \in 1 .. Len(log) :
         \E j \in DOMAIN Candidates(plan.mix) :
           /\ Weighs(log[i].before, j)
           /\ history[i] \in Generate(log[i].before, Candidates(plan.mix)[j][1])
    /\ Failed /\ report.kind = Infra("draw") =>
         \A j \in DOMAIN Candidates(plan.mix) : ~Weighs(world, j)
-----------------------------------------------------------------------------
(* Runner::replay is run_fixed over the reported history with check_every   *)
(* = 1.                                                                     *)
Replayed(r) == RunFixed(r.history, 1, log[1].before)

(* The driver and the function that stands for it in Shrink agree: a fixed  *)
(* run reports exactly what RunFixed computes from its arguments.           *)
FixedRunIsRunFixed ==
    plan.fixed /\ pc = "done" /\ log # <<>> =>
      LET run == RunFixed(plan.list, plan.every, log[1].before)
      IN  report.kind = run.kind /\ report.steps = run.steps /\ world = run.world

(* A failure found while sweeping after every op replays: same kind, same   *)
(* step, same final world.  (A starved draw is not an op and cannot.)       *)
ReplayReproduces ==
    Failed /\ ~plan.fixed /\ plan.every = 1 /\ report.kind \notin {Infra("mix"), Infra("draw")} =>
      LET again == Replayed(report)
      IN  again.kind = report.kind /\ again.steps = report.steps /\ again.world = world
=============================================================================
